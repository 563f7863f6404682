---------------------------- MODULE IngressProofs ----------------------------
(***************************************************************************)
(* The front door proved for every configuration: the rules the loader     *)
(* checks on a document are enough for the router, the tools and the       *)
(* public server; and the window of event keys lets an event have its      *)
(* effect once.                                                            *)
(*                                                                         *)
(* Four parts: the router alone; what an accepted document promises; the   *)
(* start of the process, which keeps every platform one of an accepted     *)
(* document; the runtime of an App with its window.                        *)
(***************************************************************************)
EXTENDS Ingress, SequenceTheorems, FiniteSetTheorems, TLAPS

-----------------------------------------------------------------------------
(* The router.                                                             *)

(* Two prefixes of the same length that begin one message are the same.    *)
LEMMA SamePrefix ==
  ASSUME NEW p \in Seq(Word), NEW q \in Seq(Word),
         NEW text \in Seq(Word),
         Starts(p, text), Starts(q, text), Len(p) = Len(q)
  PROVE  p = q
<1>1. \A i \in 1 .. Len(p) : p[i] = q[i]
  BY DEF Starts
<1>. QED  BY <1>1, SeqEqual

(* A matching route with prefixes shows which of them the message begins   *)
(* with; the length is that of the score.                                  *)
LEMMA PrefixFound ==
  ASSUME NEW r, NEW m, PrefixLength(r, m) > 0
  PROVE  \E p \in r.prefixes :
           Len(p) = PrefixLength(r, m) /\ Starts(p, m.beginning)
<1>1. CASE Commands(r, 2, m)
  <2>1. PrefixLength(r, m) = 2
    BY <1>1 DEF PrefixLength
  <2>. QED  BY <1>1, <2>1 DEF Commands
<1>2. CASE ~Commands(r, 2, m)
  <2>1. Commands(r, 1, m) /\ PrefixLength(r, m) = 1
    BY <1>2 DEF PrefixLength
  <2>. QED  BY <2>1 DEF Commands
<1>. QED  BY <1>1, <1>2

(* No prefixes, no prefix length.                                          *)
LEMMA NoPrefixLength ==
  ASSUME NEW r, NEW m, r.prefixes = {}
  PROVE  PrefixLength(r, m) = 0
BY DEF PrefixLength, Commands

(* An allowlist pair that admits the same member overlaps.                 *)
LEMMA AdmittedOverlap ==
  ASSUME NEW s, NEW t, NEW x, Admits(s, x), Admits(t, x)
  PROVE  Overlap(s, t)
BY DEF Admits, Overlap

(* The message that both routes match refutes that they cannot tie: either *)
(* a common prefix or three pairs of overlapping allowlists.               *)
LEMMA EqualScoresTie ==
  ASSUME NEW r \in Route, NEW q \in Route, NEW m \in RoutedMessage,
         Matches(r, m), Matches(q, m), Score(r, m) = Score(q, m)
  PROVE  CanTie(r, q)
<1>1. r.priority = q.priority /\ PrefixLength(r, m) = PrefixLength(q, m)
      /\ Specificity(r) = Specificity(q)
  BY DEF Score
<1>2. CASE r.prefixes # {} \/ q.prefixes # {}
  <2>1. PrefixLength(r, m) > 0 /\ PrefixLength(q, m) > 0
    BY <1>1, <1>2 DEF Matches
  <2>2. PICK p \in r.prefixes :
          Len(p) = PrefixLength(r, m) /\ Starts(p, m.beginning)
    BY <2>1, PrefixFound
  <2>3. PICK c \in q.prefixes :
          Len(c) = PrefixLength(q, m) /\ Starts(c, m.beginning)
    BY <2>1, PrefixFound
  <2>4. p \in Seq(Word) /\ c \in Seq(Word) /\ m.beginning \in Seq(Word)
    BY DEF Route, RoutedMessage
  <2>5. p = c
    <3>1. Len(p) = Len(c)
      BY <1>1, <2>2, <2>3
    <3>. QED  BY <2>2, <2>3, <2>4, <3>1, SamePrefix
  <2>. QED  BY <1>1, <1>2, <2>5 DEF CanTie
<1>3. CASE r.prefixes = {} /\ q.prefixes = {}
  <2>1. /\ Overlap(r.chats, q.chats)
        /\ Overlap(r.users, q.users)
        /\ Overlap(r.topics, q.topics)
    BY AdmittedOverlap DEF Matches
  <2>2. \A s \in Selectors : Overlap(r[s], q[s])
    BY <2>1 DEF Selectors
  <2>. QED  BY <1>1, <1>3, <2>2 DEF CanTie
<1>. QED  BY <1>2, <1>3

(* Every set of bindings that the loader accepts for an App is routed      *)
(* without ambiguity, whatever the words, places, priorities and number of *)
(* bindings: resolve() never throws AmbiguousBindingRouteError.            *)
THEOREM RoutesAreUnambiguous ==
  ASSUME NEW bindings, \A b \in bindings : b.route \in Route,
         NEW messages \in SUBSET RoutedMessage,
         RoutesAccepted(bindings)
  PROVE  RoutesUnambiguous(bindings, messages)
<1>. SUFFICES ASSUME NEW m \in messages, Ambiguous(bindings, m)
              PROVE  FALSE
  BY DEF RoutesUnambiguous
<1>1. PICK b \in Winners(bindings, m), c \in Winners(bindings, m) :
        b # c /\ Score(b.route, m) = Score(c.route, m)
  BY DEF Ambiguous
<1>2. /\ b \in bindings /\ c \in bindings
      /\ ~b.route.default /\ ~c.route.default
      /\ Matches(b.route, m) /\ Matches(c.route, m)
  BY DEF Winners, Candidates
<1>3. b.route \in Route /\ c.route \in Route /\ m \in RoutedMessage
  BY <1>2
<1>4. CanTie(b.route, c.route)
  BY <1>1, <1>2, <1>3, EqualScoresTie
<1>5. ~CanTie(b.route, c.route)
  BY <1>1, <1>2 DEF RoutesAccepted
<1>. QED  BY <1>4, <1>5

-----------------------------------------------------------------------------
(* What an accepted document promises.                                     *)

(* Making the paths and switches of an App explicit changes none of them.  *)
LEMMA PathsKept ==
  ASSUME NEW m,
         {"id", "events", "callbacks", "eventPath", "callbackPath", "oauth",
          "redirectPath"} \subseteq DOMAIN m
  PROVE  /\ AppOf(m).id = m.id
         /\ EventPathOf(AppOf(m)) = EventPathOf(m)
         /\ CallbackPathOf(AppOf(m)) = CallbackPathOf(m)
         /\ RedirectPathOf(AppOf(m)) = RedirectPathOf(m)
         /\ PublicPaths(AppOf(m)) \subseteq PublicPaths(m)
<1>. DEFINE a == AppOf(m)
<1>1. /\ a.id = m.id /\ a.events = m.events /\ a.callbacks = m.callbacks
      /\ a.oauth = Or(m.oauth, FALSE)
      /\ a.eventPath = EventPathOf(m) /\ a.callbackPath = CallbackPathOf(m)
      /\ a.redirectPath = RedirectPathOf(m)
  BY DEF AppOf
<1>2. /\ EventPathOf(a) = EventPathOf(m)
      /\ CallbackPathOf(a) = CallbackPathOf(m)
      /\ RedirectPathOf(a) = RedirectPathOf(m)
  BY <1>1 DEF EventPathOf, CallbackPathOf, RedirectPathOf, Or
<1>3. a.oauth = TRUE => m.oauth = TRUE
  BY <1>1 DEF Or
<1>. HIDE DEF a
<1>4. PublicPaths(a) \subseteq PublicPaths(m)
  BY <1>1, <1>2, <1>3 DEF PublicPaths
<1>. QED  BY <1>1, <1>2, <1>4 DEF a

(* A path that an App may be given is none of the administration's, of     *)
(* its programming interface or of the status pages, whether or not the    *)
(* URL parser rewrites it.                                                 *)
LEMMA AssignableIsFree ==
  ASSUME NEW path, IsPath(path), NEW oauth, Assignable(path, oauth)
  PROVE  /\ ~AdminPath(PathName(path))
         /\ PathName(path) \notin {<<"healthz">>, <<"readyz">>}
<1>. DEFINE name == PathName(path)
<1>1. path # << >> /\ path[1] \notin {"admin", "api"}
      /\ path \notin {<<"healthz">>, <<"readyz">>}
  BY DEF Assignable
<1>2. Len(path) \in Nat /\ DOMAIN path = 1 .. Len(path) /\ 1 \in DOMAIN path
  BY <1>1 DEF IsPath
<1>3. /\ DOMAIN name = DOMAIN path
      /\ name[1] = IF path[1] \in DOMAIN Escaped THEN Escaped[path[1]]
                   ELSE path[1]
  BY <1>2 DEF PathName
<1>4. \A word \in {"admin", "api", "healthz", "readyz"} :
        name[1] = word => path[1] = word
  BY <1>3, EscapeAssumption
<1>. HIDE DEF name
<1>5. ASSUME Starts(<<"api", "admin", "v1">>, name)  PROVE FALSE
  <2>1. name[1] = "api"
    BY <1>5 DEF Starts
  <2>. QED  BY <1>1, <1>4, <2>1
<1>6. ~AdminPath(name)
  BY <1>1, <1>4, <1>5 DEF AdminPath
<1>7. ASSUME NEW word \in {"healthz", "readyz"}, name = <<word>>
      PROVE  FALSE
  <2>1. path[1] = word
    BY <1>3, <1>4, <1>7
  <2>2. Len(path) = 1
    <3>1. DOMAIN <<word>> = {1}
      OBVIOUS
    <3>2. DOMAIN path = {1}
      BY <1>3, <1>7, <3>1
    <3>3. 2 \notin DOMAIN path
      BY <3>2
    <3>. QED  BY <1>2, <3>3
  <2>3. path = <<word>>
    BY <2>1, <2>2 DEF IsPath
  <2>. QED  BY <1>1, <2>3
<1>. QED  BY <1>6, <1>7 DEF name

LEMMA FourWords ==
  ASSUME NEW a, NEW b, NEW c, NEW e
  PROVE  IsPath(<<a, b, c, e>>)
<1>. DEFINE p == <<a, b, c, e>>
            S == {p[i] : i \in DOMAIN p}
<1>1. a \in S /\ b \in S /\ c \in S /\ e \in S
  <2>1. DOMAIN p = 1 .. 4
    OBVIOUS
  <2>. QED  BY <2>1
<1>. HIDE DEF S
<1>2. p \in Seq(S)
  BY <1>1
<1>. QED  BY <1>2 DEF IsPath, S

(* The paths of a document are sequences of segments.                      *)
LEMMA PathsAreWritten ==
  ASSUME NEW d, IsDocument(d), NEW m \in d.apps
  PROVE  /\ IsPath(EventPathOf(m))
         /\ IsPath(CallbackPathOf(m))
         /\ IsPath(RedirectPathOf(m))
<1>1. \A p \in {m.eventPath, m.callbackPath, m.redirectPath} \ {Unset} :
        IsPath(p)
  BY DEF IsDocument
<1>2. /\ IsPath(<<"public", "feishu", m.id, "events">>)
      /\ IsPath(<<"public", "feishu", m.id, "callbacks">>)
      /\ IsPath(<<"public", "oauth", m.id, "callback">>)
  BY FourWords
<1>. QED  BY <1>1, <1>2 DEF EventPathOf, CallbackPathOf, RedirectPathOf, Or

(* The export of a platform is a document again.                           *)
LEMMA ExportIsDocument ==
  ASSUME NEW d, IsDocument(d)
  PROVE  IsDocument(PlatformOf(d))
<1>1. ASSUME NEW m \in d.apps
      PROVE  DOMAIN AppOf(m) = DOMAIN m
  BY DEF AppOf
<1>2. ASSUME NEW m \in d.agents
      PROVE  /\ DOMAIN AgentOf(m) = DOMAIN m
             /\ AgentOf(m).operations = m.operations
  BY DEF AgentOf, IsDocument
<1>3. \A n \in PlatformOf(d).apps : \E m \in d.apps : n = AppOf(m)
  BY DEF PlatformOf, On
<1>4. \A n \in PlatformOf(d).agents : \E m \in d.agents : n = AgentOf(m)
  BY DEF PlatformOf, On
<1>5. PlatformOf(d).bindings \subseteq d.bindings
  BY DEF PlatformOf, On
<1>6. ASSUME NEW n \in PlatformOf(d).apps
      PROVE  /\ {"id", "events", "callbacks", "eventPath", "callbackPath",
                 "oauth", "redirectPath"} \subseteq DOMAIN n
             /\ \A p \in {n.eventPath, n.callbackPath, n.redirectPath}
                          \ {Unset} : IsPath(p)
  <2>1. PICK m \in d.apps : n = AppOf(m)
    BY <1>3
  <2>2. {"id", "events", "callbacks", "eventPath", "callbackPath", "oauth",
         "redirectPath"} \subseteq DOMAIN m
    BY DEF IsDocument
  <2>3. /\ n.id = m.id /\ n.eventPath = EventPathOf(m)
        /\ n.callbackPath = CallbackPathOf(m)
        /\ n.redirectPath = RedirectPathOf(m)
    BY <2>1, <2>2 DEF AppOf
  <2>. QED  BY <1>1, <2>1, <2>2, <2>3, PathsAreWritten DEF IsDocument
<1>7. ASSUME NEW n \in PlatformOf(d).agents
      PROVE  /\ {"id", "mode", "identity", "feishu", "workspace", "grants",
                 "operations", "larkCli", "upstream"} \subseteq DOMAIN n
             /\ \A op \in n.operations : op.class \in CommandClass
  BY <1>2, <1>4 DEF IsDocument
<1>. QED  BY <1>5, <1>6, <1>7 DEF IsDocument

(* Every request of the broker that changes something belongs to a tool on *)
(* the loader's list of tools that write.                                  *)
LEMMA ChangesAreWrites ==
  ASSUME NEW tool, ChangesFeishu(tool)
  PROVE  tool \in WriteFeishuTools
BY DEF ChangesFeishu, Changes, WriteFeishuTools, Deletions

(* A command the loader accepts has words that only read.                  *)
LEMMA OperationReads ==
  ASSUME NEW op, op.class \in CommandClass, OperationAccepted(op)
  PROVE  op.class = "read"
<1>1. Rank(Effects, "read") = 1 /\ Rank(Effects, "write") = 2
      /\ Rank(Effects, "high-risk-write") = 3
  BY DEF Rank, Effects
<1>. QED  BY <1>1 DEF OperationAccepted, CommandClass

(* The platform of an accepted document: its Agents read, ...              *)
LEMMA AcceptedReads ==
  ASSUME NEW d, NEW credentials, IsDocument(d), Accepted(d, credentials),
         NEW n \in PlatformOf(d).agents
  PROVE  /\ \A tool \in n.feishu : ~ChangesFeishu(tool)
         /\ \A op \in n.operations : op.class = "read"
<1>1. PICK m \in On(d.agents) : n = AgentOf(m)
  BY DEF PlatformOf
<1>2. m \in d.agents /\ AgentAccepted(m)
  BY <1>1 DEF On, Accepted
<1>3. n.feishu = FeishuToolsOf(m) /\ n.operations = m.operations
  BY <1>1, <1>2 DEF AgentOf, IsDocument
<1>4. \A tool \in n.feishu : ~ChangesFeishu(tool)
  BY <1>2, <1>3, ChangesAreWrites DEF AgentAccepted, FeishuReadOnly
<1>5. \A op \in m.operations :
        op.class \in CommandClass /\ OperationAccepted(op)
  BY <1>2 DEF IsDocument, AgentAccepted, LarkCliAccepted
<1>. QED  BY <1>3, <1>4, <1>5, OperationReads

(* ... its Apps own their paths, ...                                       *)
LEMMA AcceptedOwnsPaths ==
  ASSUME NEW d, NEW credentials, IsDocument(d), Accepted(d, credentials),
         NEW a \in PlatformOf(d).apps, NEW q \in PublicPaths(a)
  PROVE  ReachedAlone(PlatformOf(d), a, q)
<1>. DEFINE p == PlatformOf(d)
            method == IF q[1] = "oauth" THEN "GET" ELSE "POST"
            name == PathName(q[2])
<1>1. \A b \in p.apps : \E m \in On(d.apps) :
        b = AppOf(m) /\ b.id = m.id /\ PublicPaths(b) \subseteq PublicPaths(m)
  <2>1. p.apps = {AppOf(m) : m \in On(d.apps)}
    BY DEF PlatformOf
  <2>2. \A m \in On(d.apps) :
          AppOf(m).id = m.id /\ PublicPaths(AppOf(m)) \subseteq PublicPaths(m)
    BY PathsKept DEF On, IsDocument
  <2>. QED  BY <2>1, <2>2
<1>2. PICK m \in On(d.apps) :
        a = AppOf(m) /\ a.id = m.id /\ PublicPaths(a) \subseteq PublicPaths(m)
  BY <1>1
<1>3. q \in PublicPaths(m) /\ AppAccepted(m, credentials)
  BY <1>2 DEF Accepted
<1>4. IsPath(q[2]) /\ \E oauth : Assignable(q[2], oauth)
  <2>1. q[2] \in {EventPathOf(m), CallbackPathOf(m), RedirectPathOf(m)}
    BY <1>3 DEF PublicPaths
  <2>. QED  BY <1>3, <2>1, PathsAreWritten DEF AppAccepted, On
<1>5. ~AdminPath(name) /\ name \notin {<<"healthz">>, <<"readyz">>}
  BY <1>4, AssignableIsFree
<1>6. PathsDistinct(On(d.apps))
  BY DEF Accepted, Assembled
<1>7. ASSUME NEW b \in p.apps, NEW r \in PublicPaths(b),
             NEW c \in p.apps, NEW t \in PublicPaths(c), r[2] = t[2]
      PROVE  b.id = c.id /\ r = t
  <2>1. PICK n \in On(d.apps) :
          b.id = n.id /\ PublicPaths(b) \subseteq PublicPaths(n)
    BY <1>1
  <2>2. PICK o \in On(d.apps) :
          c.id = o.id /\ PublicPaths(c) \subseteq PublicPaths(o)
    BY <1>1
  <2>3. r \in PublicPaths(n) /\ t \in PublicPaths(o)
    BY <2>1, <2>2
  <2>. QED  BY <1>6, <1>7, <2>1, <2>2, <2>3 DEF PathsDistinct
<1>8. q[1] = "oauth" <=> method = "GET"
  OBVIOUS
<1>. DEFINE Of(b) == {<<b.id, r[1]>> :
               r \in {r \in PublicPaths(b) :
                        r[2] = name /\ (r[1] = "oauth" <=> method = "GET")}}
            served == ServedBy(p, method, name)
<1>9. served = UNION {Of(b) : b \in p.apps}
  BY <1>5 DEF ServedBy
<1>. HIDE DEF method, name, served
<1>10. ASSUME NEW s \in served
       PROVE  \E n \in p.apps : \E r \in PublicPaths(n) :
                s = <<n.id, r[1]>> /\ r[2] = name
  BY <1>9
<1>11. \A s, t \in served : s = t
  <2>. SUFFICES ASSUME NEW s \in served, NEW t \in served  PROVE s = t
    OBVIOUS
  <2>1. PICK b \in p.apps : \E r \in PublicPaths(b) :
          s = <<b.id, r[1]>> /\ r[2] = name
    BY <1>10
  <2>2. PICK r \in PublicPaths(b) : s = <<b.id, r[1]>> /\ r[2] = name
    BY <2>1
  <2>3. PICK c \in p.apps : \E u \in PublicPaths(c) :
          t = <<c.id, u[1]>> /\ u[2] = name
    BY <1>10
  <2>4. PICK u \in PublicPaths(c) : t = <<c.id, u[1]>> /\ u[2] = name
    BY <2>3
  <2>5. b.id = c.id /\ r = u
    BY <1>7, <2>2, <2>4
  <2>. QED  BY <2>2, <2>4, <2>5
<1>12. ASSUME name = q[2]
       PROVE  served = {<<a.id, q[1]>>}
  <2>1. <<a.id, q[1]>> \in Of(a)
    BY <1>8, <1>12
  <2>2. <<a.id, q[1]>> \in served
    BY <1>9, <2>1
  <2>. QED  BY <1>11, <2>2
<1>. QED  BY <1>10, <1>11, <1>12 DEF ReachedAlone, method, name, served

(* ... and its Apps have routes that the router tells apart.               *)
LEMMA AcceptedRoutes ==
  ASSUME NEW d, NEW credentials, IsDocument(d), Accepted(d, credentials),
         NEW a \in PlatformOf(d).apps, NEW m \in RoutedMessage
  PROVE  ~Ambiguous(BindingsOfApp(PlatformOf(d), a.id), m)
<1>. DEFINE bindings == BindingsOfApp(PlatformOf(d), a.id)
<1>1. PICK n \in On(d.apps) : a = AppOf(n)
  BY DEF PlatformOf
<1>2. a.id = n.id
  BY <1>1, PathsKept DEF On, IsDocument
<1>3. bindings = BindingsOfApp(d, n.id)
  BY <1>2 DEF BindingsOfApp, PlatformOf, On
<1>4. RoutesAccepted(bindings)
  BY <1>3 DEF Accepted, Assembled
<1>5. \A b \in bindings : b.route \in Route
  BY <1>3 DEF BindingsOfApp, On, IsDocument
<1>6. RoutesUnambiguous(bindings, {m})
  BY <1>4, <1>5, RoutesAreUnambiguous
<1>. QED  BY <1>6 DEF RoutesUnambiguous

-----------------------------------------------------------------------------
(* The start of the process.                                               *)

(* Whatever the Host runs is the platform of a document that the loader    *)
(* accepted with some credentials, and what is stored is a document.       *)
Loaded ==
  \/ platform = Empty
  \/ \E d, credentials : /\ IsDocument(d) /\ Accepted(d, credentials)
                         /\ platform = PlatformOf(d)

BootInv ==
  /\ stage = "importing" => yaml \in Yaml
  /\ active = Unset \/ IsDocument(active)
  /\ Loaded

LEMMA BootInvInit == BootInit => BootInv
BY DEF BootInit, BootInv, Loaded

LEMMA BootInvKept == BootInv /\ [BootNext]_bootVars => BootInv'
<1>. SUFFICES ASSUME BootInv, [BootNext]_bootVars
              PROVE  BootInv'
  OBVIOUS
<1>. USE DEF BootInv
<1>1. CASE OpenDatabase
  BY <1>1 DEF OpenDatabase, Loaded
<1>2. CASE ProcessEnds
  BY <1>2 DEF ProcessEnds, Loaded
<1>3. CASE ImportSeed
  <2>1. IsDocument(yaml)
    BY <1>3, BootAssumption DEF ImportSeed
  <2>. QED  BY <1>3, <2>1, ExportIsDocument DEF ImportSeed, Loaded
<1>4. CASE LoadActive
  <2>1. Loaded'
    BY <1>4 DEF LoadActive, Loaded
  <2>. QED  BY <1>4, <2>1 DEF LoadActive
<1>5. CASE StartHost
  BY <1>5 DEF StartHost, Loaded
<1>6. ASSUME NEW files \in Yaml, LoadYaml(files)
      PROVE  BootInv'
  BY <1>6 DEF LoadYaml, Loaded
<1>7. ASSUME NEW n \in Name, Import(n)
      PROVE  BootInv'
  BY <1>7 DEF Import, Loaded
<1>8. ASSUME NEW p \in OperatorSets, SetCredential(p[1], p[2])
      PROVE  BootInv'
  BY <1>8 DEF SetCredential, Loaded
<1>9. ASSUME NEW d \in Published, Publish(d)
      PROVE  BootInv'
  <2>1. IsDocument(d)
    BY BootAssumption
  <2>2. Loaded'
    BY <1>9, <2>1 DEF Publish, Loaded
  <2>. QED  BY <1>9, <2>1, <2>2 DEF Publish
<1>10. CASE UNCHANGED bootVars
  BY <1>10 DEF bootVars, Loaded
<1>. QED  BY <1>1, <1>2, <1>3, <1>4, <1>5, <1>6, <1>7, <1>8, <1>9, <1>10
          DEF BootNext

LEMMA NothingRunsInEmpty ==
  ASSUME platform = Empty
  PROVE  PlatformIsReadOnly /\ IngressReachesItsApp
BY DEF Empty, PlatformIsReadOnly, IngressReachesItsApp

LEMMA LoadedReads == Loaded => PlatformIsReadOnly
<1>. SUFFICES ASSUME Loaded, platform # Empty
              PROVE  PlatformIsReadOnly
  BY NothingRunsInEmpty
<1>1. PICK d, credentials : /\ IsDocument(d) /\ Accepted(d, credentials)
                            /\ platform = PlatformOf(d)
  BY DEF Loaded
<1>. QED  BY <1>1, AcceptedReads DEF PlatformIsReadOnly

LEMMA LoadedOwnsPaths == Loaded => IngressReachesItsApp
<1>. SUFFICES ASSUME Loaded, platform # Empty
              PROVE  IngressReachesItsApp
  BY NothingRunsInEmpty
<1>1. PICK d, credentials : /\ IsDocument(d) /\ Accepted(d, credentials)
                            /\ platform = PlatformOf(d)
  BY DEF Loaded
<1>2. ASSUME NEW a \in PlatformOf(d).apps, NEW q \in PublicPaths(a)
      PROVE  ReachedAlone(PlatformOf(d), a, q)
  BY <1>1, AcceptedOwnsPaths
<1>. QED  BY <1>1, <1>2 DEF IngressReachesItsApp

LEMMA LoadedRoutes ==
  ASSUME Loaded, AppHere # {}, NEW m \in RoutedMessage
  PROVE  ~Ambiguous(Bindings, m)
<1>1. PICK a \in platform.apps : a.id = App
  BY DEF AppHere
<1>2. PICK d, credentials : /\ IsDocument(d) /\ Accepted(d, credentials)
                            /\ platform = PlatformOf(d)
  BY <1>1 DEF Loaded, Empty
<1>. QED  BY <1>1, <1>2, AcceptedRoutes DEF Bindings

-----------------------------------------------------------------------------
(* The window of event keys.                                               *)

LEMMA KeyOf ==
  ASSUME NEW entries, NEW k
  PROVE  k \in Keys(entries) <=> \E e \in entries : e.key = k
BY DEF Keys

LEMMA KeepEntry ==
  ASSUME NEW entries, NEW keys
  PROVE  /\ \A e \in Keep(entries, keys) : e.key \in keys /\ \E f \in entries :
              e.key = f.key /\ e.until = f.until
         /\ \A f \in entries : f.key \in keys => \E e \in Keep(entries, keys) :
              e.key = f.key /\ e.until = f.until
<1>. DEFINE Kept(e) ==
       [key |-> e.key, until |-> e.until, older |-> e.older \cap keys]
<1>1. Keep(entries, keys) = {Kept(e) : e \in {e \in entries : e.key \in keys}}
  BY DEF Keep
<1>2. \A e : Kept(e).key = e.key /\ Kept(e).until = e.until
  OBVIOUS
<1>. HIDE DEF Kept
<1>3. \A e \in Keep(entries, keys) :
        e.key \in keys /\ \E f \in entries :
          e.key = f.key /\ e.until = f.until
  BY <1>1, <1>2
<1>4. ASSUME NEW f \in entries, f.key \in keys
      PROVE  \E e \in Keep(entries, keys) : e.key = f.key /\ e.until = f.until
  <2>1. Kept(f) \in Keep(entries, keys)
    BY <1>1, <1>4
  <2>. QED  BY <1>2, <2>1
<1>. QED  BY <1>3, <1>4

LEMMA KeepKeys ==
  ASSUME NEW entries, NEW keys, NEW k
  PROVE  k \in Keys(Keep(entries, keys)) <=> k \in Keys(entries) /\ k \in keys
<1>1. ASSUME k \in Keys(Keep(entries, keys))
      PROVE  k \in Keys(entries) /\ k \in keys
  <2>1. PICK e \in Keep(entries, keys) : e.key = k
    BY <1>1, KeyOf
  <2>2. e.key \in keys /\ \E f \in entries : e.key = f.key
    BY <2>1, KeepEntry
  <2>. QED  BY <2>1, <2>2, KeyOf
<1>2. ASSUME k \in Keys(entries), k \in keys
      PROVE  k \in Keys(Keep(entries, keys))
  <2>1. PICK f \in entries : f.key = k
    BY <1>2, KeyOf
  <2>2. \E e \in Keep(entries, keys) : e.key = k
    BY <1>2, <2>1, KeepEntry
  <2>. QED  BY <2>2, KeyOf
<1>. QED  BY <1>1, <1>2

(* Whoever leaves a pruned window has no time left.                        *)
LEMMA LiveKeeps ==
  ASSUME NEW entries
  PROVE  /\ Keys(Live(entries)) \subseteq Keys(entries)
         /\ \A f \in entries : f.until > now => f.key \in Keys(Live(entries))
         /\ \A e \in Live(entries) : \E f \in entries :
              e.key = f.key /\ e.until = f.until
<1>. DEFINE young == {e \in entries : e.until > now}
<1>1. \A k : k \in Keys(Live(entries))
              <=> k \in Keys(entries) /\ k \in Keys(young)
  BY KeepKeys DEF Live
<1>2. \A f \in young : f.key \in Keys(young) /\ f.key \in Keys(entries)
  BY KeyOf
<1>3. \A e \in Live(entries) : \E f \in entries :
        e.key = f.key /\ e.until = f.until
  BY KeepEntry DEF Live
<1>. QED  BY <1>1, <1>2, <1>3

(* An accepted key is in the window for Ttl; of the others only those leave *)
(* that an overflow displaces or that have no time left.                   *)
LEMMA AcceptedKey ==
  ASSUME NEW k, now \in Nat
  PROVE  /\ k \in Keys(WindowWith(k))
         /\ \A e \in WindowWith(k) :
              IF e.key = k THEN e.until = now + Ttl
              ELSE \E f \in window : f.key = e.key /\ f.until = e.until
         /\ \A f \in window : f.until > now =>
              f.key \in Keys(WindowWith(k)) \/ f.key \in Displaced(k)
         /\ Keys(WindowWith(k)) \subseteq Keys(window) \cup {k}
<1>. DEFINE W == WindowWith(k)
            new == [key |-> k, until |-> now + Ttl, older |-> Keys(window)]
            entries == window \cup {new}
            rest == Keep(entries, Keys(entries) \ Eldest)
<1>1. CASE Knows(k)
  <2>. DEFINE Renewed(e) ==
         [key |-> e.key, older |-> e.older,
          until |-> IF e.key = k THEN now + Ttl ELSE e.until]
  <2>1. W = {Renewed(e) : e \in window}
    BY <1>1 DEF WindowWith
  <2>2. \A e : Renewed(e).key = e.key
    OBVIOUS
  <2>3. ASSUME NEW j
        PROVE  j \in Keys(W) <=> j \in Keys(window)
    <3>. HIDE DEF Renewed
    <3>1. (\E e \in W : e.key = j) <=> \E e \in window : e.key = j
      BY <2>1, <2>2
    <3>. QED  BY <3>1, KeyOf
  <2>4. ASSUME NEW e \in W
        PROVE  IF e.key = k THEN e.until = now + Ttl
               ELSE \E f \in window : f.key = e.key /\ f.until = e.until
    BY <2>1
  <2>. QED  BY <1>1, <2>3, <2>4, KeyOf DEF Knows
<1>2. CASE ~Knows(k)
  <2>1. new.key = k /\ new.until = now + Ttl /\ new.until > now
    BY IngressAssumption
  <2>. HIDE DEF new
  <2>2. \A j : j \in Keys(entries) <=> j \in Keys(window) \/ j = k
    BY <2>1, KeyOf
  <2>3. k \notin Keys(window) /\ Eldest \subseteq Keys(window)
    BY <1>2 DEF Knows, Eldest, Keys
  <2>4. \A e \in entries : IF e.key = k THEN e.until = now + Ttl
                           ELSE e \in window
    BY <2>1, <2>3, KeyOf
  <2>5. new \in entries /\ window \subseteq entries
    OBVIOUS
  <2>6. CASE ~Overflows(k)
    <3>1. W = entries
      BY <1>2, <2>6 DEF WindowWith, new
    <3>2. \A f \in window : f.key \in Keys(window)
      BY KeyOf
    <3>. QED  BY <2>2, <2>4, <3>1, <3>2
  <2>7. CASE Overflows(k)
    <3>1. W = Live(rest) /\ Displaced(k) = Eldest
      BY <1>2, <2>7 DEF WindowWith, Displaced, new
    <3>. HIDE DEF entries
    <3>2. /\ \A j \in Keys(rest) : j \in Keys(window) \/ j = k
          /\ \A e \in rest : \E f \in entries :
               e.key = f.key /\ e.until = f.until
      BY <2>2, KeepKeys, KeepEntry
    <3>3. ASSUME NEW f \in entries, f.key \notin Eldest, f.until > now
          PROVE  f.key \in Keys(W)
      <4>1. f.key \in Keys(entries) \ Eldest
        BY <3>3, KeyOf
      <4>2. \E e \in rest : e.key = f.key /\ e.until = f.until
        BY <4>1, KeepEntry
      <4>. QED  BY <3>1, <3>3, <4>2, LiveKeeps
    <3>4. k \in Keys(W)
      BY <2>1, <2>3, <2>5, <3>3
    <3>5. Keys(W) \subseteq Keys(window) \cup {k}
      BY <3>1, <3>2, LiveKeeps
    <3>6. ASSUME NEW e \in W
          PROVE  IF e.key = k THEN e.until = now + Ttl
                 ELSE \E f \in window : f.key = e.key /\ f.until = e.until
      <4>1. PICK g \in rest : e.key = g.key /\ e.until = g.until
        BY <3>1, LiveKeeps
      <4>2. PICK f \in entries : e.key = f.key /\ e.until = f.until
        BY <3>2, <4>1
      <4>. QED  BY <2>4, <4>2
    <3>. QED  BY <2>5, <3>1, <3>3, <3>4, <3>5, <3>6
  <2>. QED  BY <2>6, <2>7
<1>. QED  BY <1>1, <1>2

-----------------------------------------------------------------------------
(* The runtime of the App.                                                 *)
Heard(k) == answer[k] # Unanswered

Recent(k) == Heard(k) /\ now - answer[k].at < Ttl

(* The time of a key in the window is that of its effect, or all of it for *)
(* a card action under way.                                                *)
Timed(e) ==
  /\ e.key \in Key
  /\ IF Busy(e.key) THEN e.until = now + Ttl
     ELSE Heard(e.key) /\ e.until = answer[e.key].at + Ttl

(* What had its effect lately is in the window and nobody works on it, or  *)
(* the window lost it.                                                     *)
Remembered(k) ==
  Recent(k) => k \in lost \/ (~Busy(k) /\ Knows(k))

(* A card action under way is in the window or lost, and lost for sure     *)
(* when several handlers work on it.                                       *)
Tracked(c) ==
  /\ Busy(c) => Knows(c) \/ c \in lost
  /\ handling[c] > 1 => c \in lost

WindowInv ==
  /\ now \in Nat
  /\ handling \in [Card -> Nat]
  /\ DOMAIN answer = Key
  /\ \A k \in Key : Heard(k) => answer[k].at \in Nat
  /\ \A e \in window : Timed(e)
  /\ \A c \in Card : Tracked(c)
  /\ \A k \in Key : Remembered(k)

(* A runtime takes events only for an App of the platform.                 *)
Served == runtime # "off" => AppHere # {}

IngressInv == BootInv /\ WindowInv /\ Served /\ NeverAmbiguous

(* A key that is new to the window of this moment is nobody's recent       *)
(* effect, unless the window lost it.                                      *)
LEMMA NewIsNotRecent ==
  ASSUME WindowInv, NEW k \in Key, ~IsDuplicate(k), Recent(k)
  PROVE  k \in lost
<1>1. k \in lost \/ (~Busy(k) /\ Knows(k))
  BY DEF WindowInv, Remembered
<1>2. ASSUME ~Busy(k), Knows(k)  PROVE FALSE
  <2>1. PICK e \in window : e.key = k
    BY <1>2 DEF Knows, Keys
  <2>2. Timed(e)
    BY DEF WindowInv
  <2>3. e.until = answer[k].at + Ttl /\ answer[k].at \in Nat
    BY <1>2, <2>1, <2>2 DEF Timed, WindowInv
  <2>4. e.until > now
    BY <2>3, IngressAssumption DEF Recent, WindowInv
  <2>. QED  BY <2>1, <2>4 DEF IsDuplicate
<1>. QED  BY <1>1, <1>2

LEMMA WindowSwallowsNothing == WindowInv => NothingSwallowed
<1>. SUFFICES ASSUME WindowInv, NEW k \in Key, IsDuplicate(k),
                     ~Busy(k)
              PROVE  answer[k] # Unanswered /\ now - answer[k].at < Ttl
  BY DEF NothingSwallowed
<1>1. PICK e \in window : e.key = k /\ e.until > now
  BY DEF IsDuplicate
<1>2. Heard(k) /\ e.until = answer[k].at + Ttl
  BY <1>1 DEF WindowInv, Timed
<1>3. answer[k].at \in Nat /\ now \in Nat
  BY <1>2 DEF WindowInv
<1>. QED  BY <1>1, <1>2, <1>3, IngressAssumption DEF Heard

(* Nothing of the window and the effects changes.                          *)
LEMMA WindowStays ==
  ASSUME WindowInv, UNCHANGED <<now, window, handling, answer, lost>>
  PROVE  WindowInv'
<1>1. \A k \in Key : (Heard(k) <=> Heard(k)') /\ (Recent(k) <=> Recent(k)')
  BY DEF Heard, Recent
<1>. QED  BY <1>1
          DEF WindowInv, Timed, Remembered, Knows, Keys, Heard, Busy, Tracked

(* The runtime goes: every key of its window is lost.                      *)
LEMMA WindowGone ==
  ASSUME WindowInv, Gone, UNCHANGED <<now, answer>>
  PROVE  WindowInv'
<1>1. \A k \in Key : (Heard(k) <=> Heard(k)') /\ (Recent(k) <=> Recent(k)')
  BY DEF Heard, Recent
<1>2. /\ window' = {} /\ handling' = [c \in Card |-> 0]
      /\ lost' = lost \cup Keys(window)
  BY DEF Gone
<1>3. ASSUME NEW k \in Key  PROVE Remembered(k)'
  BY <1>1, <1>2 DEF WindowInv, Remembered, Knows, Busy
<1>4. \A c \in Card : Tracked(c)'
  BY <1>2 DEF Tracked, Busy
<1>. QED  BY <1>1, <1>2, <1>3, <1>4 DEF WindowInv

LEMMA Ticks ==
  ASSUME WindowInv, Tick
  PROVE  WindowInv'
<1>1. /\ now' = now + 1 /\ \A c \in Card : ~Busy(c)
      /\ UNCHANGED <<window, handling, answer, lost>>
  BY DEF Tick
<1>2. ASSUME NEW k \in Key
      PROVE  (Heard(k) <=> Heard(k)') /\ (Recent(k)' => Recent(k))
  BY <1>1, IngressAssumption DEF WindowInv, Heard, Recent
<1>6. \A k : ~Busy(k) /\ ~Busy(k)'
  BY <1>1 DEF Busy
<1>3. ASSUME NEW k \in Key  PROVE Remembered(k)'
  BY <1>1, <1>2, <1>6 DEF WindowInv, Remembered, Knows, Keys
<1>4. \A e \in window' : Timed(e)'
  BY <1>1, <1>2, <1>6 DEF WindowInv, Timed
<1>5. \A c \in Card : Tracked(c)'
  BY <1>1, <1>6 DEF WindowInv, Tracked
<1>. QED  BY <1>1, <1>2, <1>3, <1>4, <1>5 DEF WindowInv

(* A key that leaves the window without being lost was old: pruning it     *)
(* forgets no recent effect and no card action under way.                  *)
LEMMA Pruned ==
  ASSUME WindowInv, NEW k \in Key, Knows(k),
         Busy(k) \/ Recent(k)
  PROVE  \E e \in window : e.key = k /\ e.until > now
<1>1. PICK e \in window : e.key = k
  BY KeyOf DEF Knows
<1>2. Timed(e) /\ now \in Nat /\ Ttl \in Nat \ {0}
  BY IngressAssumption DEF WindowInv
<1>3. CASE Busy(k)
  BY <1>1, <1>2, <1>3 DEF Timed
<1>4. CASE ~Busy(k)
  <2>1. e.until = answer[k].at + Ttl /\ answer[k].at \in Nat
    BY <1>1, <1>2, <1>4 DEF Timed, WindowInv
  <2>. QED  BY <1>1, <1>2, <1>4, <2>1 DEF Recent
<1>. QED  BY <1>3, <1>4

LEMMA Maintained ==
  ASSUME WindowInv, Maintenance
  PROVE  WindowInv'
<1>1. window' = Live(window) /\ UNCHANGED <<now, handling, answer, lost>>
  BY DEF Maintenance
<1>2. \A k \in Key : (Heard(k) <=> Heard(k)') /\ (Recent(k) <=> Recent(k)')
  BY <1>1 DEF Heard, Recent
<1>3. ASSUME NEW k \in Key, Knows(k), Busy(k) \/ Recent(k)
      PROVE  Knows(k)'
  BY <1>1, <1>3, Pruned, LiveKeeps DEF Knows
<1>4. ASSUME NEW e \in window'  PROVE Timed(e)'
  <2>1. PICK f \in window : e.key = f.key /\ e.until = f.until
    BY <1>1, LiveKeeps
  <2>2. Timed(f)
    BY DEF WindowInv
  <2>. QED  BY <1>1, <1>2, <2>1, <2>2 DEF Timed, Busy
<1>5. \A k \in Key : Remembered(k)'
  BY <1>1, <1>2, <1>3 DEF WindowInv, Remembered, Busy
<1>6. \A c \in Card : Tracked(c)'
  BY <1>1, <1>3 DEF WindowInv, Key, Tracked, Busy
<1>. QED  BY <1>1, <1>2, <1>4, <1>5, <1>6 DEF WindowInv

(* A message has its effect at once: its key and its effect have the time  *)
(* of now.                                                                 *)
LEMMA MessageTaken ==
  ASSUME WindowInv, NEW m \in Message, OnMessage(m)
  PROVE  WindowInv'
<1>1. CASE IsDuplicate(m)
  BY <1>1, WindowStays DEF OnMessage
<1>2. CASE ~IsDuplicate(m)
  <2>1. /\ window' = WindowWith(m)
        /\ lost' = (lost \ {m}) \cup Displaced(m)
        /\ \E e : e.at = now /\ answer' = [answer EXCEPT ![m] = e]
        /\ now' = now /\ handling' = handling
    BY <1>2 DEF OnMessage, Takes
  <2>2. m \in Key /\ ~Busy(m) /\ now \in Nat /\ DOMAIN answer = Key
    BY IngressAssumption DEF WindowInv, Key, Busy
  <2>10. \A k : Busy(k)' <=> Busy(k)
    BY <2>1 DEF Busy
  <2>3. /\ DOMAIN answer' = Key
        /\ Heard(m)' /\ answer'[m].at = now
        /\ \A k \in Key : k # m => answer'[k] = answer[k]
    BY <2>1, <2>2 DEF Heard, Unanswered
  <2>4. \A k \in Key : k # m =>
          (Heard(k) <=> Heard(k)') /\ (Recent(k) <=> Recent(k)')
    BY <2>1, <2>3 DEF Heard, Recent
  <2>5. ASSUME NEW k \in Key, k # m, Knows(k), Busy(k) \/ Recent(k)
        PROVE  Knows(k)' \/ k \in lost'
    <3>1. PICK f \in window : f.key = k /\ f.until > now
      BY <2>5, Pruned
    <3>. QED  BY <2>1, <2>2, <3>1, AcceptedKey DEF Knows
  <2>6. ASSUME NEW e \in window'  PROVE Timed(e)'
    <3>1. CASE e.key = m
      <4>1. e.until = now + Ttl
        BY <2>1, <2>2, <3>1, AcceptedKey
      <4>. QED  BY <2>1, <2>2, <2>3, <3>1, <4>1 DEF Timed
    <3>2. CASE e.key # m
      <4>1. PICK f \in window : f.key = e.key /\ f.until = e.until
        BY <2>1, <2>2, <3>2, AcceptedKey
      <4>2. Timed(f)
        BY DEF WindowInv
      <4>. QED  BY <2>1, <2>3, <2>4, <2>10, <3>2, <4>1, <4>2 DEF Timed
    <3>. QED  BY <3>1, <3>2
  <2>7. ASSUME NEW k \in Key  PROVE Remembered(k)'
    <3>1. CASE k = m
      BY <2>1, <2>2, <2>10, <3>1, AcceptedKey DEF Remembered, Knows
    <3>2. CASE k # m
      <4>1. Remembered(k)
        BY DEF WindowInv
      <4>. QED  BY <2>1, <2>4, <2>5, <2>10, <3>2, <4>1 DEF Remembered
    <3>. QED  BY <3>1, <3>2
  <2>8. ASSUME NEW c \in Card  PROVE Tracked(c)'
    <3>1. c \in Key /\ c # m /\ Tracked(c)
      BY IngressAssumption DEF WindowInv, Key
    <3>. QED  BY <2>1, <2>5, <2>10, <3>1 DEF Tracked
  <2>9. \A k \in Key : Heard(k)' => answer'[k].at \in Nat
    BY <2>2, <2>3, <2>4 DEF WindowInv
  <2>. QED  BY <2>1, <2>2, <2>3, <2>6, <2>7, <2>8, <2>9 DEF WindowInv
<1>. QED  BY <1>1, <1>2

LEMMA CardTaken ==
  ASSUME WindowInv, NEW c \in Card, OnCardAction(c)
  PROVE  WindowInv'
<1>1. CASE IsDuplicate(c)
  BY <1>1, WindowStays DEF OnCardAction
<1>2. CASE ~IsDuplicate(c)
  <2>1. /\ window' = WindowWith(c) /\ lost' = lost \cup Displaced(c)
        /\ handling' = [handling EXCEPT ![c] = @ + 1]
        /\ now' = now /\ answer' = answer
    BY <1>2 DEF OnCardAction
  <2>2. c \in Key /\ now \in Nat
    BY DEF WindowInv, Key
  <2>8. /\ handling' \in [Card -> Nat] /\ Busy(c)'
        /\ \A k : k # c => (Busy(k)' <=> Busy(k))
    BY <2>1 DEF WindowInv, Busy
  <2>9. Busy(c) => c \in lost
    <3>1. SUFFICES ASSUME Busy(c), Knows(c)  PROVE FALSE
      BY DEF WindowInv, Tracked
    <3>2. PICK f \in window : f.key = c /\ f.until > now
      BY <2>2, <3>1, Pruned
    <3>. QED  BY <1>2, <3>2 DEF IsDuplicate
  <2>3. \A k \in Key :
          (Heard(k) <=> Heard(k)') /\ (Recent(k) <=> Recent(k)')
    BY <2>1 DEF Heard, Recent
  <2>4. ASSUME NEW k \in Key, Knows(k), Busy(k) \/ Recent(k)
        PROVE  Knows(k)' \/ k \in lost'
    <3>1. PICK f \in window : f.key = k /\ f.until > now
      BY <2>4, Pruned
    <3>. QED  BY <2>1, <2>2, <3>1, AcceptedKey DEF Knows
  <2>5. ASSUME NEW e \in window'  PROVE Timed(e)'
    <3>1. CASE e.key = c
      <4>1. e.until = now + Ttl
        BY <2>1, <2>2, <3>1, AcceptedKey
      <4>. QED  BY <2>1, <2>2, <2>8, <3>1, <4>1 DEF Timed
    <3>2. CASE e.key # c
      <4>1. PICK f \in window : f.key = e.key /\ f.until = e.until
        BY <2>1, <2>2, <3>2, AcceptedKey
      <4>2. Timed(f)
        BY DEF WindowInv
      <4>. QED  BY <2>1, <2>3, <2>8, <3>2, <4>1, <4>2 DEF Timed
    <3>. QED  BY <3>1, <3>2
  <2>6. ASSUME NEW k \in Key  PROVE Remembered(k)'
    <3>1. CASE k = c
      BY <1>2, <2>1, <2>2, <2>3, <3>1, NewIsNotRecent DEF Remembered
    <3>2. CASE k # c
      <4>1. Remembered(k)
        BY DEF WindowInv
      <4>. QED  BY <2>1, <2>3, <2>4, <2>8, <3>2, <4>1 DEF Remembered
    <3>. QED  BY <3>1, <3>2
  <2>7. ASSUME NEW h \in Card  PROVE Tracked(h)'
    <3>1. CASE h = c
      <4>1. Knows(c)'
        BY <2>1, <2>2, AcceptedKey DEF Knows
      <4>2. handling'[c] > 1 => Busy(c)
        BY <2>1 DEF WindowInv, Busy
      <4>. QED  BY <2>1, <2>9, <3>1, <4>1, <4>2 DEF Tracked
    <3>2. CASE h # c
      <4>1. h \in Key /\ Tracked(h) /\ handling'[h] = handling[h]
        BY <2>1, <3>2 DEF WindowInv, Key
      <4>. QED  BY <2>1, <2>4, <2>8, <3>2, <4>1 DEF Tracked
    <3>. QED  BY <3>1, <3>2
  <2>. QED  BY <2>1, <2>2, <2>3, <2>5, <2>6, <2>7, <2>8 DEF WindowInv
<1>. QED  BY <1>1, <1>2

LEMMA CardDone ==
  ASSUME WindowInv, NEW c \in Card, CardHandled(c)
  PROVE  WindowInv'
<1>1. /\ Busy(c) /\ handling' = [handling EXCEPT ![c] = @ - 1]
      /\ \E e : e.at = now /\ answer' = [answer EXCEPT ![c] = e]
      /\ lost' = IF Knows(c) /\ ~Busy(c)' THEN lost \ {c} ELSE lost
      /\ now' = now /\ window' = window
  BY DEF CardHandled, Takes
<1>11. /\ handling' \in [Card -> Nat]
       /\ \A k : k # c => (Busy(k)' <=> Busy(k))
       /\ Busy(c)' => handling[c] > 1
  BY <1>1 DEF WindowInv, Busy
<1>2. c \in Key /\ now \in Nat /\ DOMAIN answer = Key
  BY DEF WindowInv, Key
<1>3. /\ DOMAIN answer' = Key
      /\ Heard(c)' /\ answer'[c].at = now
      /\ \A k \in Key : k # c => answer'[k] = answer[k]
  BY <1>1, <1>2 DEF Heard, Unanswered
<1>4. \A k \in Key : k # c =>
        (Heard(k) <=> Heard(k)') /\ (Recent(k) <=> Recent(k)')
  BY <1>1, <1>3 DEF Heard, Recent
<1>5. \A k : Knows(k)' <=> Knows(k)
  BY <1>1 DEF Knows, Keys
<1>6. ASSUME NEW e \in window'  PROVE Timed(e)'
  <2>1. e \in window /\ Timed(e)
    BY <1>1 DEF WindowInv
  <2>2. CASE e.key = c
    BY <1>1, <1>2, <1>3, <2>1, <2>2 DEF Timed
  <2>3. CASE e.key # c
    BY <1>1, <1>3, <1>4, <1>11, <2>1, <2>3 DEF Timed
  <2>. QED  BY <2>2, <2>3
<1>7. ASSUME NEW k \in Key  PROVE Remembered(k)'
  <2>1. CASE k = c
    BY <1>1, <1>5, <1>11, <2>1 DEF Remembered, WindowInv, Tracked
  <2>2. CASE k # c
    <3>1. Remembered(k)
      BY DEF WindowInv
    <3>. QED  BY <1>1, <1>4, <1>5, <1>11, <2>2, <3>1 DEF Remembered
  <2>. QED  BY <2>1, <2>2
<1>8. ASSUME NEW h \in Card  PROVE Tracked(h)'
  <2>1. Tracked(h) /\ Tracked(c)
    BY DEF WindowInv
  <2>2. CASE h = c
    <3>1. handling'[c] > 1 => Busy(c)'
      BY <1>11 DEF Busy
    <3>. QED  BY <1>1, <1>11, <2>1, <2>2, <3>1 DEF Tracked
  <2>3. CASE h # c
    <3>1. handling'[h] = handling[h]
      BY <1>1, <2>3 DEF WindowInv
    <3>. QED  BY <1>1, <1>5, <1>11, <2>1, <2>3, <3>1 DEF Tracked
  <2>. QED  BY <2>2, <2>3
<1>9. \A k \in Key : Heard(k)' => answer'[k].at \in Nat
  BY <1>2, <1>3, <1>4 DEF WindowInv
<1>. QED  BY <1>1, <1>2, <1>3, <1>6, <1>7, <1>8, <1>9, <1>11 DEF WindowInv

(* A failed card action leaves the window and no effect with it.           *)
LEMMA CardForgotten ==
  ASSUME WindowInv, NEW c \in Card, CardFails(c)
  PROVE  WindowInv'
<1>1. /\ Busy(c) /\ handling' = [handling EXCEPT ![c] = @ - 1]
      /\ window' = Keep(window, Keys(window) \ {c})
      /\ UNCHANGED <<now, answer, lost>>
  BY DEF CardFails, Forget
<1>2. \A k \in Key : (Heard(k) <=> Heard(k)') /\ (Recent(k) <=> Recent(k)')
  BY <1>1 DEF Heard, Recent
<1>3. ASSUME NEW k, k # c, Knows(k)  PROVE Knows(k)'
  <2>1. k \in Keys(Keep(window, Keys(window) \ {c}))
    BY <1>3, KeepKeys DEF Knows
  <2>. QED  BY <1>1, <2>1 DEF Knows
<1>7. /\ handling' \in [Card -> Nat]
      /\ \A k : k # c => (Busy(k)' <=> Busy(k))
      /\ Busy(c)' => handling[c] > 1
      /\ handling'[c] > 1 => Busy(c)'
  BY <1>1 DEF WindowInv, Busy
<1>4. ASSUME NEW e \in window'  PROVE Timed(e)'
  <2>1. e.key # c
    BY <1>1, KeepEntry
  <2>2. PICK f \in window : e.key = f.key /\ e.until = f.until
    BY <1>1, KeepEntry
  <2>3. Timed(f)
    BY DEF WindowInv
  <2>. QED  BY <1>1, <1>2, <1>7, <2>1, <2>2, <2>3 DEF Timed
<1>5. ASSUME NEW k \in Key  PROVE Remembered(k)'
  <2>1. Remembered(k)
    BY DEF WindowInv
  <2>. QED  BY <1>1, <1>2, <1>3, <1>7, <2>1 DEF Remembered
<1>6. ASSUME NEW h \in Card  PROVE Tracked(h)'
  <2>1. Tracked(h) /\ Tracked(c)
    BY DEF WindowInv
  <2>2. CASE h = c
    BY <1>1, <1>7, <2>1, <2>2 DEF Tracked
  <2>3. CASE h # c
    <3>1. handling'[h] = handling[h]
      BY <1>1, <2>3 DEF WindowInv
    <3>. QED  BY <1>1, <1>3, <1>7, <2>1, <2>3, <3>1 DEF Tracked
  <2>. QED  BY <2>2, <2>3
<1>. QED  BY <1>1, <1>2, <1>4, <1>5, <1>6, <1>7 DEF WindowInv

-----------------------------------------------------------------------------
(* Every step keeps the invariant.                                         *)

LEMMA IngressInvInit == Init => IngressInv
<1>. SUFFICES ASSUME Init  PROVE IngressInv
  OBVIOUS
<1>1. BootInv /\ Served
  BY BootInvInit DEF Init, Served
<1>2. \A k \in Key : answer[k] = Unanswered
  BY DEF Init
<1>3. WindowInv
  BY <1>2 DEF Init, WindowInv, Remembered, Recent, Heard, Tracked, Busy
<1>4. NeverAmbiguous
  BY <1>2 DEF NeverAmbiguous, Unanswered, Key
<1>. QED  BY <1>1, <1>3, <1>4 DEF IngressInv

(* The process and its operators: the runtime stays with its App or goes.  *)
LEMMA HostKeeps ==
  ASSUME IngressInv, HostStep
  PROVE  IngressInv'
<1>1. BootInv'
  BY BootInvKept DEF IngressInv, HostStep
<1>2. CASE runtime = "off" \/ Outlives
  <2>1. UNCHANGED ingressVars
    BY <1>2 DEF HostStep
  <2>2. WindowInv' /\ NeverAmbiguous'
    BY <2>1, WindowStays DEF IngressInv, ingressVars, NeverAmbiguous
  <2>3. Served'
    BY <1>2, <2>1 DEF IngressInv, Served, Outlives, ingressVars
  <2>. QED  BY <1>1, <2>2, <2>3 DEF IngressInv
<1>3. CASE ~(runtime = "off" \/ Outlives)
  <2>1. Gone /\ UNCHANGED <<now, deliveries, answer>>
    BY <1>3 DEF HostStep
  <2>2. WindowInv' /\ NeverAmbiguous'
    BY <2>1, WindowGone DEF IngressInv, NeverAmbiguous
  <2>3. Served'
    BY <2>1 DEF Gone, Served
  <2>. QED  BY <1>1, <2>2, <2>3 DEF IngressInv
<1>. QED  BY <1>2, <1>3

(* A message that is taken has one binding to go to.                       *)
LEMMA MessageRouted ==
  ASSUME IngressInv, NEW m \in Message, OnMessage(m)
  PROVE  NeverAmbiguous'
<1>1. CASE IsDuplicate(m)
  BY <1>1 DEF OnMessage, IngressInv, NeverAmbiguous
<1>2. CASE ~IsDuplicate(m)
  <2>1. runtime # "off" /\ Content[m] \in RoutedMessage
    BY IngressAssumption DEF OnMessage
  <2>2. ~Ambiguous(Bindings, Content[m])
    BY <2>1, LoadedRoutes DEF IngressInv, BootInv, Served
  <2>3. \E e : /\ e.by = {Resolve(Bindings, Content[m]).id}
               /\ answer' = [answer EXCEPT ![m] = e]
    BY <1>2, <2>2 DEF OnMessage, Takes
  <2>4. DOMAIN answer = Key /\ m \in Key
    BY DEF IngressInv, WindowInv, Key
  <2>. QED  BY <2>3, <2>4 DEF IngressInv, NeverAmbiguous, Key
<1>. QED  BY <1>1, <1>2

(* The other steps of the runtime leave the platform and the messages'     *)
(* answers alone.                                                          *)
LEMMA PlatformStays ==
  ASSUME IngressInv, UNCHANGED bootVars, runtime' # "off" => runtime # "off"
  PROVE  BootInv' /\ Served'
<1>1. BootInv'
  BY BootInvKept DEF IngressInv
<1>. QED  BY <1>1 DEF IngressInv, Served, AppHere, bootVars

LEMMA IngressInvKept == IngressInv /\ [Next]_vars => IngressInv'
<1>. SUFFICES ASSUME IngressInv, [Next]_vars
              PROVE  IngressInv'
  OBVIOUS
<1>0. WindowInv /\ NeverAmbiguous
  BY DEF IngressInv
<1>1. CASE HostStep
  BY <1>1, HostKeeps
<1>2. CASE StartRuntime
  <2>1. WindowInv' /\ NeverAmbiguous'
    BY <1>0, <1>2, WindowStays DEF StartRuntime, NeverAmbiguous
  <2>2. BootInv'
    BY <1>2, BootInvKept DEF IngressInv, StartRuntime
  <2>3. Served'
    BY <1>2 DEF StartRuntime, Served, AppHere, bootVars
  <2>. QED  BY <2>1, <2>2, <2>3 DEF IngressInv
<1>3. CASE Connected
  BY <1>0, <1>3, WindowStays, PlatformStays
  DEF Connected, NeverAmbiguous, IngressInv
<1>4. CASE StopRuntime
  <2>1. WindowInv' /\ NeverAmbiguous'
    BY <1>0, <1>4, WindowGone DEF StopRuntime, NeverAmbiguous
  <2>2. BootInv' /\ Served'
    BY <1>4, PlatformStays DEF StopRuntime, Gone
  <2>. QED  BY <2>1, <2>2 DEF IngressInv
<1>5. CASE Tick
  BY <1>0, <1>5, Ticks, PlatformStays DEF Tick, NeverAmbiguous, IngressInv
<1>6. CASE Maintenance
  BY <1>0, <1>6, Maintained, PlatformStays
  DEF Maintenance, NeverAmbiguous, IngressInv
<1>7. ASSUME NEW m \in Message, OnMessage(m)
      PROVE  IngressInv'
  BY <1>0, <1>7, MessageTaken, MessageRouted, PlatformStays
  DEF OnMessage, IngressInv
<1>8. ASSUME NEW c \in Card, OnCardAction(c)
      PROVE  IngressInv'
  BY <1>0, <1>8, CardTaken, PlatformStays
  DEF OnCardAction, IngressInv, NeverAmbiguous
<1>9. ASSUME NEW c \in Card, CardHandled(c)
      PROVE  IngressInv'
  <2>1. NeverAmbiguous'
    <3>1. \A m \in Message : m # c /\ m \in Key
      BY IngressAssumption DEF Key
    <3>2. DOMAIN answer = Key
      BY <1>0 DEF WindowInv
    <3>. QED  BY <1>0, <1>9, <3>1, <3>2
              DEF CardHandled, Takes, NeverAmbiguous
  <2>. QED  BY <1>0, <1>9, <2>1, CardDone, PlatformStays
            DEF CardHandled, IngressInv
<1>10. ASSUME NEW c \in Card, CardFails(c)
       PROVE  IngressInv'
  BY <1>0, <1>10, CardForgotten, PlatformStays
  DEF CardFails, IngressInv, NeverAmbiguous
<1>11. CASE UNCHANGED vars
  <2>1. UNCHANGED bootVars /\ UNCHANGED ingressVars
    BY <1>11 DEF vars
  <2>2. WindowInv' /\ NeverAmbiguous'
    BY <1>0, <2>1, WindowStays DEF ingressVars, NeverAmbiguous
  <2>3. BootInv' /\ Served'
    BY <2>1, PlatformStays DEF ingressVars
  <2>. QED  BY <2>2, <2>3 DEF IngressInv
<1>. QED  BY <1>1, <1>2, <1>3, <1>4, <1>5, <1>6, <1>7, <1>8, <1>9, <1>10,
             <1>11 DEF Next

LEMMA Invariance == Spec => []IngressInv
BY IngressInvInit, IngressInvKept, PTL DEF Spec

-----------------------------------------------------------------------------
(* Whichever way a configuration came in, no Agent of a running platform   *)
(* has a tool that changes something in Feishu or a command that does: for *)
(* all files, documents, credentials and operators (loadAgentDefinition(), *)
(* parseLarkCliOperations()).                                              *)
THEOREM ToolsOnlyRead == Spec => []PlatformIsReadOnly
<1>1. IngressInv => PlatformIsReadOnly
  BY LoadedReads DEF IngressInv, BootInv
<1>. QED  BY <1>1, Invariance, PTL

(* Every public path of a running App is answered by that App alone when   *)
(* the server's URL parser leaves it as it is; otherwise it is answered by *)
(* nobody or by the one path that is written as the parser writes it, and  *)
(* never by the administration or a status page: for all Apps, paths and   *)
(* publications (assertAssignableHttpPath(), validatePublicPaths(),        *)
(* requestUrl(), PublicIngressServer.route()).                             *)
THEOREM PathsReachTheirApp == Spec => []IngressReachesItsApp
<1>1. IngressInv => IngressReachesItsApp
  BY LoadedOwnsPaths DEF IngressInv, BootInv
<1>. QED  BY <1>1, Invariance, PTL

(* No message of a running App is answered with the wish to be clearer,    *)
(* whatever is published and whenever it arrives.                          *)
THEOREM EveryMessageIsRouted == Spec => []NeverAmbiguous
<1>1. IngressInv => NeverAmbiguous
  BY DEF IngressInv
<1>. QED  BY <1>1, Invariance, PTL

(* What the window turns away had its effect or is being handled, for any  *)
(* number of events, entries and units of time (DedupeWindow, the card     *)
(* action handler that forgets a key).                                     *)
THEOREM NothingIsSwallowed == Spec => []NothingSwallowed
<1>1. IngressInv => NothingSwallowed
  BY WindowSwallowsNothing DEF IngressInv
<1>. QED  BY <1>1, Invariance, PTL

(* An event has its effect again only when its time in the window is over  *)
(* or the window lost it, for any number of deliveries, events and         *)
(* restarts of the runtime.                                                *)
THEOREM EffectsHappenOnce == Spec => EffectOnce
<1>. DEFINE Again(k) == answer'[k] # answer[k] /\ answer[k] # Unanswered
            Free(k) == now - answer[k].at >= Ttl \/ k \in lost
            Once == \A k \in Key : Again(k) => Free(k)
<1>1. IngressInv /\ [Next]_vars => [Once]_vars
  <2>. SUFFICES ASSUME IngressInv, Next, NEW k \in Key, Again(k)
                PROVE  Free(k)
    OBVIOUS
  <2>1. WindowInv /\ Heard(k)
    BY DEF IngressInv, Heard
  <2>2. answer[k].at \in Nat /\ now \in Nat /\ DOMAIN answer = Key
    BY <2>1 DEF WindowInv
  <2>3. Free(k) \/ Recent(k)
    BY <2>1, <2>2, IngressAssumption DEF Recent
  <2>4. ASSUME NEW m \in Message, OnMessage(m)  PROVE Free(k)
    <3>1. ~IsDuplicate(m)
      BY <2>4 DEF OnMessage
    <3>2. k = m
      BY <2>2, <2>4, <3>1 DEF OnMessage, Takes
    <3>. QED  BY <2>1, <2>3, <3>1, <3>2, NewIsNotRecent
  <2>5. ASSUME NEW c \in Card, CardHandled(c)  PROVE Free(k)
    <3>1. k = c /\ Busy(c)
      BY <2>2, <2>5 DEF CardHandled, Takes
    <3>2. Remembered(k)
      BY <2>1 DEF WindowInv
    <3>. QED  BY <2>3, <3>1, <3>2 DEF Remembered
  <2>6. CASE answer' = answer
    BY <2>6
  <2>7. ASSUME NEW c \in Card, OnCardAction(c) \/ CardFails(c)
        PROVE  answer' = answer
    BY <2>7 DEF OnCardAction, CardFails
  <2>8. CASE HostStep \/ StartRuntime \/ Connected \/ StopRuntime \/ Tick
             \/ Maintenance
    BY <2>6, <2>8 DEF HostStep, StartRuntime, Connected, StopRuntime, Tick,
                      Maintenance, ingressVars
  <2>. QED  BY <2>4, <2>5, <2>6, <2>7, <2>8 DEF Next
<1>. HIDE DEF Once
<1>2. Spec => [][Once]_vars
  BY <1>1, Invariance, PTL DEF Spec
<1>. QED  BY <1>2 DEF EffectOnce, Once

-----------------------------------------------------------------------------
(* The window stands in a line, as the keys of a Map do.                   *)
Lined(entries) ==
  /\ \A e, f \in entries : e.key = f.key => e = f
  /\ \A e \in entries : e.older \subseteq Keys(entries) \ {e.key}
  /\ \A e, f \in entries :
       e.key # f.key => e.key \in f.older \/ f.key \in e.older
  /\ \A e, f \in entries : e.key \in f.older => e.older \subseteq f.older

LineInv ==
  /\ IsFiniteSet(window) /\ Cardinality(window) <= MaxEntries
  /\ Lined(window)

(* To leave some keys out keeps the line of the others.                    *)
LEMMA KeepLined ==
  ASSUME NEW entries, NEW keys, Lined(entries)
  PROVE  Lined(Keep(entries, keys))
<1>. DEFINE Kept(e) ==
       [key |-> e.key, until |-> e.until, older |-> e.older \cap keys]
<1>1. ASSUME NEW e \in Keep(entries, keys)
      PROVE  \E d \in entries : /\ e = Kept(d) /\ e.key = d.key /\ d.key \in keys
                                /\ e.older = d.older \cap keys
  BY DEF Keep
<1>. HIDE DEF Kept
<1>2. ASSUME NEW e \in Keep(entries, keys), NEW j \in e.older
      PROVE  j \in Keys(Keep(entries, keys)) \ {e.key}
  <2>1. PICK d \in entries : e.key = d.key /\ e.older = d.older \cap keys
    BY <1>1
  <2>2. j \in Keys(entries) /\ j # d.key /\ j \in keys
    BY <2>1 DEF Lined
  <2>. QED  BY <2>1, <2>2, KeepKeys
<1>3. ASSUME NEW e \in Keep(entries, keys), NEW f \in Keep(entries, keys)
      PROVE  /\ e.key = f.key => e = f
             /\ e.key # f.key => e.key \in f.older \/ f.key \in e.older
             /\ e.key \in f.older => e.older \subseteq f.older
  <2>1. PICK d \in entries : /\ e = Kept(d) /\ e.key = d.key /\ d.key \in keys
                             /\ e.older = d.older \cap keys
    BY <1>1
  <2>2. PICK g \in entries : /\ f = Kept(g) /\ f.key = g.key /\ g.key \in keys
                             /\ f.older = g.older \cap keys
    BY <1>1
  <2>3. /\ d.key = g.key => d = g
        /\ d.key # g.key => d.key \in g.older \/ g.key \in d.older
        /\ d.key \in g.older => d.older \subseteq g.older
    BY DEF Lined
  <2>. QED  BY <2>1, <2>2, <2>3
<1>. QED  BY <1>2, <1>3 DEF Lined

(* Nothing is kept twice.                                                  *)
LEMMA KeepCount ==
  ASSUME NEW entries, NEW keys, IsFiniteSet(entries)
  PROVE  LET chosen == {e \in entries : e.key \in keys}
         IN  /\ IsFiniteSet(Keep(entries, keys))
             /\ Cardinality(Keep(entries, keys)) <= Cardinality(chosen)
<1>. DEFINE chosen == {e \in entries : e.key \in keys}
            Kept(e) ==
              [key |-> e.key, until |-> e.until, older |-> e.older \cap keys]
            kept == [e \in chosen |-> Kept(e)]
<1>1. Keep(entries, keys) = {Kept(e) : e \in chosen}
  BY DEF Keep
<1>2. IsFiniteSet(chosen)
  BY FS_Subset
<1>3. kept \in Surjection(chosen, Keep(entries, keys))
  <2>. HIDE DEF Kept, chosen
  <2>. QED  BY <1>1 DEF Surjection
<1>. HIDE DEF kept, chosen
<1>4. IsFiniteSet(Keep(entries, keys))
      /\ Cardinality(Keep(entries, keys)) <= Cardinality(chosen)
  BY <1>2, <1>3, FS_Surjection
<1>. QED  BY <1>4 DEF chosen

LEMMA KeepFits ==
  ASSUME NEW entries, NEW keys, IsFiniteSet(entries), Lined(entries)
  PROVE  /\ IsFiniteSet(Keep(entries, keys)) /\ Lined(Keep(entries, keys))
         /\ Cardinality(Keep(entries, keys)) <= Cardinality(entries)
<1>. DEFINE chosen == {e \in entries : e.key \in keys}
<1>1. IsFiniteSet(Keep(entries, keys))
      /\ Cardinality(Keep(entries, keys)) <= Cardinality(chosen)
  BY KeepCount
<1>2. IsFiniteSet(chosen) /\ Cardinality(chosen) <= Cardinality(entries)
  BY FS_Subset
<1>. HIDE DEF chosen
<1>3. /\ Cardinality(Keep(entries, keys)) \in Nat
      /\ Cardinality(chosen) \in Nat /\ Cardinality(entries) \in Nat
  BY <1>1, <1>2, FS_CardinalityType
<1>. QED  BY <1>1, <1>2, <1>3, KeepLined

(* The head of the line is one entry: of the sets of older keys, which are *)
(* finite, a smallest one has nobody in it.                                *)
LEMMA OneEldest ==
  ASSUME LineInv, window # {}
  PROVE  \E e \in window : e.older = {} /\ Eldest = {e.key}
<1>. DEFINE R == StrictSubsetOrdering(Keys(window))
            S == FiniteSubsetsOf(Keys(window))
            T == {e.older : e \in window}
<1>1. IsFiniteSet(Keys(window))
  <2>. DEFINE name == [e \in window |-> e.key]
  <2>1. name \in Surjection(window, Keys(window))
    BY DEF Surjection, Keys
  <2>. QED  BY <2>1, FS_Surjection DEF LineInv
<1>2. \A e \in window : e.older \subseteq Keys(window)
  BY DEF LineInv, Lined
<1>3. T \subseteq S /\ T # {}
  BY <1>1, <1>2, FS_Subset DEF FiniteSubsetsOf
<1>4. PICK x \in T : \A y \in T : <<y, x>> \notin R
  <2>1. IsWellFoundedOn(R, S)
    BY FS_StrictSubsetOrderingWellFounded
  <2>. HIDE DEF R, S, T
  <2>. QED  BY <1>3, <2>1, WFMin
<1>5. PICK e \in window : x = e.older
  OBVIOUS
<1>6. ASSUME NEW j \in e.older  PROVE FALSE
  <2>1. PICK f \in window : f.key = j
    BY <1>2, <1>6, KeyOf
  <2>2. f.older \subseteq e.older /\ j \notin f.older
    BY <1>6, <2>1 DEF LineInv, Lined
  <2>3. f.older \in T /\ f.older # e.older
    BY <1>6, <2>2
  <2>4. <<f.older, e.older>> \in R
    BY <1>2, <2>2, <2>3 DEF StrictSubsetOrdering
  <2>. QED  BY <1>4, <1>5, <2>3, <2>4
<1>7. ASSUME NEW f \in window, f.older = {}  PROVE f.key = e.key
  BY <1>6, <1>7 DEF LineInv, Lined
<1>8. Eldest = {e.key}
  BY <1>6, <1>7 DEF Eldest, Keys
<1>. QED  BY <1>6, <1>8

(* A new key goes to the end of the line; if that is too long, exactly one *)
(* leaves at its head.                                                     *)
LEMMA AcceptKeepsLine ==
  ASSUME LineInv, NEW k, window' = WindowWith(k)
  PROVE  LineInv'
<1>. DEFINE new == [key |-> k, until |-> now + Ttl, older |-> Keys(window)]
            entries == window \cup {new}
            W == WindowWith(k)
<1>0. /\ IsFiniteSet(window) /\ Cardinality(window) <= MaxEntries /\ Lined(window)
      /\ Cardinality(window) \in Nat /\ MaxEntries \in Nat \ {0}
  BY FS_CardinalityType, IngressAssumption DEF LineInv
<1>1. CASE Knows(k)
  <2>. DEFINE Renewed(e) ==
         [key |-> e.key, older |-> e.older,
          until |-> IF e.key = k THEN now + Ttl ELSE e.until]
              renewed == [e \in window |-> Renewed(e)]
  <2>1. W = {Renewed(e) : e \in window}
    BY <1>1 DEF WindowWith
  <2>2. \A e : Renewed(e).key = e.key /\ Renewed(e).older = e.older
    OBVIOUS
  <2>. HIDE DEF Renewed, W
  <2>3. renewed \in Surjection(window, W)
    BY <2>1 DEF Surjection
  <2>4. IsFiniteSet(W) /\ Cardinality(W) <= Cardinality(window)
    BY <1>0, <2>3, FS_Surjection
  <2>5. Cardinality(W) \in Nat
    BY <2>4, FS_CardinalityType
  <2>6. \A j : j \in Keys(W) <=> j \in Keys(window)
    <3>1. \A j : (\E e \in W : e.key = j) <=> \E e \in window : e.key = j
      BY <2>1, <2>2
    <3>. QED  BY <3>1, KeyOf
  <2>7. Lined(W)
    <3>1. \A e \in W : \E d \in window :
            e = Renewed(d) /\ e.key = d.key /\ e.older = d.older
      BY <2>1, <2>2
    <3>2. ASSUME NEW e \in W, NEW f \in W
          PROVE  /\ e.key = f.key => e = f
                 /\ e.key # f.key => e.key \in f.older \/ f.key \in e.older
                 /\ e.key \in f.older => e.older \subseteq f.older
      <4>1. PICK d \in window : e = Renewed(d) /\ e.key = d.key /\ e.older = d.older
        BY <3>1
      <4>2. PICK g \in window : f = Renewed(g) /\ f.key = g.key /\ f.older = g.older
        BY <3>1
      <4>3. /\ d.key = g.key => d = g
            /\ d.key # g.key => d.key \in g.older \/ g.key \in d.older
            /\ d.key \in g.older => d.older \subseteq g.older
        BY <1>0 DEF Lined
      <4>. QED  BY <4>1, <4>2, <4>3
    <3>3. \A e \in W : e.older \subseteq Keys(W) \ {e.key}
      BY <1>0, <2>6, <3>1 DEF Lined
    <3>. QED  BY <3>2, <3>3 DEF Lined
  <2>. QED  BY <1>0, <2>4, <2>5, <2>7 DEF W, LineInv
<1>2. CASE ~Knows(k)
  <2>1. new.key = k /\ new.older = Keys(window)
    OBVIOUS
  <2>2. \A e \in window : e.key \in Keys(window) /\ e.key # k
    BY <1>2, KeyOf DEF Knows
  <2>. HIDE DEF new
  <2>3. \A j : j \in Keys(entries) <=> j \in Keys(window) \/ j = k
    BY <2>1, KeyOf
  <2>4. Lined(entries)
    <3>1. \A e \in window : e.older \subseteq Keys(window) \ {e.key}
      BY <1>0 DEF Lined
    <3>2. k \notin Keys(window)
      BY <1>2 DEF Knows
    <3>3. \A e \in entries : e.older \subseteq Keys(entries) \ {e.key}
      BY <2>1, <2>3, <3>1, <3>2
    <3>4. ASSUME NEW e \in entries, NEW f \in entries
          PROVE  /\ e.key = f.key => e = f
                 /\ e.key # f.key => e.key \in f.older \/ f.key \in e.older
                 /\ e.key \in f.older => e.older \subseteq f.older
      <4>1. CASE e \in window /\ f \in window
        BY <1>0, <4>1 DEF Lined
      <4>2. CASE e \in window /\ f = new
        BY <2>1, <2>2, <3>1, <4>2
      <4>3. CASE e = new /\ f \in window
        BY <2>1, <2>2, <3>1, <3>2, <4>3
      <4>4. CASE e = new /\ f = new
        BY <2>1, <3>2, <4>4
      <4>. QED  BY <4>1, <4>2, <4>3, <4>4
    <3>. QED  BY <3>3, <3>4 DEF Lined
  <2>5. /\ IsFiniteSet(entries)
        /\ Cardinality(entries) = Cardinality(window) + 1
    <3>1. new \notin window
      BY <2>1, <2>2
    <3>. QED  BY <1>0, <3>1, FS_AddElement
  <2>6. CASE ~Overflows(k)
    <3>1. W = entries
      BY <1>2, <2>6 DEF WindowWith, new
    <3>2. Cardinality(window) < MaxEntries
      BY <1>0, <1>2, <2>6 DEF Overflows
    <3>. HIDE DEF entries, W
    <3>. QED  BY <1>0, <2>4, <2>5, <3>1, <3>2 DEF LineInv, W
  <2>7. CASE Overflows(k)
    <3>. DEFINE keys == Keys(entries) \ Eldest
                rest == Keep(entries, keys)
    <3>1. W = Live(rest)
      BY <1>2, <2>7 DEF WindowWith, new
    <3>2. Cardinality(window) = MaxEntries
      BY <2>7 DEF Overflows
    <3>3. window # {}
      BY <1>0, <3>2, FS_EmptySet
    <3>4. PICK e \in window : Eldest = {e.key}
      BY <3>3, OneEldest
    <3>5. {d \in entries : d.key \in keys} \subseteq entries \ {e}
      BY <3>4
    <3>. HIDE DEF entries, W
    <3>6. e \in entries
      BY DEF entries
    <3>7. /\ IsFiniteSet(entries \ {e})
          /\ Cardinality(entries \ {e}) = MaxEntries
      <4>1. /\ IsFiniteSet(entries \ {e})
            /\ Cardinality(entries \ {e}) = Cardinality(entries) - 1
        BY <2>5, <3>6, FS_RemoveElement
      <4>. QED  BY <1>0, <2>5, <3>2, <4>1
    <3>. DEFINE chosen == {d \in entries : d.key \in keys}
    <3>8. IsFiniteSet(chosen) /\ Cardinality(chosen) <= MaxEntries
      BY <3>5, <3>7, FS_Subset
    <3>9. /\ IsFiniteSet(rest)
          /\ Cardinality(rest) <= Cardinality(chosen)
      BY <2>5, KeepCount
    <3>. HIDE DEF keys, chosen
    <3>10. Lined(rest)
      BY <2>4, KeepLined
    <3>. HIDE DEF rest
    <3>11. /\ IsFiniteSet(W) /\ Lined(W)
           /\ Cardinality(W) <= Cardinality(rest)
      BY <3>1, <3>9, <3>10, KeepFits DEF Live
    <3>12. /\ Cardinality(W) \in Nat /\ Cardinality(rest) \in Nat
           /\ Cardinality(chosen) \in Nat
      BY <3>8, <3>9, <3>11, FS_CardinalityType
    <3>13. Cardinality(W) <= MaxEntries
      BY <1>0, <3>8, <3>9, <3>11, <3>12
    <3>. QED  BY <3>11, <3>13 DEF LineInv, W
  <2>. QED  BY <2>6, <2>7
<1>. QED  BY <1>1, <1>2

LEMMA LineInvInit == Init => LineInv
<1>1. Lined({})
  BY DEF Lined
<1>. QED  BY <1>1, FS_EmptySet, IngressAssumption DEF Init, LineInv

LEMMA LineInvKept == LineInv /\ [Next]_vars => LineInv'
<1>. SUFFICES ASSUME LineInv, [Next]_vars  PROVE LineInv'
  OBVIOUS
<1>1. CASE window' = window
  BY <1>1 DEF LineInv, Lined, Keys
<1>2. CASE window' = {}
  <2>1. Lined(window')
    BY <1>2 DEF Lined
  <2>. QED  BY <1>2, <2>1, FS_EmptySet, IngressAssumption DEF LineInv
<1>3. ASSUME NEW keys, window' = Keep(window, keys)  PROVE LineInv'
  <2>1. /\ IsFiniteSet(window') /\ Lined(window')
        /\ Cardinality(window') <= Cardinality(window)
    BY <1>3, KeepFits DEF LineInv
  <2>2. Cardinality(window') \in Nat /\ Cardinality(window) \in Nat
    BY <2>1, FS_CardinalityType DEF LineInv
  <2>. QED  BY <2>1, <2>2, IngressAssumption DEF LineInv
<1>4. CASE HostStep \/ StopRuntime
  BY <1>1, <1>2, <1>4 DEF HostStep, StopRuntime, Gone, ingressVars
<1>5. CASE StartRuntime \/ Connected \/ Tick \/ UNCHANGED vars
  BY <1>1, <1>5 DEF StartRuntime, Connected, Tick, vars, ingressVars
<1>6. CASE Maintenance
  BY <1>3, <1>6 DEF Maintenance, Live
<1>7. ASSUME NEW m \in Message, OnMessage(m)  PROVE LineInv'
  BY <1>1, <1>7, AcceptKeepsLine DEF OnMessage
<1>8. ASSUME NEW c \in Card, OnCardAction(c)  PROVE LineInv'
  BY <1>1, <1>8, AcceptKeepsLine DEF OnCardAction
<1>9. ASSUME NEW c \in Card, CardHandled(c)  PROVE LineInv'
  BY <1>1, <1>9 DEF CardHandled
<1>10. ASSUME NEW c \in Card, CardFails(c)  PROVE LineInv'
  BY <1>3, <1>10 DEF CardFails, Forget
<1>. QED  BY <1>4, <1>5, <1>6, <1>7, <1>8, <1>9, <1>10 DEF Next

(* The window holds at most MaxEntries keys, each of them once, and makes  *)
(* room by giving up exactly one, the one it has had longest: for any      *)
(* number of events, in whatever order keys come, are renewed, expire or   *)
(* are forgotten (DedupeWindow.accept(), prune(), forget()).               *)
THEOREM WindowIsBounded ==
  Spec => [](/\ Cardinality(window) <= MaxEntries
             /\ \A e, f \in window : e.key = f.key => e = f
             /\ \A k \in Key : Overflows(k) =>
                  \E e \in window : e.older = {} /\ Displaced(k) = {e.key})
<1>. DEFINE Room ==
       \A k \in Key : Overflows(k) =>
         \E e \in window : e.older = {} /\ Displaced(k) = {e.key}
<1>1. LineInv => Room
  <2>. SUFFICES ASSUME LineInv, NEW k \in Key, Overflows(k)
                PROVE  \E e \in window : e.older = {} /\ Displaced(k) = {e.key}
    OBVIOUS
  <2>1. window # {}
    BY FS_EmptySet, IngressAssumption DEF Overflows
  <2>. QED  BY <2>1, OneEldest DEF Displaced
<1>2. LineInv => /\ Cardinality(window) <= MaxEntries
                 /\ \A e, f \in window : e.key = f.key => e = f
  BY DEF LineInv, Lined
<1>3. Spec => []LineInv
  BY LineInvInit, LineInvKept, PTL DEF Spec
<1>. QED  BY <1>1, <1>2, <1>3, PTL
=============================================================================
