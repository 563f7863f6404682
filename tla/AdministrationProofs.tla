------------------------ MODULE AdministrationProofs -------------------------
(***************************************************************************)
(* What administrators and users change while the process runs.  For any   *)
(* Apps, credentials, values and administrators: the Host runs under the   *)
(* id of a revision what that revision says, and no App runs with the      *)
(* settings or the credential of an earlier configuration.  For any users, *)
(* callbacks and API calls: a token record belongs to its user, one call   *)
(* at a time refreshes it, and a session stands on a login.                *)
(***************************************************************************)
EXTENDS ConfigPublication, AdminAccess, TLAPS

(* A platform was loaded from the document of this revision.               *)
Matches(stored, id, platform) ==
  /\ id \in 1 .. Len(stored)
  /\ \A a \in App : platform[a] # None <=> stored[id][a] = "enabled"

LoadsMatch ==
  \A m \in Admin : request[m].pc = "loading" =>
    Matches(revisions, request[m].base, request[m].platform)

QueueMatches ==
  \A i \in 1 .. Len(queue) : Matches(revisions, queue[i].rev, queue[i].platform)

ConfigMatches == config.rev # 0 => Matches(revisions, config.rev, config.platform)

(* Nothing is applied before the Host has started, and nothing is left of  *)
(* a process that ended.                                                   *)
QuietUntilStarted ==
  /\ phase # "started" => ~stopped /\ \A a \in App : apps[a] = None
  /\ phase = "down" => queue = <<>> /\ \A m \in Admin : request[m].pc = "idle"

(* Once the changed Apps are stopped, the rest is what the next            *)
(* configuration has.                                                      *)
StoppedForNext ==
  stopped =>
    /\ queue # <<>>
    /\ \A a \in App : apps[a] # None => apps[a] = Head(queue).platform[a]

IInv ==
  /\ TypeOK
  /\ LoadsMatch
  /\ QueueMatches
  /\ ConfigMatches
  /\ QuietUntilStarted
  /\ StoppedForNext
  /\ NoStaleRuntime

-----------------------------------------------------------------------------
(* Facts about documents, revisions and the chain.                         *)

(* A document that can be resolved gives its enabled Apps, and no others,  *)
(* a credential.                                                           *)
LEMMA LoadedIsEnabled ==
  ASSUME NEW d, NEW values \in [Credential -> Value \cup {None}], Resolvable(d, values)
  PROVE  /\ Loaded(d, values) \in Platforms
         /\ \A a \in App : Loaded(d, values)[a] # None <=> d[a] = "enabled"
  BY ConfigAssumption DEF Loaded, Resolvable, Enabled, Platforms

(* Revisions are only ever added: what matched a revision goes on to.      *)
LEMMA MatchesStays ==
  ASSUME NEW stored \in Seq(Documents), NEW d \in Documents, NEW id, NEW platform,
         Matches(stored, id, platform)
  PROVE  Matches(Append(stored, d), id, platform)
  BY DEF Matches

(* The copy that a rollback adds matches what its original matched.        *)
LEMMA CopyMatches ==
  ASSUME NEW stored \in Seq(Documents), NEW id, NEW platform,
         Matches(stored, id, platform)
  PROVE  /\ stored[id] \in Documents
         /\ Matches(Append(stored, stored[id]), Len(stored) + 1, platform)
  BY DEF Matches

(* What Append and Tail do to the chain of applications.                   *)
LEMMA ChainGrows ==
  ASSUME NEW chain \in Seq(Applications), NEW new \in Applications
  PROVE  /\ Append(chain, new) \in Seq(Applications)
         /\ Append(chain, new) # <<>>
         /\ Len(Append(chain, new)) = Len(chain) + 1
         /\ \A i \in 1 .. Len(chain) : Append(chain, new)[i] = chain[i]
         /\ Append(chain, new)[Len(chain) + 1] = new
         /\ chain # <<>> => Head(Append(chain, new)) = Head(chain)
<1>1. /\ Append(chain, new) \in Seq(Applications)
      /\ Len(Append(chain, new)) = Len(chain) + 1
      /\ \A i \in 1 .. Len(chain) : Append(chain, new)[i] = chain[i]
      /\ Append(chain, new)[Len(chain) + 1] = new
  OBVIOUS
<1>2. Len(chain) \in Nat
  OBVIOUS
<1>3. Append(chain, new) # <<>>
  BY <1>1, <1>2
<1>4. ASSUME chain # <<>>
      PROVE  Head(Append(chain, new)) = Head(chain)
  <2>1. Head(chain) = chain[1] /\ 1 \in 1 .. Len(chain)
    BY <1>4
  <2>2. Head(Append(chain, new)) = Append(chain, new)[1]
    BY <1>1, <1>3
  <2>. QED BY <1>1, <2>1, <2>2
<1>. QED BY <1>1, <1>3, <1>4

LEMMA ChainShrinks ==
  ASSUME NEW chain \in Seq(Applications), chain # <<>>
  PROVE  /\ Tail(chain) \in Seq(Applications)
         /\ Head(chain) \in Applications
         /\ Head(chain) = chain[1]
         /\ 1 \in 1 .. Len(chain)
         /\ Len(Tail(chain)) = Len(chain) - 1
         /\ \A i \in 1 .. Len(Tail(chain)) : Tail(chain)[i] = chain[i + 1]
  OBVIOUS

(* The initial states satisfy the invariant.                               *)
LEMMA InitIInv == Init => IInv
<1>. SUFFICES ASSUME Init PROVE IInv
  OBVIOUS
<1>1. /\ Idle \in Requests
      /\ Idle.pc = "idle"
      /\ Idle.platform \in Platforms
      /\ \A a \in App : Idle.platform[a] = None
      /\ 0 \in Revisions
  BY ConfigAssumption DEF Idle, Revisions, Platforms, Requests
<1>2. /\ revisions \in Seq(Documents) /\ Len(revisions) = 0
      /\ queue \in Seq(Applications)
  BY DEF Init
<1>3. TypeOK
  <2>1. active \in 0 .. Len(revisions) /\ draft \in 0 .. Len(revisions)
        /\ Len(revisions) <= MaxRevisions
    BY <1>2, ConfigAssumption DEF Init
  <2>2. vault \in [Credential -> Value \cup {None}] /\ apps \in Platforms
        /\ config \in [rev : Revisions, platform : Platforms]
    BY <1>1 DEF Init
  <2>. QED BY <1>1, <1>2, <2>1, <2>2 DEF Init, TypeOK
<1>4. LoadsMatch /\ QueueMatches /\ ConfigMatches
  BY <1>1 DEF Init, LoadsMatch, QueueMatches, ConfigMatches
<1>5. QuietUntilStarted /\ StoppedForNext /\ NoStaleRuntime
  BY <1>1 DEF Init, QuietUntilStarted, StoppedForNext, NoStaleRuntime
<1>. QED BY <1>3, <1>4, <1>5 DEF IInv

-----------------------------------------------------------------------------
(* Parts of steps.                                                         *)

(* A request that starts to load remembers what it read.                   *)
LEMMA BeginLoadStep ==
  ASSUME TypeOK, LoadsMatch, NEW m \in Admin, NEW op \in {"publish", "rollback", "reload"},
         NEW id \in 1 .. Len(revisions),
         NEW values \in [Credential -> Value \cup {None}],
         BeginLoad(m, op, id, values), revisions' = revisions
  PROVE  /\ request' \in [Admin -> Requests]
         /\ LoadsMatch'
<1>1. /\ Loaded(revisions[id], values) \in Platforms
      /\ Matches(revisions, id, Loaded(revisions[id], values))
  BY LoadedIsEnabled DEF BeginLoad, Matches
<1>2. id \in Revisions
  BY ConfigAssumption DEF Revisions, TypeOK
<1>3. request' \in [Admin -> Requests]
  BY <1>1, <1>2 DEF BeginLoad, TypeOK, Requests
<1>4. LoadsMatch'
  BY <1>1 DEF BeginLoad, TypeOK, LoadsMatch
<1>. QED BY <1>3, <1>4

(* A request that is answered loads nothing any more.                      *)
LEMMA AnswerStep ==
  ASSUME TypeOK, LoadsMatch, NEW m \in Admin,
         request' = [request EXCEPT ![m] = Idle], revisions' = revisions
  PROVE  /\ request' \in [Admin -> Requests]
         /\ LoadsMatch'
<1>1. /\ Idle \in Requests
      /\ Idle.pc = "idle"
  BY ConfigAssumption DEF Idle, Revisions, Platforms, Requests
<1>. QED BY <1>1 DEF TypeOK, LoadsMatch

(* A committed revision joins the chain with the platform loaded for it.   *)
LEMMA EnqueueStep ==
  ASSUME IInv, NEW m \in Admin, NEW id, Enqueue(m, id),
         \A i, p : Matches(revisions, i, p) => Matches(revisions', i, p),
         revisions' \in Seq(Documents), Len(revisions') <= MaxRevisions,
         Matches(revisions', id, request[m].platform),
         UNCHANGED <<phase, stopped, config, apps, failed>>,
         phase # "down"
  PROVE  /\ request' \in [Admin -> Requests]
         /\ queue' \in Seq(Applications)
         /\ LoadsMatch' /\ QueueMatches' /\ ConfigMatches' /\ QuietUntilStarted'
         /\ StoppedForNext' /\ NoStaleRuntime'
<1>. DEFINE new == [rev |-> id, platform |-> request[m].platform, by |-> m]
<1>1. new \in Applications
  BY ConfigAssumption DEF IInv, TypeOK, Requests, Applications, Revisions, Matches
<1>2. queue \in Seq(Applications) /\ queue' = Append(queue, new)
  BY DEF IInv, TypeOK, Enqueue
<1>. HIDE DEF new
<1>3. /\ queue' \in Seq(Applications)
      /\ Len(queue') = Len(queue) + 1
      /\ \A i \in 1 .. Len(queue) : queue'[i] = queue[i]
      /\ queue'[Len(queue) + 1] = new
      /\ queue' # <<>>
      /\ queue # <<>> => Head(queue') = Head(queue)
  <2>. USE <1>1, <1>2
  <2>1. queue' \in Seq(Applications) /\ queue' # <<>>
    BY ChainGrows
  <2>2. /\ Len(queue') = Len(queue) + 1
        /\ \A i \in 1 .. Len(queue) : queue'[i] = queue[i]
        /\ queue'[Len(queue) + 1] = new
    BY ChainGrows
  <2>3. queue # <<>> => Head(queue') = Head(queue)
    BY ChainGrows
  <2>. QED BY <2>1, <2>2, <2>3
<1>4. request' \in [Admin -> Requests]
  <2>1. [request[m] EXCEPT !.pc = "applying"] \in Requests
    BY DEF IInv, TypeOK, Requests
  <2>2. request' = [request EXCEPT ![m] = [request[m] EXCEPT !.pc = "applying"]]
    BY DEF Enqueue
  <2>. QED BY <2>1, <2>2 DEF IInv, TypeOK
<1>5. LoadsMatch'
  <2>. SUFFICES ASSUME NEW k \in Admin, request'[k].pc = "loading"
                PROVE  Matches(revisions', request'[k].base, request'[k].platform)
    BY DEF LoadsMatch
  <2>1. k # m /\ request'[k] = request[k]
    BY DEF IInv, TypeOK, Enqueue
  <2>. QED BY <2>1 DEF IInv, LoadsMatch
<1>6. QueueMatches'
  <2>. SUFFICES ASSUME NEW i \in 1 .. Len(queue')
                PROVE  Matches(revisions', queue'[i].rev, queue'[i].platform)
    BY DEF QueueMatches
  <2>1. CASE i \in 1 .. Len(queue)
    BY <2>1, <1>3 DEF IInv, QueueMatches
  <2>2. CASE i = Len(queue) + 1
    BY <2>2, <1>3 DEF new
  <2>. QED BY <2>1, <2>2, <1>2, <1>3
<1>7. ConfigMatches' /\ QuietUntilStarted' /\ NoStaleRuntime'
  BY DEF IInv, ConfigMatches, QuietUntilStarted, NoStaleRuntime
<1>8. StoppedForNext'
  BY <1>3 DEF IInv, StoppedForNext
<1>. QED BY <1>3, <1>4, <1>5, <1>6, <1>7, <1>8

(* After an application the rest of the chain waits.                       *)
LEMMA NextApplicationStep ==
  ASSUME IInv, NEW error \in BOOLEAN, NextApplication(error), queue # <<>>,
         UNCHANGED <<store, phase>>, phase # "down"
  PROVE  /\ request' \in [Admin -> Requests]
         /\ queue' \in Seq(Applications)
         /\ stopped' = FALSE
         /\ failed' \subseteq {"apply", "reload"}
         /\ LoadsMatch' /\ QueueMatches' /\ StoppedForNext'
<1>1. queue \in Seq(Applications)
  BY DEF IInv, TypeOK
<1>2. /\ queue' \in Seq(Applications)
      /\ Head(queue) \in Applications
      /\ Len(queue') = Len(queue) - 1
      /\ \A i \in 1 .. Len(queue') : queue'[i] = queue[i + 1]
  BY <1>1, ChainShrinks DEF NextApplication
<1>3. Head(queue).by \in Admin
  BY <1>2 DEF Applications
<1>4. /\ request' \in [Admin -> Requests]
      /\ LoadsMatch'
  BY <1>3, AnswerStep DEF IInv, NextApplication, store
<1>5. QueueMatches'
  BY <1>1, <1>2 DEF IInv, QueueMatches, store
<1>6. stopped' = FALSE /\ failed' \subseteq {"apply", "reload"}
  BY DEF IInv, TypeOK, NextApplication, ReportOf
<1>7. StoppedForNext'
  BY <1>6 DEF StoppedForNext
<1>. QED BY <1>2, <1>4, <1>5, <1>6, <1>7

-----------------------------------------------------------------------------
(* The requests of the administrators keep the invariant.                  *)
LEMMA BeginKeepsIInv == ASSUME IInv, NEW m \in Admin, Begin(m) PROVE IInv'
<1>1. ASSUME NEW d \in Documents, NEW expected, SaveDraft(m, d, expected) PROVE IInv'
  <2>. USE <1>1 DEF SaveDraft, runtime
  <2>1. TypeOK'
    <3>1. /\ revisions' \in Seq(Documents)
          /\ Len(revisions') = Len(revisions) + 1
          /\ Len(revisions) \in Nat
      BY DEF IInv, TypeOK
    <3>2. /\ Len(revisions') <= MaxRevisions
          /\ active' \in 0 .. Len(revisions') /\ draft' \in 0 .. Len(revisions')
      BY <3>1, ConfigAssumption DEF IInv, TypeOK
    <3>. QED BY <3>1, <3>2 DEF IInv, TypeOK
  <2>2. \A i, p : Matches(revisions, i, p) => Matches(revisions', i, p)
    BY MatchesStays DEF IInv, TypeOK
  <2>3. LoadsMatch' /\ QueueMatches' /\ ConfigMatches'
    BY <2>2 DEF IInv, LoadsMatch, QueueMatches, ConfigMatches
  <2>4. QuietUntilStarted' /\ StoppedForNext' /\ NoStaleRuntime'
    BY DEF IInv, QuietUntilStarted, StoppedForNext, NoStaleRuntime, Ready
  <2>. QED BY <2>1, <2>3, <2>4 DEF IInv
<1>2. ASSUME NEW op \in {"publish", "rollback"}, NEW id \in Ids,
             BeginLoad(m, op, id, vault), UNCHANGED <<store, runtime>>, Ready(m)
      PROVE  IInv'
  <2>. USE <1>2 DEF store, runtime
  <2>1. request' \in [Admin -> Requests] /\ LoadsMatch'
    BY BeginLoadStep DEF IInv, TypeOK, Ids
  <2>2. TypeOK'
    BY <2>1 DEF IInv, TypeOK
  <2>3. QueueMatches' /\ ConfigMatches' /\ QuietUntilStarted' /\ StoppedForNext' /\ NoStaleRuntime'
    BY DEF IInv, QueueMatches, ConfigMatches, QuietUntilStarted, StoppedForNext, NoStaleRuntime,
           Ready
  <2>. QED BY <2>1, <2>2, <2>3 DEF IInv
<1>3. ASSUME NEW expected, PublishRead(m, expected) PROVE IInv'
  <2>1. draft \in Ids
    BY <1>3 DEF PublishRead, IInv, TypeOK, Ids
  <2>. QED BY <2>1, <1>2, <1>3 DEF PublishRead
<1>4. ASSUME NEW id \in Ids, RollbackRead(m, id) PROVE IInv'
  BY <1>2, <1>4 DEF RollbackRead
<1>5. ASSUME NEW c \in Credential, NEW v \in Value, SetCredential(m, c, v) PROVE IInv'
  <2>1. /\ vault' \in [Credential -> Value \cup {None}] /\ phase # "down"
        /\ UNCHANGED <<revisions, active, draft, phase, queue, stopped, config, apps>>
    BY <1>5 DEF SetCredential, Ready, IInv, TypeOK
  <2>2. /\ request' \in [Admin -> Requests] /\ LoadsMatch'
        /\ failed' \subseteq {"apply", "reload"}
    <3>1. CASE request' = request /\ failed' \subseteq failed \cup {"reload"}
      BY <2>1, <3>1 DEF IInv, TypeOK, LoadsMatch
    <3>2. CASE InUse(c) /\ BeginLoad(m, "reload", active, vault') /\ failed' = failed
      <4>1. active \in 1 .. Len(revisions)
        BY <3>2 DEF InUse, IInv, TypeOK
      <4>. QED BY <4>1, <3>2, <2>1, BeginLoadStep DEF IInv, TypeOK
    <3>. QED BY <3>1, <3>2, <1>5 DEF SetCredential
  <2>3. TypeOK'
    BY <2>1, <2>2 DEF IInv, TypeOK
  <2>4. QueueMatches' /\ ConfigMatches' /\ QuietUntilStarted' /\ StoppedForNext' /\ NoStaleRuntime'
    BY <2>1 DEF IInv, QueueMatches, ConfigMatches, QuietUntilStarted, StoppedForNext, NoStaleRuntime
  <2>. QED BY <2>2, <2>3, <2>4 DEF IInv
<1>6. ASSUME NEW c \in Credential, DeleteCredential(m, c) PROVE IInv'
  <2>. USE <1>6 DEF DeleteCredential, runtime
  <2>1. TypeOK'
    BY DEF IInv, TypeOK
  <2>2. LoadsMatch' /\ QueueMatches' /\ ConfigMatches' /\ QuietUntilStarted'
        /\ StoppedForNext' /\ NoStaleRuntime'
    BY DEF IInv, LoadsMatch, QueueMatches, ConfigMatches, QuietUntilStarted, StoppedForNext,
           NoStaleRuntime, Ready
  <2>. QED BY <2>1, <2>2 DEF IInv
<1>. QED BY <1>1, <1>3, <1>4, <1>5, <1>6 DEF Begin

(* So do the commits and the failures after a load.                        *)
LEMMA ProceedKeepsIInv ==
  ASSUME IInv, NEW m \in Admin, Proceed(m) PROVE IInv'
<1>. phase # "down"
  BY DEF IInv, QuietUntilStarted, Proceed, PublishCommit, RollbackCommit, ReloadCommit, LoadFails
<1>1. ASSUME NEW id, Enqueue(m, id), revisions' = revisions, vault' = vault,
             Matches(revisions, id, request[m].platform),
             active' \in 0 .. Len(revisions), draft' \in 0 .. Len(revisions),
             UNCHANGED <<phase, stopped, config, apps, failed>>
      PROVE  IInv'
  <2>1. /\ request' \in [Admin -> Requests] /\ queue' \in Seq(Applications)
        /\ LoadsMatch' /\ QueueMatches' /\ ConfigMatches' /\ QuietUntilStarted'
        /\ StoppedForNext' /\ NoStaleRuntime'
    BY <1>1, EnqueueStep DEF IInv, TypeOK
  <2>. QED BY <1>1, <2>1 DEF IInv, TypeOK
<1>2. ASSUME Answer(m), UNCHANGED <<store, phase, queue, stopped, config, apps>>,
             failed' \subseteq {"apply", "reload"}
      PROVE  IInv'
  <2>. USE <1>2 DEF store
  <2>1. request' \in [Admin -> Requests] /\ LoadsMatch'
    BY AnswerStep DEF IInv, Answer
  <2>2. TypeOK'
    BY <2>1 DEF IInv, TypeOK
  <2>3. QueueMatches' /\ ConfigMatches' /\ QuietUntilStarted' /\ StoppedForNext' /\ NoStaleRuntime'
    BY DEF IInv, QueueMatches, ConfigMatches, QuietUntilStarted, StoppedForNext, NoStaleRuntime,
           Ready
  <2>. QED BY <2>1, <2>2, <2>3 DEF IInv
<1>3. ASSUME request[m].pc = "loading"
      PROVE  Matches(revisions, request[m].base, request[m].platform)
  BY <1>3 DEF IInv, LoadsMatch
<1>4. CASE PublishCommit(m)
  <2>1. CASE draft = request[m].base
    BY <2>1, <1>1, <1>3, <1>4 DEF PublishCommit, IInv, TypeOK
  <2>2. CASE draft # request[m].base
    BY <2>2, <1>2, <1>4 DEF PublishCommit, IInv, TypeOK, store
  <2>. QED BY <2>1, <2>2
<1>5. CASE ReloadCommit(m)
  <2>1. CASE active = request[m].base
    BY <2>1, <1>1, <1>3, <1>5 DEF ReloadCommit, IInv, TypeOK, store
  <2>2. CASE active # request[m].base
    BY <2>2, <1>2, <1>5 DEF ReloadCommit, IInv, TypeOK, store
  <2>. QED BY <2>1, <2>2
<1>6. CASE LoadFails(m)
  BY <1>2, <1>6 DEF LoadFails, IInv, TypeOK
<1>7. CASE RollbackCommit(m)
  <2>. DEFINE base == request[m].base
              id   == Len(revisions) + 1
  <2>1. Matches(revisions, base, request[m].platform)
    BY <1>3, <1>7 DEF RollbackCommit
  <2>2. /\ revisions[base] \in Documents
        /\ revisions' = Append(revisions, revisions[base])
        /\ Matches(revisions', id, request[m].platform)
    BY <2>1, <1>7, CopyMatches DEF RollbackCommit, IInv, TypeOK
  <2>3. \A i, p : Matches(revisions, i, p) => Matches(revisions', i, p)
    BY <2>2, MatchesStays DEF IInv, TypeOK
  <2>4. /\ revisions' \in Seq(Documents)
        /\ Len(revisions') = id /\ id <= MaxRevisions
    BY <2>2, <1>7, ConfigAssumption DEF RollbackCommit, IInv, TypeOK
  <2>5. /\ request' \in [Admin -> Requests] /\ queue' \in Seq(Applications)
        /\ LoadsMatch' /\ QueueMatches' /\ ConfigMatches' /\ QuietUntilStarted'
        /\ StoppedForNext' /\ NoStaleRuntime'
    BY <1>7, <2>2, <2>3, <2>4, EnqueueStep DEF RollbackCommit
  <2>6. TypeOK'
    BY <1>7, <2>4, <2>5 DEF RollbackCommit, IInv, TypeOK
  <2>. QED BY <2>5, <2>6 DEF IInv
<1>. QED BY <1>4, <1>5, <1>6, <1>7 DEF Proceed

-----------------------------------------------------------------------------
(* The start and the end of the process, and the lifecycle chain.          *)
LEMMA HostKeepsIInv ==
  ASSUME IInv, Boot \/ Started \/ ProcessEnds \/ \E a \in App : Maintenance(a)
  PROVE  IInv'
<1>. USE DEF store
<1>1. CASE Boot
  <2>1. /\ config' \in [rev : Revisions, platform : Platforms]
        /\ ConfigMatches'
    <3>1. CASE active = 0
      BY <1>1, <3>1, ConfigAssumption DEF Boot, ConfigMatches, Idle, Platforms, Revisions
    <3>2. CASE active # 0
      <4>1. active \in 1 .. Len(revisions) /\ active \in Revisions
        BY <3>2, ConfigAssumption DEF IInv, TypeOK, Revisions
      <4>2. /\ Loaded(revisions[active], vault) \in Platforms
            /\ Matches(revisions, active, Loaded(revisions[active], vault))
        BY <1>1, <3>2, <4>1, LoadedIsEnabled DEF Boot, IInv, TypeOK, Matches
      <4>. QED BY <1>1, <3>2, <4>1, <4>2 DEF Boot, ConfigMatches
    <3>. QED BY <3>1, <3>2
  <2>2. TypeOK'
    BY <1>1, <2>1 DEF Boot, IInv, TypeOK
  <2>3. LoadsMatch' /\ QueueMatches' /\ QuietUntilStarted' /\ StoppedForNext' /\ NoStaleRuntime'
    BY <1>1 DEF Boot, IInv, LoadsMatch, QueueMatches, QuietUntilStarted, StoppedForNext,
                NoStaleRuntime
  <2>. QED BY <2>1, <2>2, <2>3 DEF IInv
<1>2. CASE Started
  <2>1. PICK up \in SUBSET Missing(config.platform, apps) :
               apps' = WithStarted(config.platform, apps, up)
    BY <1>2 DEF Started
  <2>2. apps' \in Platforms /\ NoStaleRuntime'
    BY <1>2, <2>1 DEF Started, WithStarted, Platforms, IInv, TypeOK, NoStaleRuntime
  <2>3. TypeOK'
    BY <1>2, <2>2 DEF Started, IInv, TypeOK
  <2>4. LoadsMatch' /\ QueueMatches' /\ ConfigMatches' /\ QuietUntilStarted' /\ StoppedForNext'
    BY <1>2 DEF Started, IInv, LoadsMatch, QueueMatches, ConfigMatches, QuietUntilStarted,
                StoppedForNext
  <2>. QED BY <2>2, <2>3, <2>4 DEF IInv
<1>3. CASE ProcessEnds
  <2>1. /\ Idle \in Requests /\ Idle.pc = "idle"
        /\ Idle.platform \in Platforms /\ \A a \in App : Idle.platform[a] = None
        /\ 0 \in Revisions
    BY ConfigAssumption DEF Idle, Revisions, Platforms, Requests
  <2>2. queue' \in Seq(Applications) /\ Len(queue') = 0
    BY <1>3 DEF ProcessEnds
  <2>3. TypeOK'
    BY <1>3, <2>1, <2>2 DEF ProcessEnds, IInv, TypeOK
  <2>4. LoadsMatch' /\ QueueMatches' /\ ConfigMatches'
    BY <1>3, <2>1, <2>2 DEF ProcessEnds, LoadsMatch, QueueMatches, ConfigMatches
  <2>5. QuietUntilStarted' /\ StoppedForNext' /\ NoStaleRuntime'
    BY <1>3, <2>1 DEF ProcessEnds, QuietUntilStarted, StoppedForNext, NoStaleRuntime
  <2>. QED BY <2>3, <2>4, <2>5 DEF IInv
<1>4. ASSUME NEW a \in App, Maintenance(a) PROVE IInv'
  <2>1. apps' \in Platforms /\ NoStaleRuntime'
    BY <1>4 DEF Maintenance, Platforms, IInv, TypeOK, NoStaleRuntime
  <2>2. TypeOK'
    BY <1>4, <2>1 DEF Maintenance, IInv, TypeOK
  <2>3. LoadsMatch' /\ QueueMatches' /\ ConfigMatches' /\ QuietUntilStarted' /\ StoppedForNext'
    BY <1>4 DEF Maintenance, IInv, LoadsMatch, QueueMatches, ConfigMatches, QuietUntilStarted,
                StoppedForNext
  <2>. QED BY <2>1, <2>2, <2>3 DEF IInv
<1>. QED BY <1>1, <1>2, <1>3, <1>4

(* The seed is the first revision, stored while no process runs.           *)
LEMMA SeedKeepsIInv ==
  ASSUME IInv, NEW d \in Documents, NEW v \in Value, ImportSeed(d, v) PROVE IInv'
<1>. USE DEF ImportSeed, runtime
<1>1. revisions' = <<d>> /\ revisions' \in Seq(Documents) /\ Len(revisions') = 1
  OBVIOUS
<1>2. active' \in 0 .. Len(revisions') /\ draft' \in 0 .. Len(revisions')
      /\ Len(revisions') <= MaxRevisions
  BY <1>1, ConfigAssumption DEF IInv, TypeOK
<1>3. vault' \in [Credential -> Value \cup {None}]
  BY DEF IInv, TypeOK
<1>4. TypeOK'
  BY <1>1, <1>2, <1>3 DEF IInv, TypeOK
<1>5. \A i, p : ~Matches(revisions, i, p)
  BY DEF Matches
<1>6. LoadsMatch' /\ QueueMatches' /\ ConfigMatches'
  BY <1>5 DEF IInv, LoadsMatch, QueueMatches, ConfigMatches
<1>7. QuietUntilStarted' /\ StoppedForNext' /\ NoStaleRuntime'
  BY DEF IInv, QuietUntilStarted, StoppedForNext, NoStaleRuntime
<1>. QED BY <1>4, <1>6, <1>7 DEF IInv

LEMMA ApplyKeepsIInv == ASSUME IInv, Apply PROVE IInv'
<1>. USE DEF store
<1>1. queue # <<>> /\ phase # "down"
  BY DEF Apply, ApplyRefused, ApplyStops, ApplyAborts, ApplyInstalls, IInv, StoppedForNext,
         QuietUntilStarted
<1>2. /\ Head(queue) \in Applications
      /\ Head(queue) = queue[1] /\ 1 \in 1 .. Len(queue)
  BY <1>1, ChainShrinks DEF IInv, TypeOK
<1>3. Head(queue).rev \in Revisions /\ Head(queue).platform \in Platforms
  BY <1>2 DEF Applications
<1>4. ASSUME NextApplication(TRUE), UNCHANGED <<store, phase, config, apps>> PROVE IInv'
  <2>1. /\ request' \in [Admin -> Requests] /\ queue' \in Seq(Applications)
        /\ stopped' = FALSE /\ failed' \subseteq {"apply", "reload"}
        /\ LoadsMatch' /\ QueueMatches' /\ StoppedForNext'
    BY <1>1, <1>4, NextApplicationStep
  <2>2. TypeOK'
    BY <1>4, <2>1 DEF IInv, TypeOK
  <2>3. ConfigMatches' /\ QuietUntilStarted' /\ NoStaleRuntime'
    BY <1>1, <1>4, <2>1 DEF IInv, ConfigMatches, QuietUntilStarted, NoStaleRuntime
  <2>. QED BY <2>1, <2>2, <2>3 DEF IInv
<1>5. CASE ApplyRefused
  BY <1>4, <1>5 DEF ApplyRefused
<1>6. CASE ApplyAborts
  BY <1>4, <1>6 DEF ApplyAborts
<1>7. CASE ApplyStops
  <2>. USE <1>7 DEF ApplyStops
  <2>1. apps' \in Platforms
    BY DEF Platforms, IInv, TypeOK
  <2>2. TypeOK'
    BY <2>1 DEF IInv, TypeOK
  <2>3. NoStaleRuntime' /\ StoppedForNext'
    BY <1>1 DEF IInv, NoStaleRuntime, StoppedForNext, Changed
  <2>4. LoadsMatch' /\ QueueMatches' /\ ConfigMatches' /\ QuietUntilStarted'
    BY <1>1 DEF IInv, LoadsMatch, QueueMatches, ConfigMatches, QuietUntilStarted
  <2>. QED BY <2>2, <2>3, <2>4 DEF IInv
<1>8. CASE ApplyInstalls
  <2>. DEFINE next == Head(queue)
  <2>1. PICK up \in SUBSET Missing(next.platform, apps), error \in BOOLEAN :
          /\ apps' = WithStarted(next.platform, apps, up)
          /\ NextApplication(error)
    BY <1>8 DEF ApplyInstalls
  <2>2. /\ request' \in [Admin -> Requests] /\ queue' \in Seq(Applications)
        /\ stopped' = FALSE /\ failed' \subseteq {"apply", "reload"}
        /\ LoadsMatch' /\ QueueMatches' /\ StoppedForNext'
    BY <1>1, <1>8, <2>1, NextApplicationStep DEF ApplyInstalls
  <2>3. config' = [rev |-> next.rev, platform |-> next.platform] /\ stopped
        /\ phase = "started" /\ UNCHANGED <<store, phase>>
    BY <1>8 DEF ApplyInstalls, IInv, QuietUntilStarted
  <2>4. ConfigMatches'
    BY <1>2, <2>3 DEF IInv, QueueMatches, ConfigMatches
  <2>5. apps' \in Platforms /\ NoStaleRuntime'
    BY <1>3, <2>1, <2>3 DEF IInv, TypeOK, StoppedForNext, NoStaleRuntime, WithStarted, Platforms
  <2>6. QuietUntilStarted'
    BY <2>3 DEF QuietUntilStarted
  <2>7. TypeOK'
    BY <1>3, <2>2, <2>3, <2>5 DEF IInv, TypeOK
  <2>. QED BY <2>2, <2>4, <2>5, <2>6, <2>7 DEF IInv
<1>. QED BY <1>5, <1>6, <1>7, <1>8 DEF Apply

(* The invariant holds in every reachable state.                           *)
THEOREM IInvHolds == Spec => []IInv
<1>1. IInv /\ [Next]_vars => IInv'
  <2>. SUFFICES ASSUME IInv, [Next]_vars PROVE IInv'
    OBVIOUS
  <2>1. CASE UNCHANGED vars
    BY <2>1 DEF vars, store, runtime, IInv, TypeOK, LoadsMatch, QueueMatches, ConfigMatches,
                QuietUntilStarted, StoppedForNext, NoStaleRuntime
  <2>. QED BY <2>1, BeginKeepsIInv, ProceedKeepsIInv, HostKeepsIInv, SeedKeepsIInv,
              ApplyKeepsIInv DEF Next
<1>. QED BY <1>1, InitIInv, PTL DEF Spec

(* The state of the configuration keeps its type (config-store.ts,         *)
(* credential-vault.ts, host.ts:185-287).                                  *)
THEOREM TypeCorrect == Spec => []TypeOK
<1>1. IInv => TypeOK
  BY DEF IInv
<1>. QED BY <1>1, IInvHolds, PTL

(* Under the id of a revision the Host runs what that revision says, for   *)
(* any number of administrators who save, publish, roll back and rotate    *)
(* credentials at the same time (platform-backend.ts:290-379, 613-637).    *)
THEOREM PublishedIsWhatRuns == Spec => []RunsWhatWasPublished
<1>1. IInv => RunsWhatWasPublished
  BY DEF IInv, TypeOK, ConfigMatches, Matches, RunsWhatWasPublished, Enabled
<1>. QED BY <1>1, IInvHolds, PTL

(* An App that runs has the settings and the credential of the             *)
(* configuration that was applied last (host.ts:185-287, 444-515).         *)
THEOREM RuntimesAreCurrent == Spec => []NoStaleRuntime
<1>1. IInv => NoStaleRuntime
  BY DEF IInv
<1>. QED BY <1>1, IInvHolds, PTL

-----------------------------------------------------------------------------
(* The order of the revisions: a draft is newer than the active revision,  *)
(* and the chain leads from what is installed up to the active revision.   *)
DraftIsNewer == draft # 0 => active < draft

ChainIsSorted ==
  /\ config.rev <= active
  /\ \A i \in 1 .. Len(queue) : config.rev <= queue[i].rev /\ queue[i].rev <= active
  /\ \A i, j \in 1 .. Len(queue) : i <= j => queue[i].rev <= queue[j].rev

ChainEndsActive == queue # <<>> => queue[Len(queue)].rev = active

(* What RunsActive says, from the start of the process on.                 *)
UpToDate ==
  phase # "down" /\ queue = <<>> /\ "apply" \notin failed => config.rev = active

OrderInv == DraftIsNewer /\ ChainIsSorted /\ ChainEndsActive /\ UpToDate

LEMMA NumbersAreNaturals ==
  ASSUME TypeOK
  PROVE  /\ active \in Nat /\ draft \in Nat /\ config.rev \in Nat
         /\ Len(revisions) \in Nat /\ Len(queue) \in Nat
         /\ active <= Len(revisions) /\ draft <= Len(revisions)
         /\ \A i \in 1 .. Len(queue) : queue[i].rev \in Nat
<1>1. Revisions \subseteq Nat
  BY ConfigAssumption DEF Revisions
<1>2. \A i \in 1 .. Len(queue) : queue[i] \in Applications
  BY DEF TypeOK
<1>3. \A i \in 1 .. Len(queue) : queue[i].rev \in Nat
  BY <1>1, <1>2 DEF Applications
<1>4. Len(revisions) \in Nat /\ Len(queue) \in Nat
  BY DEF TypeOK
<1>5. active \in 0 .. Len(revisions) /\ draft \in 0 .. Len(revisions)
  BY DEF TypeOK
<1>6. config.rev \in Revisions
  BY DEF TypeOK
<1>7. config.rev \in Nat
  BY <1>1, <1>6
<1>8. /\ active \in Nat /\ draft \in Nat
      /\ active <= Len(revisions) /\ draft <= Len(revisions)
  BY <1>4, <1>5
<1>. QED BY <1>3, <1>4, <1>7, <1>8

(* A commit puts a revision on the chain that is the newest and active.    *)
LEMMA CommitKeepsOrder ==
  ASSUME IInv, OrderInv, NEW m \in Admin, NEW id \in Nat, Enqueue(m, id),
         active' = id, active <= id, DraftIsNewer',
         UNCHANGED <<phase, config, failed>>
  PROVE  OrderInv'
<1>. DEFINE new == [rev |-> id, platform |-> request[m].platform, by |-> m]
<1>1. TypeOK
  BY DEF IInv
<1>2. /\ active \in Nat /\ config.rev \in Nat /\ Len(queue) \in Nat
      /\ \A i \in 1 .. Len(queue) : queue[i].rev \in Nat
  BY <1>1, NumbersAreNaturals
<1>3. /\ queue' = Append(queue, new)
      /\ queue \in Seq(Applications)
  BY <1>1 DEF Enqueue, TypeOK
<1>4. /\ Len(queue') = Len(queue) + 1
      /\ \A i \in 1 .. Len(queue) : queue'[i] = queue[i]
      /\ queue'[Len(queue) + 1].rev = id
  BY <1>3
<1>5. ChainIsSorted'
  <2>1. config'.rev <= active'
    BY <1>2 DEF OrderInv, ChainIsSorted
  <2>2. ASSUME NEW i \in 1 .. Len(queue')
        PROVE  config'.rev <= queue'[i].rev /\ queue'[i].rev <= active'
    BY <1>2, <1>4, <2>1 DEF OrderInv, ChainIsSorted
  <2>3. ASSUME NEW i \in 1 .. Len(queue'), NEW j \in 1 .. Len(queue'), i <= j
        PROVE  queue'[i].rev <= queue'[j].rev
    <3>1. CASE j = Len(queue) + 1
      BY <1>4, <2>2, <3>1
    <3>2. CASE j \in 1 .. Len(queue)
      <4>1. i \in 1 .. Len(queue)
        BY <1>2, <1>4, <2>3, <3>2
      <4>. QED BY <1>4, <2>3, <3>2, <4>1 DEF OrderInv, ChainIsSorted
    <3>. QED BY <3>1, <3>2, <1>2, <1>4
  <2>. QED BY <2>1, <2>2, <2>3 DEF ChainIsSorted
<1>6. ChainEndsActive'
  BY <1>2, <1>4 DEF ChainEndsActive
<1>7. UpToDate'
  <2>1. queue' # <<>>
    BY <1>2, <1>4
  <2>. QED BY <2>1 DEF UpToDate
<1>. QED BY <1>5, <1>6, <1>7 DEF OrderInv

(* The end of an application that installed the head of the chain, or that *)
(* failed and installed nothing.                                           *)
LEMMA ApplicationKeepsOrder ==
  ASSUME IInv, OrderInv, queue # <<>>, NEW error \in BOOLEAN, NextApplication(error),
         UNCHANGED <<store, phase>>,
         \/ error /\ config' = config
         \/ config'.rev = Head(queue).rev
  PROVE  OrderInv' /\ config'.rev >= config.rev
<1>1. TypeOK
  BY DEF IInv
<1>2. /\ active \in Nat /\ config.rev \in Nat /\ Len(queue) \in Nat
      /\ \A i \in 1 .. Len(queue) : queue[i].rev \in Nat
  BY <1>1, NumbersAreNaturals
<1>3. queue \in Seq(Applications)
  BY <1>1 DEF TypeOK
<1>4. /\ Head(queue) = queue[1] /\ 1 \in 1 .. Len(queue)
      /\ Len(queue') = Len(queue) - 1
      /\ \A i \in 1 .. Len(queue') : queue'[i] = queue[i + 1]
      /\ queue' \in Seq(Applications)
  BY <1>3, ChainShrinks DEF NextApplication
<1>5. config'.rev \in {config.rev, queue[1].rev} /\ active' = active /\ draft' = draft
  BY <1>4 DEF store
<1>6. ChainIsSorted' /\ config'.rev >= config.rev
  <2>1. config'.rev <= queue[1].rev /\ config'.rev >= config.rev
    BY <1>2, <1>4, <1>5 DEF OrderInv, ChainIsSorted
  <2>2. config'.rev <= active'
    BY <1>2, <1>4, <1>5 DEF OrderInv, ChainIsSorted
  <2>3. \A i \in 1 .. Len(queue') : i + 1 \in 1 .. Len(queue) /\ 1 <= i + 1
    BY <1>2, <1>4
  <2>4. ASSUME NEW i \in 1 .. Len(queue')
        PROVE  config'.rev <= queue'[i].rev /\ queue'[i].rev <= active'
    <3>1. queue[1].rev <= queue[i + 1].rev /\ queue[i + 1].rev <= active
      BY <1>4, <2>3 DEF OrderInv, ChainIsSorted
    <3>2. queue[i + 1].rev \in Nat /\ queue[1].rev \in Nat
      BY <1>2, <1>4, <2>3
    <3>. QED BY <1>2, <1>4, <1>5, <2>1, <3>1, <3>2
  <2>5. ASSUME NEW i \in 1 .. Len(queue'), NEW j \in 1 .. Len(queue'), i <= j
        PROVE  queue'[i].rev <= queue'[j].rev
    BY <1>4, <2>3, <2>5 DEF OrderInv, ChainIsSorted
  <2>. QED BY <2>1, <2>2, <2>4, <2>5 DEF ChainIsSorted
<1>7. ChainEndsActive'
  <2>. SUFFICES ASSUME queue' # <<>> PROVE queue'[Len(queue')].rev = active'
    BY DEF ChainEndsActive
  <2>1. Len(queue') \in 1 .. Len(queue')
    BY <1>4
  <2>. QED BY <1>2, <1>4, <1>5, <2>1 DEF OrderInv, ChainEndsActive
<1>8. UpToDate'
  <2>. SUFFICES ASSUME queue' = <<>>, "apply" \notin failed' PROVE config'.rev = active'
    BY DEF UpToDate
  <2>1. Len(queue) = 1
    BY <1>2, <1>4
  <2>2. ~error
    BY DEF NextApplication, ReportOf
  <2>3. config'.rev = queue[1].rev
    BY <1>4, <2>2
  <2>. QED BY <1>5, <2>1, <2>3 DEF OrderInv, ChainEndsActive
<1>9. DraftIsNewer'
  BY <1>5 DEF OrderInv, DraftIsNewer
<1>. QED BY <1>6, <1>7, <1>8, <1>9 DEF OrderInv

(* The steps that neither commit nor apply.                                *)
LEMMA OtherKeepsOrder ==
  ASSUME OrderInv, UNCHANGED <<active, queue, config>>, DraftIsNewer',
         phase' # "down" => phase # "down", failed \subseteq failed'
  PROVE  OrderInv'
  BY DEF OrderInv, ChainIsSorted, ChainEndsActive, UpToDate

(* Every step keeps the order, and none goes back.                         *)
LEMMA NextKeepsOrder ==
  ASSUME IInv, OrderInv, [Next]_vars
  PROVE  OrderInv' /\ (phase # "down" => config'.rev >= config.rev \/ phase' = "down")
<1>. USE DEF store, runtime
<1>0. /\ TypeOK
      /\ active \in Nat /\ draft \in Nat /\ config.rev \in Nat /\ Len(revisions) \in Nat
      /\ active <= Len(revisions) /\ draft <= Len(revisions)
      /\ config.rev <= config.rev
  BY NumbersAreNaturals DEF IInv
<1>1. CASE UNCHANGED vars
  BY <1>0, <1>1, OtherKeepsOrder DEF vars, OrderInv, DraftIsNewer
<1>2. ASSUME NEW m \in Admin, Begin(m)
      PROVE  OrderInv' /\ config' = config
  <2>1. CASE \E d \in Documents, expected \in {Unchecked} \cup Revisions :
               SaveDraft(m, d, expected)
    <3>1. DraftIsNewer'
      BY <1>0, <2>1 DEF SaveDraft, DraftIsNewer
    <3>. QED BY <2>1, <3>1, OtherKeepsOrder DEF SaveDraft
  <2>2. CASE \E expected \in {Unchecked} \cup Revisions : PublishRead(m, expected)
    BY <2>2, OtherKeepsOrder DEF PublishRead, OrderInv, DraftIsNewer
  <2>3. CASE \E id \in Ids : RollbackRead(m, id)
    BY <2>3, OtherKeepsOrder DEF RollbackRead, OrderInv, DraftIsNewer
  <2>4. CASE \E c \in Credential, v \in Value : SetCredential(m, c, v)
    <3>1. failed \subseteq failed'
      BY <2>4 DEF SetCredential
    <3>. QED BY <2>4, <3>1, OtherKeepsOrder DEF SetCredential, OrderInv, DraftIsNewer
  <2>5. CASE \E c \in Credential : DeleteCredential(m, c)
    BY <2>5, OtherKeepsOrder DEF DeleteCredential, OrderInv, DraftIsNewer
  <2>. QED BY <1>2, <2>1, <2>2, <2>3, <2>4, <2>5 DEF Begin
<1>3. ASSUME NEW m \in Admin, Proceed(m)
      PROVE  OrderInv' /\ config' = config
  <2>1. CASE PublishCommit(m) /\ draft = request[m].base
    <3>1. request[m].base # 0
      BY <2>1 DEF PublishCommit, IInv, LoadsMatch, Matches
    <3>2. active < draft
      BY <2>1, <3>1 DEF OrderInv, DraftIsNewer
    <3>3. Enqueue(m, draft) /\ active' = draft /\ DraftIsNewer'
          /\ UNCHANGED <<phase, config, failed>>
      BY <2>1 DEF PublishCommit, DraftIsNewer
    <3>. QED BY <1>0, <3>2, <3>3, CommitKeepsOrder
  <2>2. CASE PublishCommit(m) /\ draft # request[m].base
    BY <2>2, OtherKeepsOrder DEF PublishCommit, OrderInv, DraftIsNewer
  <2>3. CASE RollbackCommit(m)
    <3>1. /\ Enqueue(m, Len(revisions) + 1) /\ active' = Len(revisions) + 1
          /\ DraftIsNewer' /\ UNCHANGED <<phase, config, failed>>
      BY <2>3 DEF RollbackCommit, DraftIsNewer
    <3>. QED BY <1>0, <3>1, CommitKeepsOrder
  <2>4. CASE ReloadCommit(m) /\ active = request[m].base
    <3>1. Enqueue(m, active) /\ UNCHANGED <<active, draft, phase, config, failed>>
      BY <2>4 DEF ReloadCommit
    <3>2. DraftIsNewer'
      BY <3>1 DEF OrderInv, DraftIsNewer
    <3>. QED BY <1>0, <3>1, <3>2, CommitKeepsOrder
  <2>5. CASE ReloadCommit(m) /\ active # request[m].base
    BY <2>5, OtherKeepsOrder DEF ReloadCommit, OrderInv, DraftIsNewer
  <2>6. CASE LoadFails(m)
    <3>1. failed \subseteq failed'
      BY <2>6 DEF LoadFails
    <3>. QED BY <2>6, <3>1, OtherKeepsOrder DEF LoadFails, OrderInv, DraftIsNewer
  <2>. QED BY <1>3, <2>1, <2>2, <2>3, <2>4, <2>5, <2>6
           DEF Proceed, PublishCommit, RollbackCommit, ReloadCommit, LoadFails
<1>4. ASSUME NEW d \in Documents, NEW v \in Value, ImportSeed(d, v)
      PROVE  OrderInv' /\ phase = "down"
  <2>1. /\ phase = "down" /\ phase' = "down" /\ queue' = <<>> /\ Len(queue') = 0
        /\ active' = 1 /\ active = 0 /\ draft' = 0 /\ config' = config
    <3>1. Len(revisions) = 0
      BY <1>4 DEF ImportSeed
    <3>. QED BY <1>0, <1>4, <3>1 DEF ImportSeed, IInv, QuietUntilStarted
  <2>. QED BY <1>0, <2>1 DEF OrderInv, DraftIsNewer, ChainIsSorted, ChainEndsActive, UpToDate
<1>5. CASE Boot \/ Started \/ \E a \in App : Maintenance(a)
  <2>1. CASE Boot
    <3>1. /\ phase = "down" /\ queue' = <<>> /\ Len(queue') = 0
          /\ UNCHANGED <<active, draft>> /\ config'.rev = active
      BY <2>1 DEF Boot, IInv, QuietUntilStarted
    <3>. QED BY <1>0, <3>1 DEF OrderInv, DraftIsNewer, ChainIsSorted, ChainEndsActive, UpToDate
  <2>2. CASE Started \/ \E a \in App : Maintenance(a)
    BY <1>0, <2>2, OtherKeepsOrder DEF Started, Maintenance, OrderInv, DraftIsNewer
  <2>. QED BY <1>5, <2>1, <2>2
<1>6. CASE ProcessEnds
  <2>1. /\ phase' = "down" /\ queue' = <<>> /\ Len(queue') = 0
        /\ UNCHANGED <<active, draft>> /\ config'.rev = 0
    BY <1>6 DEF ProcessEnds
  <2>. QED BY <1>0, <2>1 DEF OrderInv, DraftIsNewer, ChainIsSorted, ChainEndsActive, UpToDate
<1>7. CASE Apply
  <2>1. CASE ApplyStops
    BY <1>0, <2>1, OtherKeepsOrder DEF ApplyStops, OrderInv, DraftIsNewer
  <2>2. CASE ApplyRefused \/ ApplyAborts
    <3>1. queue # <<>> /\ NextApplication(TRUE) /\ UNCHANGED <<store, phase>>
          /\ config' = config
      BY <2>2 DEF ApplyRefused, ApplyAborts, IInv, StoppedForNext
    <3>. QED BY <3>1, ApplicationKeepsOrder
  <2>3. CASE ApplyInstalls
    <3>1. queue # <<>> /\ UNCHANGED <<store, phase>> /\ config'.rev = Head(queue).rev
      BY <2>3 DEF ApplyInstalls, IInv, StoppedForNext
    <3>2. PICK error \in BOOLEAN : NextApplication(error)
      BY <2>3 DEF ApplyInstalls
    <3>. QED BY <3>1, <3>2, ApplicationKeepsOrder
  <2>. QED BY <1>7, <2>1, <2>2, <2>3 DEF Apply
<1>. QED BY <1>0, <1>1, <1>2, <1>3, <1>4, <1>5, <1>6, <1>7 DEF Next

THEOREM OrderHolds == Spec => []OrderInv
<1>1. Init => OrderInv
  <2>. SUFFICES ASSUME Init PROVE OrderInv
    OBVIOUS
  <2>1. queue = <<>> /\ Len(queue) = 0 /\ config.rev = 0 /\ active = 0 /\ draft = 0
        /\ phase = "down"
    BY DEF Init
  <2>. QED BY <2>1 DEF OrderInv, DraftIsNewer, ChainIsSorted, ChainEndsActive, UpToDate
<1>. QED BY <1>1, IInvHolds, NextKeepsOrder, PTL DEF Spec

(* When nothing waits to be applied and no failure of the last application *)
(* was reported, the Host runs the active revision of the database         *)
(* (platform-backend.ts:290-379, 613-637; host.ts:185-287).                *)
THEOREM ActiveIsWhatRuns == Spec => []RunsActive
<1>1. OrderInv => RunsActive
  BY DEF OrderInv, UpToDate, RunsActive
<1>. QED BY <1>1, OrderHolds, PTL

(* No process goes back to an older revision (host.ts:176-287, 435-442).   *)
THEOREM NeverGoesBack == Spec => AppliedInOrder
<1>1. IInv /\ OrderInv /\ [Next]_vars =>
        [phase # "down" => config'.rev >= config.rev \/ phase' = "down"]_vars
  BY NextKeepsOrder
<1>. QED BY <1>1, IInvHolds, OrderHolds, PTL DEF Spec, AppliedInOrder

-----------------------------------------------------------------------------
(* The authorization.                                                      *)

(* A callback that has taken a state, or a grant that came from one.       *)
Uses(b) == callback[b] \in {"claimed", "exchanging", "saving"} \/ b \in granted

(* Whoever uses a state has renamed or removed its file, and nobody else   *)
(* uses it.                                                                *)
StatesTakenOnce ==
  /\ \A b \in Callback : Uses(b) => file[StateOf[b]] \in {"claimed", "gone"}
  /\ \A b, d \in Callback :
       Uses(b) /\ Uses(d) /\ StateOf[b] = StateOf[d] => b = d

(* What the checks before the request and after its answer have shown.     *)
DoorsRight ==
  \A b \in Callback :
    /\ callback[b] \in {"exchanging", "saving"} \/ b \in granted => RightDoor(b)
    /\ callback[b] = "saving" => Accepted(b)

(* A record, in its file or in the hands of an API call, is of its user.   *)
IsOf(record, u) ==
  /\ record.by \in granted /\ Owner(record.by) = u
  /\ record.by \in Named => AccountOf[record.by] = u

RecordsOwn ==
  /\ \A u \in User : token[u] # NoRecord => IsOf(token[u], u)
  /\ \A k \in Caller :
       caller[k].at \in {"loaded", "waiting", "refreshing", "saving"} =>
         caller[k].copy \in Records /\ IsOf(caller[k].copy, UserOf[k])

(* A refresh that is under way is the one the others find.                 *)
RefreshesKnown ==
  \A k \in Caller :
    /\ caller[k].at \in {"refreshing", "saving"} => refreshes[UserOf[k]] = k
    /\ caller[k].at = "saving" => caller[k].copy.gen < MaxGen

OAuthInv ==
  OAuthTypeOK /\ StatesTakenOnce /\ DoorsRight /\ RecordsOwn /\ RefreshesKnown


LEMMA OAuthInvInit == OAuthInit => OAuthInv
<1>. SUFFICES ASSUME OAuthInit  PROVE OAuthInv
  OBVIOUS
<1>1. OAuthTypeOK
  BY AuthorizationAssumption
  DEF OAuthInit, OAuthTypeOK, Resting, NoRecord, CallerStages
<1>2. StatesTakenOnce /\ DoorsRight
  BY DEF OAuthInit, StatesTakenOnce, DoorsRight, Uses
<1>3. RecordsOwn /\ RefreshesKnown
  BY DEF OAuthInit, RecordsOwn, RefreshesKnown, Resting
<1>. QED  BY <1>1, <1>2, <1>3 DEF OAuthInv

(* Nothing that the states and doors speak of changes.                     *)
LEMMA StatesStay ==
  ASSUME OAuthInv, UNCHANGED <<file, callback, granted>>
  PROVE  StatesTakenOnce' /\ DoorsRight'
BY DEF OAuthInv, StatesTakenOnce, DoorsRight, Uses, RightDoor, Accepted

(* Nothing that the records and refreshes speak of changes.                *)
LEMMA RecordsStay ==
  ASSUME OAuthInv, UNCHANGED <<granted, token, caller, refreshes>>
  PROVE  RecordsOwn' /\ RefreshesKnown'
BY DEF OAuthInv, RecordsOwn, RefreshesKnown, IsOf

(* Files move on, never back to one that may be claimed.                   *)
LEMMA FilesMove ==
  ASSUME OAuthInv, UNCHANGED <<callback, granted>>,
         \A s \in State : file[s] \in {"claimed", "gone"}
                            => file'[s] \in {"claimed", "gone"}
  PROVE  StatesTakenOnce' /\ DoorsRight'
<1>1. \A b \in Callback : StateOf[b] \in State
  BY AuthorizationAssumption
<1>. QED  BY <1>1 DEF OAuthInv, StatesTakenOnce, DoorsRight, Uses, RightDoor,
                      Accepted

LEMMA Issued ==
  ASSUME OAuthInv, NEW s \in State, Issue(s)
  PROVE  OAuthInv'
<1>1. OAuthTypeOK'
  BY DEF Issue, OAuthInv, OAuthTypeOK
<1>2. StatesTakenOnce' /\ DoorsRight'
  BY FilesMove DEF Issue, OAuthInv, OAuthTypeOK
<1>. QED  BY <1>1, <1>2, RecordsStay DEF Issue, OAuthInv

LEMMA Lapsed ==
  ASSUME OAuthInv, NEW s \in State, Lapse(s)
  PROVE  OAuthInv'
<1>1. OAuthTypeOK'
  BY DEF Lapse, OAuthInv, OAuthTypeOK
<1>. QED  BY <1>1, StatesStay, RecordsStay DEF Lapse, OAuthInv

LEMMA Purged ==
  ASSUME OAuthInv, Purge
  PROVE  OAuthInv'
<1>1. OAuthTypeOK'
  BY DEF Purge, OAuthInv, OAuthTypeOK
<1>2. StatesTakenOnce' /\ DoorsRight'
  BY FilesMove DEF Purge
<1>. QED  BY <1>1, <1>2, RecordsStay DEF Purge, OAuthInv

(* The rename: the file was there, so nobody has used the state.           *)
LEMMA Claimed ==
  ASSUME OAuthInv, NEW b \in Callback, Claim(b)
  PROVE  OAuthInv'
<1>. DEFINE s == StateOf[b]
<1>0. s \in State /\ \A d \in Callback : StateOf[d] \in State
  BY AuthorizationAssumption
<1>1. OAuthTypeOK'
  BY <1>0 DEF Claim, OAuthInv, OAuthTypeOK
<1>2. CASE file[s] = "issued" /\ s \notin lapsed
  <2>1. /\ callback' = [callback EXCEPT ![b] = "claimed"]
        /\ file' = [file EXCEPT ![s] = "claimed"] /\ granted' = granted
    BY <1>2 DEF Claim
  <2>2. \A d \in Callback : Uses(d) => StateOf[d] # s
    BY <1>2 DEF OAuthInv, StatesTakenOnce
  <2>3. \A d \in Callback : Uses(d)' => d = b \/ Uses(d)
    BY <2>1 DEF Uses, OAuthInv, OAuthTypeOK
  <2>4. \A d \in Callback : d # b => callback'[d] = callback[d]
    BY <2>1 DEF OAuthInv, OAuthTypeOK
  <2>5. /\ callback'[b] = "claimed" /\ file'[s] = "claimed"
        /\ \A r \in State : r # s => file'[r] = file[r]
    BY <1>0, <2>1 DEF OAuthInv, OAuthTypeOK
  <2>6. StatesTakenOnce'
    BY <1>0, <2>2, <2>3, <2>5 DEF OAuthInv, StatesTakenOnce
  <2>7. DoorsRight'
    BY <2>1, <2>4, <2>5 DEF OAuthInv, DoorsRight, RightDoor, Accepted
  <2>. QED  BY <1>1, <2>6, <2>7, RecordsStay DEF Claim, OAuthInv
<1>3. CASE ~(file[s] = "issued" /\ s \notin lapsed)
  <2>1. /\ callback' = [callback EXCEPT ![b] = "done"] /\ granted' = granted
        /\ \A r \in State : file[r] \in {"claimed", "gone"}
                              => file'[r] \in {"claimed", "gone"}
    BY <1>0, <1>3 DEF Claim, OAuthInv, OAuthTypeOK
  <2>2. \A d \in Callback :
          /\ Uses(d)' => Uses(d)
          /\ callback'[d] \in {"exchanging", "saving"} => callback'[d] = callback[d]
    BY <2>1 DEF Uses, OAuthInv, OAuthTypeOK
  <2>3. StatesTakenOnce'
    BY <1>0, <2>1, <2>2 DEF OAuthInv, StatesTakenOnce
  <2>4. DoorsRight'
    BY <2>1, <2>2 DEF OAuthInv, DoorsRight, RightDoor, Accepted
  <2>. QED  BY <1>1, <2>3, <2>4, RecordsStay DEF Claim, OAuthInv
<1>. QED  BY <1>2, <1>3

LEMMA Consumed ==
  ASSUME OAuthInv, NEW b \in Callback, Consume(b)
  PROVE  OAuthInv'
<1>0. \A d \in Callback : StateOf[d] \in State
  BY AuthorizationAssumption
<1>1. OAuthTypeOK'
  BY <1>0 DEF Consume, OAuthInv, OAuthTypeOK
<1>2. /\ granted' = granted
      /\ \A r \in State : file[r] \in {"claimed", "gone"}
                            => file'[r] \in {"claimed", "gone"}
  BY <1>0 DEF Consume, OAuthInv, OAuthTypeOK
<1>3. /\ callback'[b] \in {"exchanging", "done"}
      /\ callback'[b] = "exchanging" => RightDoor(b)
      /\ \A d \in Callback : d # b => callback'[d] = callback[d]
  BY DEF Consume, OAuthInv, OAuthTypeOK
<1>4. \A d \in Callback : Uses(d)' => Uses(d)
  BY <1>2, <1>3 DEF Consume, Uses
<1>5. StatesTakenOnce'
  BY <1>0, <1>2, <1>4 DEF OAuthInv, StatesTakenOnce
<1>6. DoorsRight'
  BY <1>2, <1>3 DEF OAuthInv, DoorsRight, RightDoor, Accepted
<1>. QED  BY <1>1, <1>5, <1>6, RecordsStay DEF Consume, OAuthInv

LEMMA Exchanged ==
  ASSUME OAuthInv, NEW b \in Callback, Exchange(b)
  PROVE  OAuthInv'
<1>1. OAuthTypeOK'
  BY DEF Exchange, OAuthInv, OAuthTypeOK
<1>2. /\ callback[b] = "exchanging" /\ callback'[b] \in {"saving", "done"}
      /\ callback'[b] = "saving" => Accepted(b)
      /\ \A d \in Callback : d # b => callback'[d] = callback[d]
      /\ UNCHANGED <<file, granted>>
  BY DEF Exchange, OAuthInv, OAuthTypeOK
<1>3. \A d \in Callback : Uses(d)' => Uses(d)
  BY <1>2 DEF Uses
<1>4. StatesTakenOnce'
  BY <1>2, <1>3 DEF OAuthInv, StatesTakenOnce
<1>5. DoorsRight'
  BY <1>2 DEF OAuthInv, DoorsRight, RightDoor, Accepted
<1>. QED  BY <1>1, <1>4, <1>5, RecordsStay DEF Exchange, OAuthInv

(* The record goes to a user: the one who asked, or the account itself.    *)
LEMMA OwnerIsUser ==
  ASSUME OAuthInv, NEW b \in Callback, callback[b] = "saving"
  PROVE  Owner(b) \in User /\ (b \in Named => AccountOf[b] = Owner(b))
BY AuthorizationAssumption DEF OAuthInv, DoorsRight, Accepted, Owner, RightDoor

LEMMA GrantSaved ==
  ASSUME OAuthInv, NEW b \in Callback, SaveGrant(b)
  PROVE  OAuthInv'
<1>. DEFINE new == [by |-> b, gen |-> 0, fresh |-> TRUE]
<1>0. /\ callback[b] = "saving" /\ Owner(b) \in User
      /\ b \in Named => AccountOf[b] = Owner(b)
  BY OwnerIsUser DEF SaveGrant
<1>1. new \in Records
  BY AuthorizationAssumption DEF Records
<1>2. OAuthTypeOK'
  BY <1>0, <1>1 DEF SaveGrant, OAuthInv, OAuthTypeOK
<1>3. /\ callback'[b] = "done" /\ granted' = granted \cup {b}
      /\ \A d \in Callback : d # b => callback'[d] = callback[d]
      /\ UNCHANGED <<file, caller, refreshes>>
  BY DEF SaveGrant, OAuthInv, OAuthTypeOK
<1>4. \A d \in Callback : Uses(d)' => Uses(d)
  BY <1>0, <1>3 DEF Uses
<1>5. StatesTakenOnce'
  BY <1>3, <1>4 DEF OAuthInv, StatesTakenOnce
<1>6. DoorsRight'
  BY <1>0, <1>3 DEF OAuthInv, DoorsRight, RightDoor, Accepted
<1>7. /\ token'[Owner(b)] = new
      /\ \A u \in User : u # Owner(b) => token'[u] = token[u]
  BY <1>0 DEF SaveGrant, OAuthInv, OAuthTypeOK
<1>8. RecordsOwn'
  <2>1. (\A u \in User : token[u] # NoRecord => IsOf(token[u], u))'
    BY <1>0, <1>3, <1>7 DEF OAuthInv, RecordsOwn, IsOf, Owner
  <2>. QED  BY <1>3, <2>1 DEF OAuthInv, RecordsOwn, IsOf
<1>9. RefreshesKnown'
  BY <1>3 DEF OAuthInv, RefreshesKnown
<1>. QED  BY <1>2, <1>5, <1>6, <1>8, <1>9 DEF OAuthInv

LEMMA Stale ==
  ASSUME OAuthInv, NEW u \in User, GoesStale(u)
  PROVE  OAuthInv'
<1>1. token[u] # NoRecord /\ token[u] \in Records
  BY DEF GoesStale, OAuthInv, OAuthTypeOK, NoRecord
<1>2. /\ token'[u] \in Records /\ token'[u].by = token[u].by
      /\ \A v \in User : v # u => token'[v] = token[v]
      /\ UNCHANGED <<file, callback, granted, caller, refreshes>>
  BY <1>1 DEF GoesStale, OAuthInv, OAuthTypeOK, Records
<1>3. OAuthTypeOK'
  BY <1>2 DEF GoesStale, OAuthInv, OAuthTypeOK
<1>4. RecordsOwn'
  BY <1>1, <1>2 DEF OAuthInv, RecordsOwn, IsOf
<1>5. RefreshesKnown'
  BY <1>2 DEF OAuthInv, RefreshesKnown
<1>. QED  BY <1>2, <1>3, <1>4, <1>5, StatesStay DEF OAuthInv

LEMMA LoggedOut ==
  ASSUME OAuthInv, NEW u \in User, Logout(u)
  PROVE  OAuthInv'
<1>1. /\ token'[u] = NoRecord
      /\ \A v \in User : v # u => token'[v] = token[v]
      /\ UNCHANGED <<file, callback, granted, caller, refreshes>>
  BY DEF Logout, OAuthInv, OAuthTypeOK
<1>2. OAuthTypeOK'
  BY DEF Logout, OAuthInv, OAuthTypeOK
<1>3. RecordsOwn'
  BY <1>1 DEF OAuthInv, RecordsOwn, IsOf
<1>4. RefreshesKnown'
  BY <1>1 DEF OAuthInv, RefreshesKnown
<1>. QED  BY <1>1, <1>2, <1>3, <1>4, StatesStay DEF OAuthInv

LEMMA Loads ==
  ASSUME OAuthInv, NEW k \in Caller, Load(k)
  PROVE  OAuthInv'
<1>0. UserOf[k] \in User /\ UNCHANGED <<file, callback, granted, token, refreshes>>
  BY AuthorizationAssumption DEF Load
<1>1. \/ caller'[k] = Through
      \/ /\ token[UserOf[k]] # NoRecord
         /\ caller'[k] = [at |-> "loaded", copy |-> token[UserOf[k]]]
  BY DEF Load, OAuthInv, OAuthTypeOK
<1>2. \A c \in Caller : c # k => caller'[c] = caller[c]
  BY DEF Load, OAuthInv, OAuthTypeOK
<1>3. OAuthTypeOK'
  <2>1. caller'[k] \in [at : CallerStages, copy : Records \cup {NoRecord}]
    BY <1>0, <1>1 DEF OAuthInv, OAuthTypeOK, CallerStages, Through
  <2>. QED  BY <2>1 DEF Load, OAuthInv, OAuthTypeOK
<1>4. RecordsOwn'
  <2>1. caller'[k].at = "loaded" =>
          caller'[k].copy \in Records /\ IsOf(caller'[k].copy, UserOf[k])
    BY <1>0, <1>1 DEF OAuthInv, OAuthTypeOK, RecordsOwn, Through
  <2>2. caller'[k].at \in {"loaded", "done"}
    BY <1>1 DEF Through
  <2>. QED  BY <1>0, <1>2, <2>1, <2>2 DEF OAuthInv, RecordsOwn, IsOf
<1>5. RefreshesKnown'
  BY <1>0, <1>1, <1>2 DEF OAuthInv, RefreshesKnown, Through
<1>. QED  BY <1>0, <1>3, <1>4, <1>5, StatesStay DEF OAuthInv

(* A call goes to another stage with the record it has.                    *)
LEMMA CallerMoves ==
  ASSUME OAuthInv, UNCHANGED <<granted, token>>,
         \A c \in Caller :
           \/ caller'[c] = Through
           \/ /\ caller'[c].copy = caller[c].copy
              /\ caller'[c].at # caller[c].at =>
                   caller[c].at \in {"loaded", "waiting", "refreshing", "saving"}
  PROVE  RecordsOwn'
BY DEF OAuthInv, RecordsOwn, IsOf, Through

LEMMA Checks ==
  ASSUME OAuthInv, NEW k \in Caller, Check(k)
  PROVE  OAuthInv'
<1>0. UserOf[k] \in User /\ UNCHANGED <<file, callback, granted, token>>
  BY AuthorizationAssumption DEF Check
<1>1. caller[k].at = "loaded"
  BY DEF Check
<1>2. \A c \in Caller : c # k => caller'[c] = caller[c]
  BY DEF Check, OAuthInv, OAuthTypeOK
<1>3. \/ caller'[k] = Through /\ refreshes' = refreshes
      \/ /\ caller'[k] = [at |-> "waiting", copy |-> caller[k].copy]
         /\ refreshes' = refreshes
      \/ /\ caller'[k] = [at |-> "refreshing", copy |-> caller[k].copy]
         /\ refreshes[UserOf[k]] = Nobody
         /\ refreshes' = [refreshes EXCEPT ![UserOf[k]] = k]
  BY DEF Check, OAuthInv, OAuthTypeOK
<1>4. OAuthTypeOK'
  <2>1. caller'[k] \in [at : CallerStages, copy : Records \cup {NoRecord}]
    BY <1>3 DEF OAuthInv, OAuthTypeOK, CallerStages, Through
  <2>2. caller' = [caller EXCEPT ![k] = caller'[k]]
    BY DEF Check, OAuthInv, OAuthTypeOK
  <2>3. caller' \in [Caller -> [at : CallerStages, copy : Records \cup {NoRecord}]]
    BY <2>1, <2>2 DEF OAuthInv, OAuthTypeOK
  <2>4. refreshes' \in [User -> Caller \cup {Nobody}]
    BY <1>0, <1>3 DEF OAuthInv, OAuthTypeOK
  <2>. QED  BY <2>3, <2>4 DEF Check, OAuthInv, OAuthTypeOK
<1>5. RecordsOwn'
  BY <1>0, <1>1, <1>2, <1>3, CallerMoves
<1>6. RefreshesKnown'
  <2>1. CASE refreshes' = refreshes
    <3>1. caller'[k].at \notin {"refreshing", "saving"}
      <4>1. k # Nobody /\ DOMAIN refreshes = User
        BY AuthorizationAssumption DEF OAuthInv, OAuthTypeOK
      <4>. QED  BY <1>0, <1>3, <2>1, <4>1 DEF Through
    <3>. QED  BY <1>2, <2>1, <3>1 DEF OAuthInv, RefreshesKnown
  <2>2. CASE refreshes' # refreshes
    <3>1. /\ caller'[k].at = "refreshing" /\ refreshes[UserOf[k]] = Nobody
          /\ refreshes'[UserOf[k]] = k
          /\ \A u \in User : u # UserOf[k] => refreshes'[u] = refreshes[u]
      BY <1>0, <1>3, <2>2 DEF OAuthInv, OAuthTypeOK
    <3>2. \A c \in Caller : UserOf[c] \in User /\ c # Nobody
      BY AuthorizationAssumption
    <3>3. ASSUME NEW c \in Caller, c # k
          PROVE  /\ caller'[c].at \in {"refreshing", "saving"}
                      => refreshes'[UserOf[c]] = c
                 /\ caller'[c].at = "saving" => caller'[c].copy.gen < MaxGen
      <4>1. caller'[c] = caller[c]
        BY <1>2, <3>3
      <4>2. caller[c].at \in {"refreshing", "saving"}
              => refreshes[UserOf[c]] = c
        BY DEF OAuthInv, RefreshesKnown
      <4>3. caller[c].at = "saving" => caller[c].copy.gen < MaxGen
        BY DEF OAuthInv, RefreshesKnown
      <4>. QED  BY <3>1, <3>2, <4>1, <4>2, <4>3
    <3>. QED  BY <3>1, <3>3 DEF RefreshesKnown
  <2>. QED  BY <2>1, <2>2
<1>. QED  BY <1>0, <1>4, <1>5, <1>6, StatesStay DEF OAuthInv

(* The end of a refresh lets go whoever waits for it, and no other refresh. *)
LEMMA SettledCalls ==
  ASSUME OAuthInv, NEW k \in Caller, caller[k].at \in {"refreshing", "saving"},
         caller' = Settled(k),
         refreshes' = [refreshes EXCEPT ![UserOf[k]] = Nobody]
  PROVE  /\ caller' \in [Caller -> [at : CallerStages,
                                    copy : Records \cup {NoRecord}]]
         /\ refreshes' \in [User -> Caller \cup {Nobody}]
         /\ \A c \in Caller : caller'[c] = Through \/ caller'[c] = caller[c]
         /\ RefreshesKnown'
<1>0. \A c \in Caller : UserOf[c] \in User
  BY AuthorizationAssumption
<1>1. /\ \A c \in Caller : caller'[c] = Through \/ caller'[c] = caller[c]
      /\ caller'[k] = Through
  BY DEF Settled
<1>2. Through \in [at : CallerStages, copy : Records \cup {NoRecord}]
  BY DEF Through, CallerStages
<1>3. caller' \in [Caller -> [at : CallerStages, copy : Records \cup {NoRecord}]]
  BY <1>2 DEF Settled, OAuthInv, OAuthTypeOK
<1>4. refreshes' \in [User -> Caller \cup {Nobody}]
  BY DEF OAuthInv, OAuthTypeOK
<1>5. ASSUME NEW c \in Caller, caller'[c].at \in {"refreshing", "saving"}
      PROVE  /\ refreshes'[UserOf[c]] = c
             /\ caller'[c].at = "saving" => caller'[c].copy.gen < MaxGen
  <2>1. caller'[c] = caller[c] /\ c # k
    BY <1>1, <1>5 DEF Through
  <2>2. refreshes[UserOf[c]] = c /\ refreshes[UserOf[k]] = k
    BY <1>5, <2>1 DEF OAuthInv, RefreshesKnown
  <2>3. UserOf[c] # UserOf[k]
    BY <2>1, <2>2
  <2>. QED  BY <1>0, <1>5, <2>1, <2>2, <2>3
            DEF OAuthInv, OAuthTypeOK, RefreshesKnown
<1>. QED  BY <1>1, <1>3, <1>4, <1>5 DEF RefreshesKnown

LEMMA RefreshFailed ==
  ASSUME OAuthInv, NEW k \in Caller, RefreshFails(k)
  PROVE  OAuthInv'
<1>1. /\ caller[k].at \in {"refreshing", "saving"} /\ caller' = Settled(k)
      /\ refreshes' = [refreshes EXCEPT ![UserOf[k]] = Nobody]
      /\ UNCHANGED <<file, lapsed, callback, granted, token>>
  BY DEF RefreshFails
<1>2. OAuthTypeOK'
  BY <1>1, SettledCalls DEF OAuthInv, OAuthTypeOK
<1>3. RecordsOwn'
  BY <1>1, SettledCalls, CallerMoves
<1>4. RefreshesKnown'
  BY <1>1, SettledCalls
<1>. QED  BY <1>1, <1>2, <1>3, <1>4, StatesStay DEF OAuthInv

LEMMA RefreshAnswered ==
  ASSUME OAuthInv, NEW k \in Caller, Refreshed(k)
  PROVE  OAuthInv'
<1>1. /\ caller[k].at = "refreshing" /\ caller[k].copy.gen < MaxGen
      /\ caller'[k] = [at |-> "saving", copy |-> caller[k].copy]
      /\ \A c \in Caller : c # k => caller'[c] = caller[c]
      /\ UNCHANGED <<file, lapsed, callback, granted, token, refreshes>>
  BY DEF Refreshed, OAuthInv, OAuthTypeOK
<1>2. OAuthTypeOK'
  BY DEF Refreshed, OAuthInv, OAuthTypeOK, CallerStages
<1>3. RecordsOwn'
  BY <1>1, CallerMoves
<1>4. RefreshesKnown'
  BY <1>1 DEF OAuthInv, RefreshesKnown
<1>. QED  BY <1>1, <1>2, <1>3, <1>4, StatesStay DEF OAuthInv

LEMMA RefreshSaved ==
  ASSUME OAuthInv, NEW k \in Caller, SaveRefresh(k)
  PROVE  OAuthInv'
<1>. DEFINE u == UserOf[k]
            copy == caller[k].copy
            new == [by |-> copy.by, gen |-> copy.gen + 1, fresh |-> TRUE]
<1>0. /\ caller[k].at = "saving" /\ caller' = Settled(k)
      /\ refreshes' = [refreshes EXCEPT ![u] = Nobody]
      /\ token' = [token EXCEPT ![u] = new]
      /\ UNCHANGED <<file, lapsed, callback, granted>>
  BY DEF SaveRefresh
<1>1. u \in User /\ copy \in Records /\ IsOf(copy, u) /\ copy.gen < MaxGen
  BY <1>0, AuthorizationAssumption DEF OAuthInv, RecordsOwn, RefreshesKnown
<1>2. new \in Records /\ new.by = copy.by
  BY <1>1, AuthorizationAssumption DEF Records
<1>. HIDE DEF new
<1>3. /\ token'[u] = new /\ \A v \in User : v # u => token'[v] = token[v]
      /\ token' \in [User -> Records \cup {NoRecord}]
  BY <1>0, <1>1, <1>2 DEF OAuthInv, OAuthTypeOK
<1>4. OAuthTypeOK'
  BY <1>0, <1>3, SettledCalls DEF OAuthInv, OAuthTypeOK
<1>5. RefreshesKnown'
  BY <1>0, SettledCalls
<1>6. RecordsOwn'
  <2>1. (\A v \in User : token[v] # NoRecord => IsOf(token[v], v))'
    BY <1>0, <1>1, <1>2, <1>3 DEF OAuthInv, RecordsOwn, IsOf
  <2>2. \A c \in Caller : caller'[c] = Through \/ caller'[c] = caller[c]
    BY <1>0, SettledCalls
  <2>. QED  BY <1>0, <2>1, <2>2 DEF OAuthInv, RecordsOwn, IsOf, Through
<1>. QED  BY <1>0, <1>4, <1>5, <1>6, StatesStay DEF OAuthInv

LEMMA Forgotten ==
  ASSUME OAuthInv, Forgets
  PROVE  OAuthInv'
<1>1. /\ \A b \in Callback : callback'[b] \in {"idle", "done"}
      /\ \A k \in Caller : caller'[k] \in {Resting, Through}
      /\ UNCHANGED <<file, lapsed, granted, token>>
  BY DEF Forgets
<1>2. OAuthTypeOK'
  BY DEF Forgets, OAuthInv, OAuthTypeOK, CallerStages, Resting, Through
<1>3. \A b \in Callback : Uses(b)' => Uses(b)
  BY <1>1 DEF Uses
<1>4. StatesTakenOnce'
  BY <1>1, <1>3 DEF OAuthInv, StatesTakenOnce
<1>5. DoorsRight'
  BY <1>1 DEF OAuthInv, DoorsRight, RightDoor
<1>6. RecordsOwn' /\ RefreshesKnown'
  BY <1>1 DEF OAuthInv, RecordsOwn, RefreshesKnown, IsOf, Resting, Through
<1>. QED  BY <1>2, <1>4, <1>5, <1>6 DEF OAuthInv

LEMMA OAuthInvKept == OAuthInv /\ OAuthNext => OAuthInv'
BY Issued, Lapsed, Purged, Claimed, Consumed, Exchanged, GrantSaved, Stale,
   LoggedOut, Loads, Checks, RefreshAnswered, RefreshFailed, RefreshSaved
DEF OAuthNext

-----------------------------------------------------------------------------
(* The administration.                                                     *)

SessionsFit ==
  /\ actor \in [Session -> Callback \cup {"token", Nobody}]
  /\ SessionsAreBacked

AccessInv == OAuthInv /\ SessionsFit

LEMMA AccessInvInit == AccessInit => AccessInv
<1>. SUFFICES ASSUME AccessInit  PROVE AccessInv
  OBVIOUS
<1>1. OAuthInv
  BY OAuthInvInit DEF AccessInit
<1>2. Nobody \notin Callback
  BY AuthorizationAssumption
<1>3. SessionsFit
  BY <1>2 DEF AccessInit, SessionsFit, SessionsAreBacked
<1>. QED  BY <1>1, <1>3 DEF AccessInv

(* Grants are never taken back: a session keeps what it stands on.         *)
LEMMA SessionsStay ==
  ASSUME AccessInv, UNCHANGED actor, granted \subseteq granted'
  PROVE  SessionsFit'
BY DEF AccessInv, SessionsFit, SessionsAreBacked

LEMMA OAuthStays ==
  ASSUME AccessInv, UNCHANGED oauthVars
  PROVE  OAuthInv' /\ granted' = granted
BY DEF AccessInv, OAuthInv, OAuthTypeOK, StatesTakenOnce, DoorsRight,
       RecordsOwn, RefreshesKnown, Uses, RightDoor, Accepted, IsOf, oauthVars

(* No step of the authorization takes a grant back.                        *)
LEMMA GrantsGrow ==
  ASSUME OAuthNext \/ Forgets
  PROVE  granted \subseteq granted'
BY DEF OAuthNext, Forgets, Issue, Lapse, Purge, Claim, Consume, Exchange,
       SaveGrant, GoesStale, Logout, Load, Check, Refreshed, RefreshFails,
       SaveRefresh

LEMMA LoggedInByToken ==
  ASSUME AccessInv, NEW c \in Client, NEW x \in Session, Login(c, x)
  PROVE  AccessInv'
<1>1. OAuthInv' /\ granted' = granted
  BY OAuthStays DEF Login
<1>2. actor' = [actor EXCEPT ![x] = "token"]
  BY DEF Login, Open
<1>3. "token" \notin Callback
  BY AccessAssumption
<1>4. SessionsFit'
  BY <1>1, <1>2, <1>3 DEF AccessInv, SessionsFit, SessionsAreBacked
<1>. QED  BY <1>1, <1>4 DEF AccessInv

(* The door of the callback is that of its state, so the state was issued  *)
(* for administrators; the allowlist is asked for the account itself.      *)
LEMMA LoggedInBySso ==
  ASSUME AccessInv, NEW b \in Callback, SsoLogin(b)
  PROVE  AccessInv'
<1>1. OAuthInv'
  BY GrantSaved DEF AccessInv, SsoLogin
<1>2. granted' = granted \cup {b} /\ RightDoor(b) /\ DoorOf[b] = "admin"
  BY DEF SsoLogin, SaveGrant, AccessInv, OAuthInv, DoorsRight
<1>3. CASE AccountOf[b] \notin Allowlist
  BY <1>1, <1>2, <1>3, SessionsStay DEF SsoLogin, AccessInv
<1>4. CASE AccountOf[b] \in Allowlist
  <2>1. PICK x \in Session : actor' = [actor EXCEPT ![x] = b]
    BY <1>4 DEF SsoLogin, Open
  <2>2. PurposeOf[StateOf[b]] = Sso
    BY <1>2 DEF RightDoor
  <2>3. SessionsFit'
    BY <1>2, <1>4, <2>1, <2>2 DEF AccessInv, SessionsFit, SessionsAreBacked
  <2>. QED  BY <1>1, <2>3 DEF AccessInv
<1>. QED  BY <1>3, <1>4

LEMMA AccessInvKept == AccessInv /\ [AccessNext]_accessVars => AccessInv'
<1>. SUFFICES ASSUME AccessInv, [AccessNext]_accessVars
              PROVE  AccessInv'
  OBVIOUS
<1>1. CASE Authorization
  <2>1. OAuthInv' /\ granted \subseteq granted' /\ UNCHANGED actor
    BY <1>1, OAuthInvKept, GrantsGrow
    DEF Authorization, AccessInv, sessionVars
  <2>. QED  BY <2>1, SessionsStay DEF AccessInv
<1>2. CASE UNCHANGED oauthVars /\ UNCHANGED actor
  BY <1>2, OAuthStays, SessionsStay DEF AccessInv
<1>3. ASSUME NEW c \in Client, WrongToken(c) \/ WindowEnds(c)
      PROVE  AccessInv'
  BY <1>2, <1>3 DEF WrongToken, WindowEnds
<1>4. ASSUME NEW c \in Client, NEW x \in Session, Login(c, x)
      PROVE  AccessInv'
  BY <1>4, LoggedInByToken
<1>5. ASSUME NEW b \in Callback, SsoLogin(b)
      PROVE  AccessInv'
  BY <1>5, LoggedInBySso
<1>6. ASSUME NEW x \in Session, SessionExpires(x)
      PROVE  AccessInv'
  BY <1>2, <1>6 DEF SessionExpires
<1>7. ASSUME NEW r \in Request, Arrive(r) \/ LogOut(r) \/ BodyRead(r)
      PROVE  AccessInv'
  BY <1>2, <1>7 DEF Arrive, LogOut, BodyRead
<1>8. CASE Crash
  <2>1. OAuthInv' /\ granted \subseteq granted' /\ UNCHANGED actor
    BY <1>8, Forgotten, GrantsGrow DEF Crash, AccessInv
  <2>. QED  BY <2>1, SessionsStay DEF AccessInv
<1>9. CASE UNCHANGED accessVars
  BY <1>2, <1>9 DEF accessVars, sessionVars
<1>. QED  BY <1>1, <1>3, <1>4, <1>5, <1>6, <1>7, <1>8, <1>9 DEF AccessNext

LEMMA AccessInvHolds == AccessSpec => []AccessInv
BY AccessInvInit, AccessInvKept, PTL DEF AccessSpec

(* A state backs one grant, at its own door, and every token record is of  *)
(* the user who asked for it, or of the account the answer named: for any  *)
(* number of users, states, callbacks that share or replay them, answers   *)
(* that name no account, maintenance and crashes                           *)
(* (OAuthStateStore.consume(), handleCallback(), handleAdminCallback()).   *)
THEOREM GrantsBelongToTheirUsers == AccessSpec => []GrantsAreOwn
<1>1. AccessInv => GrantsAreOwn
  <2>1. OAuthInv => granted \subseteq Callback
    BY DEF OAuthInv, OAuthTypeOK
  <2>. QED  BY <2>1 DEF AccessInv, OAuthInv, StatesTakenOnce, Uses,
                        DoorsRight, RecordsOwn, IsOf, GrantsAreOwn
<1>. QED  BY <1>1, AccessInvHolds, PTL

(* However many calls of a user find the token stale, one of them presents *)
(* the refresh token (OAuthTokenStore.validAccessToken()).                 *)
THEOREM RefreshIsShared == AccessSpec => []OneRefreshAtATime
<1>1. ASSUME AccessInv
      PROVE  OneRefreshAtATime
  <2>. SUFFICES ASSUME NEW k \in Caller, NEW c \in Caller,
                       UserOf[k] = UserOf[c],
                       k # c,
                       {caller[k].at, caller[c].at}
                         \subseteq {"refreshing", "saving"}
                PROVE  FALSE
    BY DEF OneRefreshAtATime
  <2>1. /\ caller[k].at \in {"refreshing", "saving"}
        /\ caller[c].at \in {"refreshing", "saving"}
    OBVIOUS
  <2>2. refreshes[UserOf[k]] = k /\ refreshes[UserOf[c]] = c
    BY <1>1, <2>1 DEF AccessInv, OAuthInv, RefreshesKnown
  <2>. QED  BY <2>2
<1>. QED  BY <1>1, AccessInvHolds, PTL

(* An administrator's session for a Feishu account stands on a completed   *)
(* login of an allowlisted account through a state issued for that         *)
(* purpose (createFeishuSsoSession(), completeAdminSso()).                 *)
THEOREM SessionsStandOnLogins == AccessSpec => []SessionsAreBacked
<1>1. AccessInv => SessionsAreBacked
  BY DEF AccessInv, SessionsFit
<1>. QED  BY <1>1, AccessInvHolds, PTL

(* The types of the administration: a client is never counted past its     *)
(* attempts, so that a window that ends lets it try again.                 *)
LEMMA CountsFit ==
  AccessTypeOK /\ AccessInv' /\ [AccessNext]_accessVars => AccessTypeOK'
<1>. SUFFICES ASSUME AccessTypeOK, AccessInv', [AccessNext]_accessVars
              PROVE  AccessTypeOK'
  OBVIOUS
<1>. USE DEF AccessTypeOK
<1>0. OAuthTypeOK' /\ actor' \in [Session -> Callback \cup {"token", Nobody}]
  BY DEF AccessInv, OAuthInv, SessionsFit
<1>1. CASE Authorization \/ UNCHANGED accessVars
  BY <1>0, <1>1 DEF Authorization, accessVars, sessionVars
<1>2. ASSUME NEW c \in Client, WrongToken(c) \/ WindowEnds(c)
      PROVE  AccessTypeOK'
  BY <1>0, <1>2, AccessAssumption DEF WrongToken, WindowEnds
<1>3. ASSUME NEW c \in Client, NEW x \in Session, Login(c, x)
      PROVE  AccessTypeOK'
  BY <1>0, <1>3, AccessAssumption DEF Login, Open
<1>4. ASSUME NEW b \in Callback, SsoLogin(b)
      PROVE  AccessTypeOK'
  BY <1>0, <1>4 DEF SsoLogin, Open
<1>5. ASSUME NEW x \in Session, SessionExpires(x)
      PROVE  AccessTypeOK'
  BY <1>0, <1>5 DEF SessionExpires
<1>6. ASSUME NEW r \in Request, Arrive(r) \/ LogOut(r) \/ BodyRead(r)
      PROVE  AccessTypeOK'
  BY <1>0, <1>6 DEF Arrive, LogOut, BodyRead
<1>7. CASE Crash
  BY <1>0, <1>7, AccessAssumption DEF Crash
<1>. QED  BY <1>1, <1>2, <1>3, <1>4, <1>5, <1>6, <1>7 DEF AccessNext

(* The states of tokens, refreshes, sessions and logins are those of the   *)
(* code, and no client is counted past maxLoginAttempts                    *)
(* (AdminAuthService.loginWithBootstrapToken(), recordFailedLogin()).      *)
THEOREM AccessTypes == AccessSpec => []AccessTypeOK
<1>1. AccessInit => AccessTypeOK
  BY AccessInvInit, AccessAssumption
  DEF AccessInit, AccessTypeOK, AccessInv, OAuthInv, SessionsFit
<1>2. AccessTypeOK /\ AccessInv' /\ [AccessNext]_accessVars => AccessTypeOK'
  BY CountsFit
<1>. QED  BY <1>1, <1>2, AccessInvHolds, PTL DEF AccessSpec
=============================================================================
