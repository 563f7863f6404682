------------------------------ MODULE Routing ------------------------------
(***************************************************************************)
(* Which Agent a message of a Feishu App goes to: the router of            *)
(* src/src/runtime/binding-router.ts, and what the loader of               *)
(* src/src/config/load-platform.ts demands of the routes of an App so that *)
(* the router always finds one.                                            *)
(*                                                                         *)
(* The beginning of a message is the sequence of its leading words that    *)
(* are joined by single spaces: the part a command prefix, which is one    *)
(* word or two, can match.  Counting a prefix in words orders the prefixes *)
(* of one message as their length in characters does.                      *)
(***************************************************************************)
EXTENDS Integers, Sequences, FiniteSets

CONSTANTS
  Word,   \* the words of messages and prefixes
  Place   \* chats, users and topics

(* A route after loadBindingManifest(): prefixes in lower case with single *)
(* spaces, and three allowlists, empty when the route does not filter.     *)
Route ==
  [default : BOOLEAN, priority : Int,
   prefixes : SUBSET (Seq(Word) \ {<< >>}),
   chats : SUBSET Place, users : SUBSET Place, topics : SUBSET Place]

(* What the router reads of a message.                                     *)
RoutedMessage ==
  [beginning : Seq(Word), chat : Place, user : Place, topic : Place]

Selectors == {"chats", "users", "topics"}

-----------------------------------------------------------------------------
(* BindingRouter.                                                          *)
Admits(allowlist, x) == allowlist = {} \/ x \in allowlist

Starts(prefix, text) ==
  /\ Len(prefix) <= Len(text)
  /\ \A i \in 1 .. Len(prefix) : prefix[i] = text[i]

(* Some prefix of n words begins the message.                              *)
Commands(route, n, m) ==
  \E p \in route.prefixes : Len(p) = n /\ Starts(p, m.beginning)

(* longestMatchingPrefix(): 0 when none matches.                           *)
PrefixLength(route, m) ==
  IF Commands(route, 2, m) THEN 2 ELSE IF Commands(route, 1, m) THEN 1 ELSE 0

Matches(route, m) ==
  /\ Admits(route.chats, m.chat)
  /\ Admits(route.users, m.user)
  /\ Admits(route.topics, m.topic)
  /\ route.prefixes # {} => PrefixLength(route, m) > 0

Filters(set) == IF set = {} THEN 0 ELSE 1

Specificity(route) ==
  Filters(route.chats) + Filters(route.users) + Filters(route.topics)
    + Filters(route.prefixes)

Score(route, m) ==
  <<route.priority, PrefixLength(route, m), Specificity(route)>>

(* compareCandidates() before the identifiers are compared.                *)
Precedes(s, t) ==
  \/ s[1] > t[1]
  \/ s[1] = t[1] /\ s[2] > t[2]
  \/ s[1] = t[1] /\ s[2] = t[2] /\ s[3] > t[3]

Candidates(bindings, m) ==
  {b \in bindings : ~b.route.default /\ Matches(b.route, m)}

Winners(bindings, m) ==
  {b \in Candidates(bindings, m) :
     \A c \in Candidates(bindings, m) :
       ~Precedes(Score(c.route, m), Score(b.route, m))}

(* resolve() throws AmbiguousBindingRouteError.                            *)
Ambiguous(bindings, m) ==
  \E b, c \in Winners(bindings, m) :
    b # c /\ Score(b.route, m) = Score(c.route, m)

Resolve(bindings, m) ==
  IF Candidates(bindings, m) = {}
  THEN CHOOSE b \in bindings : b.route.default
  ELSE CHOOSE b \in Winners(bindings, m) : TRUE

-----------------------------------------------------------------------------
(* The loader: validateAppRoutes() for the bindings of one App.            *)
Unfiltered(route) ==
  route.prefixes = {} /\ \A s \in Selectors : route[s] = {}

Overlap(s, t) == s = {} \/ t = {} \/ s \cap t # {}

(* Mutant: two routes with the same number of filters are told apart by    *)
(* which filters they have.                                                *)
CanTieBySelector(r, q) ==
  /\ r.priority = q.priority
  /\ IF r.prefixes # {} \/ q.prefixes # {}
     THEN r.prefixes \cap q.prefixes # {}
     ELSE \A s \in Selectors : r[s] \cap q[s] # {}

CanTie(r, q) ==
  /\ r.priority = q.priority
  /\ IF r.prefixes # {} \/ q.prefixes # {}
     THEN r.prefixes \cap q.prefixes # {}
     ELSE /\ Specificity(r) = Specificity(q)
          /\ \A s \in Selectors : Overlap(r[s], q[s])

RouteAccepted(route) ==
  /\ route.default <=> Unfiltered(route)
  /\ \A p \in route.prefixes : Len(p) \in {1, 2}

OneDefault(bindings) ==
  /\ \E b \in bindings : b.route.default
  /\ \A b, c \in bindings : b.route.default /\ c.route.default => b = c

RoutesAccepted(bindings) ==
  /\ OneDefault(bindings)
  /\ \A b, c \in bindings : b # c =>
       /\ b.route.prefixes \cap c.route.prefixes = {}
       /\ ~b.route.default /\ ~c.route.default => ~CanTie(b.route, c.route)

(* Whatever message arrives, at most one binding of an accepted App has    *)
(* the best score: the router never has to ask the sender to be clearer.   *)
RoutesUnambiguous(bindings, messages) ==
  \A m \in messages : ~Ambiguous(bindings, m)
=============================================================================
