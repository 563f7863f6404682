---------------------------- MODULE ModelAccess ----------------------------
(***************************************************************************)
(* How a resident session reaches its model: the capabilities and requests *)
(* of the Host model broker (src/src/model/model-broker.ts), and the       *)
(* sessions that hold them (pi/session-registry.ts, pi/process-session.ts).*)
(*                                                                         *)
(* Time is a clock that advances in units; Ttl, MaxLifetime and IdleTtl    *)
(* keep the order of the settings they stand for.  The body of a request   *)
(* is read between the first look at its capability and the renewal.       *)
(***************************************************************************)
EXTENDS Integers, FiniteSets

CONSTANTS
  Session, Request,
  OwnerOf,      \* the session whose Worker sends a request
  InScope,      \* the requests for the model and path of their capability
  Ttl,          \* MODEL_CAPABILITY_TTL_MS
  MaxLifetime,  \* MODEL_CAPABILITY_MAX_LIFETIME_MS
  IdleTtl,      \* conversation.idleTtlSeconds
  MaxTime       \* bound of the clock

ASSUME ModelAssumption ==
  /\ OwnerOf \in [Request -> Session]
  /\ InScope \subseteq Request
  /\ Ttl \in Nat \ {0} /\ MaxLifetime \in Nat \ {0}
  /\ IdleTtl \in Nat \ {0} /\ MaxTime \in Nat

VARIABLES
  now,      \* the clock
  broker,   \* off, on, stopped
  session,  \* stage and last use of each session
  cap,      \* the capability of each session, or None
  request,  \* where each request is
  sentAt    \* when a request was forwarded, and under which limit

vars == <<now, broker, session, cap, request, sentAt>>

None == [issued |-> -1, expires |-> -1]

Times == 0 .. MaxTime + Ttl

Stages == {"none", "starting", "resident", "turn", "dead", "closing", "gone"}

Least(a, b) == IF a < b THEN a ELSE b

Limit(c) == c.issued + MaxLifetime

(* The types; and a capability, however often it was renewed, ends within  *)
(* the absolute lifetime that was fixed when it was issued.                *)
TypeOK ==
  /\ now \in 0 .. MaxTime
  /\ broker \in {"off", "on", "stopped"}
  /\ session \in [Session -> [at : Stages, used : 0 .. MaxTime]]
  /\ cap \in [Session -> [issued : 0 .. MaxTime, expires : Times] \cup {None}]
  /\ request \in [Request -> {"idle", "body", "upstream", "done"}]
  /\ sentAt \in [Request -> -1 .. MaxTime]
  /\ \A x \in Session : cap[x] # None => cap[x].expires <= Limit(cap[x])

Init ==
  /\ now = 0
  /\ broker = "off"
  /\ session = [x \in Session |-> [at |-> "none", used |-> 0]]
  /\ cap = [x \in Session |-> None]
  /\ request = [r \in Request |-> "idle"]
  /\ sentAt = [r \in Request |-> -1]

(* activeCapability(): a capability that is in the map and not expired.    *)
Live(c) == c # None /\ now < c.expires /\ now < Limit(c)

Expiry(issued) == Least(now + Ttl, issued + MaxLifetime)

Idle(x) == \A r \in Request : OwnerOf[r] = x => request[r] \in {"idle", "done"}

-----------------------------------------------------------------------------
(* The broker listens before the Apps start and stops after them.          *)
StartBroker ==
  /\ broker = "off"
  /\ broker' = "on"
  /\ UNCHANGED <<now, session, cap, request, sentAt>>

StopBroker ==
  /\ broker = "on"
  /\ broker' = "stopped"
  /\ cap' = [x \in Session |-> None]
  /\ request' = [r \in Request |->
                   IF request[r] = "idle" THEN "idle" ELSE "done"]
  /\ UNCHANGED <<now, session, sentAt>>

Tick ==
  /\ now < MaxTime
  /\ now' = now + 1
  /\ UNCHANGED <<broker, session, cap, request, sentAt>>

-----------------------------------------------------------------------------
(* Sessions.  create() issues the capability and starts the Worker.        *)
Create(x) ==
  /\ session[x].at = "none"
  /\ broker = "on"
  /\ session' = [session EXCEPT ![x].at = "starting"]
  /\ cap' = [cap EXCEPT ![x] = [issued |-> now, expires |-> Expiry(now)]]
  /\ UNCHANGED <<now, broker, request, sentAt>>

(* Mutant: a session that could not be created keeps its capability. *)
CreateFailsKeeping(x) ==
  /\ session[x].at = "starting"
  /\ session' = [session EXCEPT ![x].at = "gone"]
  /\ UNCHANGED <<now, broker, cap, request, sentAt>>

CreateFails(x) ==
  /\ session[x].at = "starting"
  /\ session' = [session EXCEPT ![x].at = "gone"]
  /\ cap' = [cap EXCEPT ![x] = None]
  /\ UNCHANGED <<now, broker, request, sentAt>>

Ready(x) ==
  /\ session[x].at = "starting"
  /\ session' = [session EXCEPT ![x] = [at |-> "resident", used |-> now]]
  /\ UNCHANGED <<now, broker, cap, request, sentAt>>

(* A turn takes the resident session; only a dead Worker is replaced.      *)
BeginTurn(x) ==
  /\ session[x].at = "resident"
  /\ session' = [session EXCEPT ![x] = [at |-> "turn", used |-> now]]
  /\ UNCHANGED <<now, broker, cap, request, sentAt>>

EndTurn(x) ==
  /\ session[x].at = "turn"
  /\ Idle(x)
  /\ session' = [session EXCEPT ![x] = [at |-> "resident", used |-> now]]
  /\ UNCHANGED <<now, broker, cap, request, sentAt>>

(* The Worker exits: the capability is revoked at once and its connections *)
(* close.                                                                  *)
WorkerExits(x) ==
  /\ session[x].at \in {"resident", "turn", "closing"}
  /\ session' = [session EXCEPT ![x].at =
                   IF @ = "closing" THEN "gone" ELSE "dead"]
  /\ cap' = [cap EXCEPT ![x] = None]
  /\ request' = [r \in Request |->
                   IF OwnerOf[r] = x /\ request[r] # "idle" THEN "done"
                   ELSE request[r]]
  /\ UNCHANGED <<now, broker, sentAt>>

(* A reset, an abort, a timed out turn or the maintenance of idle sessions *)
(* lets the Worker go; the capability goes when the Worker has.            *)
Release(x) ==
  /\ \/ session[x].at = "turn"
     \/ session[x].at = "resident" /\ now - session[x].used >= IdleTtl
  /\ session' = [session EXCEPT ![x].at = "closing"]
  /\ UNCHANGED <<now, broker, cap, request, sentAt>>

-----------------------------------------------------------------------------
(* Requests. *)
Answer(r) == request' = [request EXCEPT ![r] = "done"]

(* A Worker asks during a turn, and may go on while it closes.             *)
Arrive(r) ==
  /\ broker = "on"
  /\ request[r] = "idle" /\ session[OwnerOf[r]].at \in {"turn", "closing"}
  /\ \/ /\ Live(cap[OwnerOf[r]])
        /\ request' = [request EXCEPT ![r] = "body"]
        /\ UNCHANGED cap
     \/ /\ ~Live(cap[OwnerOf[r]])
        /\ Answer(r)
        /\ cap' = [cap EXCEPT ![OwnerOf[r]] = None]
  /\ UNCHANGED <<now, broker, session, sentAt>>

(* Mutant: the capability is not looked at again after the body. *)
ForwardAtOnce(r) ==
  /\ request[r] = "body" /\ r \in InScope
  /\ request' = [request EXCEPT ![r] = "upstream"]
  /\ sentAt' = [sentAt EXCEPT ![r] = now]
  /\ UNCHANGED <<now, broker, session, cap>>

(* The body is in scope and the capability still the same: it is renewed   *)
(* and the request goes upstream.                                          *)
Forward(r) ==
  LET x == OwnerOf[r]
  IN  /\ request[r] = "body" /\ r \in InScope
      /\ Live(cap[x])
      /\ cap' = [cap EXCEPT ![x].expires = Expiry(cap[x].issued)]
      /\ request' = [request EXCEPT ![r] = "upstream"]
      /\ sentAt' = [sentAt EXCEPT ![r] = now]
      /\ UNCHANGED <<now, broker, session>>

(* Mutant: only a capability that is still live gets an answer. *)
RejectLive(r) ==
  /\ request[r] = "body" /\ Live(cap[OwnerOf[r]])
  /\ Answer(r)
  /\ UNCHANGED <<now, broker, session, cap, sentAt>>

(* The body is too large, malformed, for another model or path, or its     *)
(* capability has gone in the meantime.                                    *)
Reject(r) ==
  /\ request[r] = "body"
  /\ Answer(r)
  /\ cap' = IF Live(cap[OwnerOf[r]]) THEN cap
            ELSE [cap EXCEPT ![OwnerOf[r]] = None]
  /\ UNCHANGED <<now, broker, session, sentAt>>

(* The Worker closes the connection before its answer is complete: the     *)
(* capability of the whole session is given up with it.                    *)
Disconnect(r) ==
  /\ request[r] \in {"body", "upstream"}
  /\ Answer(r)
  /\ cap' = [cap EXCEPT ![OwnerOf[r]] = None]
  /\ UNCHANGED <<now, broker, session, sentAt>>

(* The upstream answers, fails or exceeds MODEL_BROKER_REQUEST_TIMEOUT_MS. *)
Answered(r) ==
  /\ request[r] = "upstream"
  /\ Answer(r)
  /\ UNCHANGED <<now, broker, session, cap, sentAt>>

(* A snapshot for the operators forgets the expired capabilities.          *)
Prune ==
  /\ \E x \in Session : cap[x] # None /\ ~Live(cap[x])
  /\ cap' = [x \in Session |-> IF Live(cap[x]) THEN cap[x] ELSE None]
  /\ UNCHANGED <<now, broker, session, request, sentAt>>

Next ==
  \/ StartBroker \/ StopBroker \/ Tick \/ Prune
  \/ \E x \in Session : \/ Create(x) \/ CreateFails(x) \/ Ready(x)
                        \/ BeginTurn(x) \/ EndTurn(x)
                        \/ WorkerExits(x) \/ Release(x)
  \/ \E r \in Request : \/ Arrive(r) \/ Forward(r) \/ Reject(r)
                        \/ Disconnect(r) \/ Answered(r)

Spec == Init /\ [][Next]_vars

(* The broker bounds the upstream, node:http the time a body may take.     *)
FairSpec ==
  Spec /\ \A r \in Request : WF_vars(Forward(r) \/ Reject(r) \/ Answered(r))

-----------------------------------------------------------------------------
(* A capability in the map belongs to a session whose Worker may still     *)
(* exist: none outlives a failed creation, an exit or a disposal.          *)
NoOrphanCapability ==
  \A x \in Session : cap[x] # None =>
    session[x].at \in {"starting", "resident", "turn", "closing"}

(* However long a body takes, a request reaches the upstream only while    *)
(* the broker runs, its session has a Worker and its capability is within  *)
(* the absolute lifetime that was fixed when it was issued.                *)
ForwardedInTime ==
  [][\A r \in Request : sentAt'[r] # sentAt[r] =>
       LET x == OwnerOf[r]
       IN  /\ broker = "on"
           /\ session[x].at \in {"turn", "closing"}
           /\ cap[x] # None /\ now < Limit(cap[x])]_vars

(* A request that was accepted is answered: a body that never completes    *)
(* its scope, an upstream that hangs or a revoked capability end it.       *)
RequestsEnd ==
  \A r \in Request : request[r] = "body" ~> request[r] = "done"
=============================================================================
