----------------------------- MODULE ToolCalls -----------------------------
(***************************************************************************)
(* The tool calls of one resident session, from the model's request to the *)
(* tool: the broker (src/src/tools/tool-broker.ts), the context of the     *)
(* running turn (tools/turn-context.ts), the approvals in memory           *)
(* (approvals/coordinator.ts) and in the database                          *)
(* (storage/approval-store.ts), the deadline of a tool (core/timeout.ts)   *)
(* and what an unhandled rejection does to the process (index.ts).         *)
(*                                                                         *)
(* A call is authorized in the context that is current, may then wait for  *)
(* a person, and is executed in whatever context is current by then.  The  *)
(* handler of a turn past its deadline lives on while the queue goes on    *)
(* with the next turn, in the same session until the Worker has answered   *)
(* the abort.                                                              *)
(* A step is what runs between two points where another task can; a store  *)
(* operation may fail, and the message that asks for approval may be       *)
(* delivered, answered and lost in any order.                              *)
(***************************************************************************)
EXTENDS FiniteSets, Naturals

CONSTANTS
  Call, Person, None,
  Turn,        \* the turns that get their slot, numbered as they were queued
  TurnOf,      \* the turn whose model makes the call
  GrantOf,     \* the approval the Host's grant of the tool asks for
  SenderOf,    \* who sent the message of a turn
  Admins,      \* ADMIN_OPEN_IDS
  Operators,   \* the actors of admin sessions: people, and the console token's
  MaxDeadlines \* bounds the turns whose deadline passes

ASSUME ToolAssumption ==
  /\ IsFiniteSet(Call)
  /\ Turn \subseteq Nat
  /\ TurnOf \in [Call -> Turn]
  /\ GrantOf \in [Call -> {"none", "never", "requester", "admin"}]
  /\ SenderOf \in [Turn -> Person]
  /\ MaxDeadlines \in Nat
  /\ Admins \cup Operators \subseteq Person
  /\ None \notin Turn \cup Person

VARIABLES
  turn,       \* the handler of each turn
  abandoned,  \* the turns whose deadline passed: the queue has gone on
  fit,        \* the session is in the registry's map: a turn may join it
  context,    \* TurnContextRef.current
  call,       \* where each call is
  askedIn,    \* the context it was authorized in
  aborted,    \* the unfinished calls whose signal fired
  card,       \* the calls whose approval message people see
  promise,    \* what coordinator.request() waits for
  pending,    \* the coordinator's map
  row,        \* the state of the row in tool_approvals
  approver,   \* ... and who decided
  late,       \* Date.now() has reached expiresAt
  ranIn,      \* the context a tool was started with
  process     \* running, stopping (a signal, an unhandled rejection), dead

session == <<turn, abandoned, fit, context>>
durable == <<row, approver>>
vars == <<session, call, askedIn, aborted, card, promise, pending, row, approver,
          late, ranIn, process>>

Stages == {"idle", "cleared", "sending", "awaiting", "running", "done", "lost"}

(* A turn that is cut off ended while its Worker may have been running: it *)
(* was killed, and its last messages may still be read.                    *)
TurnStages == {"waiting", "joined", "preparing", "prompting", "over", "cutOff"}

(* The types; and what the coordinator holds is what a caller waits for:   *)
(* however an approval ended, its entry went with it.                      *)
TypeOK ==
  /\ turn \in [Turn -> TurnStages]
  /\ abandoned \subseteq Turn
  /\ fit \in BOOLEAN
  /\ context \in Turn \cup {None}
  /\ call \in [Call -> Stages]
  /\ askedIn \in [Call -> Turn \cup {None}]
  /\ aborted \subseteq Call /\ card \subseteq Call /\ late \subseteq Call
  /\ promise \in [Call -> {"none", "open", "resolved", "rejected"}]
  /\ pending \subseteq Call
  /\ \A c \in pending : call[c] \in {"sending", "awaiting"} /\ promise[c] = "open"
  /\ row \in [Call -> {"none", "pending", "approved", "denied", "expired", "aborted"}]
  /\ approver \in [Call -> Person \cup {None}]
  /\ ranIn \in [Call -> Turn \cup {None}]
  /\ process \in {"running", "stopping", "dead"}

Init ==
  /\ turn = [t \in Turn |-> "waiting"]
  /\ abandoned = {} /\ fit = TRUE /\ context = None
  /\ call = [c \in Call |-> "idle"]
  /\ askedIn = [c \in Call |-> None]
  /\ aborted = {} /\ card = {} /\ late = {} /\ pending = {}
  /\ promise = [c \in Call |-> "none"]
  /\ row = [c \in Call |-> "none"]
  /\ approver = [c \in Call |-> None]
  /\ ranIn = [c \in Call |-> None]
  /\ process = "running"

CallsOf(t) == {c \in Call : TurnOf[c] = t}

Ended(c) == call[c] \in {"idle", "done", "lost"}

(* Whose handler runs, and holds up the queue of the conversation.         *)
Handled == {t \in Turn : turn[t] \in {"joined", "preparing", "prompting"}}

Attached == Handled \ abandoned

Becomes(f, S, v) == [x \in DOMAIN f |-> IF x \in S THEN v ELSE f[x]]

-----------------------------------------------------------------------------
(* The store.  A row is decided while it is pending and its time has not   *)
(* come; every decision first expires all the rows whose time has come.    *)
Overdue == {c \in late : row[c] = "pending"}

Undecided(c) == row[c] = "pending" /\ c \notin late

(* Mutant: a decision does not look at the state of the row. *)
ResolveAgain(S, state, who) ==
  /\ row' = Becomes(row, S, state)
  /\ approver' = Becomes(approver, S, who)

Resolve(S, state, who) ==
  LET set == {c \in S : Undecided(c)}
  IN  /\ row' = [c \in Call |-> IF c \in set THEN state
                                ELSE IF c \in Overdue THEN "expired" ELSE row[c]]
      /\ approver' = Becomes(approver, set, who)

(* resolve(id, "expired") touches that row only.                           *)
ResolveExpired(c) ==
  /\ row' = Becomes(row, {c} \cap Overdue, "expired")
  /\ UNCHANGED approver

StoreFails == UNCHANGED durable

(* A rejection nobody waits for yet, because the message is still being    *)
(* sent, is an unhandledRejection: index.ts shuts the process down.        *)
Reject(S) ==
  /\ promise' = Becomes(promise, S, "rejected")
  /\ process' = IF \E c \in S : call[c] = "sending" /\ process = "running"
                THEN "stopping" ELSE process

Forget(S) == pending' = pending \ S

-----------------------------------------------------------------------------
(* Turns. *)
Step(t, from, to) ==
  /\ process # "dead"
  /\ turn[t] = from
  /\ turn' = [turn EXCEPT ![t] = to]

approvals == <<call, askedIn, aborted, card, promise, pending, row, approver, late,
               ranIn, process>>

(* Mutant: the queue of the conversation does not wait for the turn before. *)
JoinAtOnce(t) ==
  /\ process = "running" /\ fit
  /\ \A u \in Turn : u < t => turn[u] # "waiting"
  /\ Step(t, "waiting", "joined")
  /\ UNCHANGED <<abandoned, fit, context, approvals>>

(* acquireForTurn, when the queue has come to this turn.                   *)
Join(t) ==
  /\ process = "running" /\ fit /\ Attached = {}
  /\ \A u \in Turn : u < t => turn[u] # "waiting"
  /\ Step(t, "waiting", "joined")
  /\ UNCHANGED <<abandoned, fit, context, approvals>>

BeginTurn(t) ==
  /\ t \notin abandoned /\ context = None
  /\ Step(t, "joined", "preparing")
  /\ context' = t
  /\ UNCHANGED <<abandoned, fit, approvals>>

(* The signal is aborted, or TurnContextRef.set finds another's context:   *)
(* the finally block clears it, whosever it is.                            *)
RefuseTurn(t) ==
  /\ t \in abandoned \/ context # None
  /\ Step(t, "joined", "over")
  /\ context' = None
  /\ UNCHANGED <<abandoned, fit, approvals>>

(* The input could not be prepared, the signal is aborted, or the Worker   *)
(* refuses the prompt: it is gone or has one already.                      *)
TurnFails(t) ==
  /\ Step(t, "preparing", "over")
  /\ context' = None
  /\ UNCHANGED <<abandoned, fit, approvals>>

Prompt(t) ==
  /\ t \notin abandoned /\ fit
  /\ \A u \in Turn : turn[u] # "prompting"
  /\ Step(t, "preparing", "prompting")
  /\ UNCHANGED <<abandoned, fit, context, approvals>>

(* The prompt is answered after its run, whose calls have been answered or *)
(* cancelled; or it timed out or the Worker died, the session is evicted,  *)
(* and what the Worker had asked for may still arrive.  endTurn.           *)
EndTurn(t) ==
  /\ \/ /\ \A c \in CallsOf(t) : Ended(c) \/ c \in aborted
        /\ Step(t, "prompting", "over")
     \/ ~fit /\ Step(t, "prompting", "cutOff")
  /\ context' = None
  /\ UNCHANGED <<abandoned, fit, approvals>>

(* The deadline of the turn, or of the drain in stop(): the handler is     *)
(* left to itself.                                                         *)
Abandon(t) ==
  /\ process # "dead"
  /\ t \in Attached /\ Cardinality(abandoned) < MaxDeadlines
  /\ abandoned' = abandoned \cup {t}
  /\ UNCHANGED <<turn, fit, context, approvals>>

(* The session leaves the map and is disposed of, whoever uses it by then: *)
(* the Worker answered an abort, or died, a prompt timed out, a reset, the *)
(* maintenance, stop().                                                    *)
Evict ==
  /\ process # "dead" /\ fit
  /\ fit' = FALSE
  /\ context' = None
  /\ UNCHANGED <<turn, abandoned, approvals>>

(* An abort reached the Worker, or it died or was disposed of: the signals *)
(* of the session's calls fire.  Each approval's listener ends its wait,   *)
(* whether the store can record it or not.                                 *)
FireSignals ==
  LET unfinished == {c \in Call : ~Ended(c)}
      waiting    == pending \cap unfinished
  IN  /\ process # "dead"
      /\ ~(unfinished \subseteq aborted)
      /\ aborted' = aborted \cup unfinished
      /\ \/ Resolve(waiting, "aborted", None)
         \/ StoreFails
      /\ Forget(waiting)
      /\ Reject(waiting)
      /\ UNCHANGED <<session, call, askedIn, card, late, ranIn>>

-----------------------------------------------------------------------------
(* Calls. *)
NeedsApproval(c) == GrantOf[c] \in {"requester", "admin"}

(* authorize() and the start of request(): no grant, no administrator or a *)
(* signal that has fired refuse the call; so do arguments that do not      *)
(* validate and a row that cannot be inserted.                             *)
Refused(c) ==
  \/ context = None
  \/ GrantOf[c] = "none"
  \/ GrantOf[c] = "admin" /\ Admins = {}
  \/ NeedsApproval(c) /\ c \in aborted

(* The call is asked for in whatever context is current.                   *)
Authorize(c) ==
  /\ process # "dead"
  /\ call[c] = "idle" /\ turn[TurnOf[c]] \in {"prompting", "cutOff"}
  /\ \/ /\ call' = [call EXCEPT ![c] = "done"]
        /\ UNCHANGED <<askedIn, promise, pending, row>>
     \/ /\ ~Refused(c) /\ ~NeedsApproval(c)
        /\ call' = [call EXCEPT ![c] = "cleared"]
        /\ askedIn' = [askedIn EXCEPT ![c] = context]
        /\ UNCHANGED <<promise, pending, row>>
     \/ /\ ~Refused(c) /\ NeedsApproval(c)
        /\ call' = [call EXCEPT ![c] = "sending"]
        /\ askedIn' = [askedIn EXCEPT ![c] = context]
        /\ promise' = [promise EXCEPT ![c] = "open"]
        /\ pending' = pending \cup {c}
        /\ row' = [row EXCEPT ![c] = "pending"]
  /\ UNCHANGED <<session, aborted, card, approver, late, ranIn, process>>

(* The message reaches the chat, at any time until send() settles.         *)
Deliver(c) ==
  /\ call[c] = "sending" /\ c \notin card
  /\ card' = card \cup {c}
  /\ UNCHANGED <<session, call, askedIn, aborted, promise, pending, row, approver,
                 late, ranIn, process>>

Sent(c) ==
  /\ process # "dead"
  /\ call[c] = "sending" /\ c \in card
  /\ call' = [call EXCEPT ![c] = "awaiting"]
  /\ UNCHANGED <<session, askedIn, aborted, card, promise, pending, row, approver,
                 late, ranIn, process>>

(* send() throws: the approval is given up, and so is one that a person    *)
(* already granted.  The rejection is waited for in the same step.         *)
SendFails(c) ==
  /\ process # "dead"
  /\ call[c] = "sending"
  /\ call' = [call EXCEPT ![c] = "done"]
  /\ aborted' = aborted \ {c}
  /\ Forget({c})
  /\ IF c \in pending
     THEN /\ promise' = [promise EXCEPT ![c] = "rejected"]
          /\ Resolve({c}, "aborted", None) \/ StoreFails
     ELSE UNCHANGED <<promise, row, approver>>
  /\ UNCHANGED <<session, askedIn, card, late, ranIn, process>>

(* Whose click on the card counts.                                         *)
Allowed(c) ==
  IF GrantOf[c] = "admin" THEN Admins
  ELSE {SenderOf[t] : t \in {askedIn[c]} \ {None}}

(* Mutant: what the store answered is not looked at. *)
DecideAnyway(c, who, state) ==
  /\ process # "dead"
  /\ c \in pending
  /\ Resolve({c}, state, who)
  /\ Forget({c})
  /\ IF state = "approved"
     THEN promise' = [promise EXCEPT ![c] = "resolved"] /\ UNCHANGED process
     ELSE Reject({c})
  /\ UNCHANGED <<session, call, askedIn, aborted, card, late, ranIn>>

(* resolvePending(): the store decides.  When it throws nothing changed,   *)
(* and the person may try again.                                           *)
Decide(c, who, state) ==
  /\ process # "dead"
  /\ c \in pending
  /\ Resolve({c}, state, who)
  /\ Forget({c})
  /\ IF state = "approved" /\ Undecided(c)
     THEN promise' = [promise EXCEPT ![c] = "resolved"] /\ UNCHANGED process
     ELSE Reject({c})
  /\ UNCHANGED <<session, call, askedIn, aborted, card, late, ranIn>>

CardAction(c, who, state) ==
  /\ c \in card /\ who \in Allowed(c)
  /\ Decide(c, who, state)

(* The Admin API decides what needs an administrator, after a look at the  *)
(* row that expires the rows whose time has come.  Its operator is the     *)
(* actor of the session, which the coordinator trusts.                     *)
AdminAction(c, who, state) ==
  /\ GrantOf[c] = "admin" /\ who \in Operators
  /\ Undecided(c)
  /\ Decide(c, who, state)

TimeComes(c) ==
  /\ row[c] = "pending" /\ c \notin late
  /\ late' = late \cup {c}
  /\ UNCHANGED <<session, call, askedIn, aborted, card, promise, pending, row,
                 approver, ranIn, process>>

(* Mutant: a store that fails keeps the timer from ending the call. *)
TimerFiresOrThrows(c) ==
  /\ process # "dead"
  /\ c \in pending \cap late
  /\ Forget({c})
  /\ \/ ResolveExpired(c) /\ Reject({c})
     \/ StoreFails /\ UNCHANGED <<promise, process>>
  /\ UNCHANGED <<session, call, askedIn, aborted, card, late, ranIn>>

TimerFires(c) ==
  /\ process # "dead"
  /\ c \in pending \cap late
  /\ ResolveExpired(c) \/ StoreFails
  /\ Forget({c})
  /\ Reject({c})
  /\ UNCHANGED <<session, call, askedIn, aborted, card, late, ranIn>>

(* An administrator lists the approvals, or another process opens the      *)
(* database.                                                               *)
ExpirePending ==
  /\ Overdue # {}
  /\ row' = Becomes(row, Overdue, "expired")
  /\ UNCHANGED <<session, call, askedIn, aborted, card, promise, pending, approver,
                 late, ranIn, process>>

Authorized(c) ==
  \/ call[c] = "cleared"
  \/ call[c] = "awaiting" /\ promise[c] = "resolved"

(* withTimeout() starts the tool unless its signal has fired; the tool     *)
(* takes the context that is current now.                                  *)
Start(c) ==
  /\ process # "dead"
  /\ Authorized(c) /\ c \notin aborted /\ context # None
  /\ call' = [call EXCEPT ![c] = "running"]
  /\ ranIn' = [ranIn EXCEPT ![c] = context]
  /\ UNCHANGED <<session, askedIn, aborted, card, promise, pending, row, approver,
                 late, process>>

(* Every other way out: no context or a fired signal at the start, a       *)
(* rejected approval, the tool's result, error, deadline or abort.         *)
Finish(c) ==
  /\ process # "dead"
  /\ \/ Authorized(c) /\ (c \in aborted \/ context = None)
     \/ call[c] = "awaiting" /\ promise[c] = "rejected"
     \/ call[c] = "running"
  /\ call' = [call EXCEPT ![c] = "done"]
  /\ aborted' = aborted \ {c}
  /\ UNCHANGED <<session, askedIn, card, promise, pending, row, approver,
                 late, ranIn, process>>

-----------------------------------------------------------------------------
(* host.stop(): no turn joins any more; what is left at the end of the     *)
(* drain is abandoned, and the sessions are disposed of.                   *)
Stop ==
  /\ process = "running"
  /\ process' = "stopping"
  /\ UNCHANGED <<session, call, askedIn, aborted, card, promise, pending, row,
                 approver, late, ranIn>>

(* Then the coordinator, though a handler may still be there.              *)
CoordinatorStops ==
  /\ process = "stopping" /\ ~fit
  /\ pending # {}
  /\ Resolve(pending, "aborted", None) \/ StoreFails
  /\ Forget(pending)
  /\ promise' = Becomes(promise, pending, "rejected")
  /\ UNCHANGED <<session, call, askedIn, aborted, card, late, ranIn, process>>

(* The process dies: what is not in the database is gone.  The next one    *)
(* expires what is overdue and knows none of the pending approvals.        *)
Crash ==
  /\ process # "dead"
  /\ process' = "dead"
  /\ call' = [c \in Call |-> IF Ended(c) THEN call[c] ELSE "lost"]
  /\ turn' = Becomes(turn, Handled, "over")
  /\ fit' = FALSE /\ context' = None
  /\ pending' = {} /\ aborted' = {}
  /\ UNCHANGED <<abandoned, askedIn, card, promise, row, approver, late, ranIn>>

TurnStep(t) ==
  \/ Join(t) \/ BeginTurn(t) \/ RefuseTurn(t) \/ TurnFails(t) \/ Prompt(t)
  \/ EndTurn(t) \/ Abandon(t)

Next ==
  \/ \E t \in Turn : TurnStep(t)
  \/ \E c \in Call : \/ Authorize(c) \/ Deliver(c) \/ Sent(c) \/ SendFails(c)
                     \/ TimeComes(c) \/ TimerFires(c) \/ Start(c) \/ Finish(c)
  \/ \E c \in Call, who \in Person, state \in {"approved", "denied"} :
       CardAction(c, who, state) \/ AdminAction(c, who, state)
  \/ Evict \/ FireSignals \/ ExpirePending \/ Stop \/ CoordinatorStops \/ Crash

Spec == Init /\ [][Next]_vars

(* The clock passes every deadline, armed timers fire, send() settles and  *)
(* a tool has a deadline; no abort need ever be answered.                  *)
FairSpec ==
  /\ Spec
  /\ \A c \in Call : /\ WF_vars(TimeComes(c)) /\ WF_vars(TimerFires(c))
                     /\ WF_vars(Start(c) \/ Finish(c))
                     /\ WF_vars(Sent(c) \/ SendFails(c))

-----------------------------------------------------------------------------
(* What became of an approval: the database has the last word, and memory  *)
(* speaks where the store could not record a refusal.                      *)
Granted(c) == row[c] = "approved" \/ (GrantOf[c] = "never" /\ call[c] # "idle")

Denied(c) ==
  \/ row[c] \in {"denied", "expired", "aborted"}
  \/ promise[c] = "rejected"
  \/ (row[c] = "none" /\ call[c] # "idle")

Verdict(c) ==
  IF Granted(c) THEN "granted" ELSE IF Denied(c) THEN "refused" ELSE "open"

Abstract == INSTANCE ApprovalDecision WITH
  verdict <- [c \in Call |-> Verdict(c)], performed <- {c \in Call : ranIn[c] # None}

(* The approvals implement one final verdict per call, and one start only  *)
(* of what was granted, through late clicks, expiries caused by other      *)
(* calls, failures of the store, aborts and crashes.                       *)
OneVerdict == Abstract!Spec

(* Who may decide: the sender of the message in whose context the call was *)
(* asked for; or an administrator by the card, and whoever holds an admin  *)
(* session, which the coordinator takes at its word.                       *)
MayDecide(c) == Allowed(c) \cup IF GrantOf[c] = "admin" THEN Operators ELSE {}

(* A tool that needs approval was started only if the database says that   *)
(* one of those approved it (coordinator.ts, approval-store.ts).           *)
StartedAsApproved ==
  \A c \in Call : ranIn[c] # None /\ NeedsApproval(c) =>
    row[c] = "approved" /\ approver[c] \in MayDecide(c)

(* As long as the deadline of its turn has not passed, a call is asked for *)
(* and runs in the context of that turn, never in that of another one of   *)
(* the session, however long the approval took and whatever was aborted,   *)
(* evicted or killed (turn-context.ts, tool-broker.ts).                    *)
RunsInItsTurn ==
  \A c \in Call : TurnOf[c] \notin abandoned =>
    {askedIn[c], ranIn[c]} \subseteq {None, TurnOf[c]}

(* Every call that was authorized is answered, or died with the process:   *)
(* a person who never answers, a message that was lost and a database that *)
(* fails hold it up only until the deadline.                               *)
EveryCallEnds == \A c \in Call : call[c] # "idle" ~> Ended(c)
=============================================================================
