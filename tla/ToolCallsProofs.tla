-------------------------- MODULE ToolCallsProofs --------------------------
(***************************************************************************)
(* For any number of turns, calls and people: a tool that needs approval   *)
(* starts only as the database says, one whose turn is within its deadline *)
(* starts in the context of that turn, and the approvals implement one     *)
(* final verdict per call.                                                 *)
(***************************************************************************)
EXTENDS ToolCalls, TLAPS

(* A call waits for a person only if its grant says so, and has a row from *)
(* then on.                                                                *)
WaitsAsGranted(c) ==
  /\ call[c] = "cleared" => GrantOf[c] = "never"
  /\ call[c] \in {"sending", "awaiting"} => NeedsApproval(c)
  /\ call[c] = "idle" => row[c] = "none" /\ ranIn[c] = None
  /\ row[c] = "none" <=> promise[c] = "none"
  /\ promise[c] # "none" => NeedsApproval(c)

(* Memory and database agree about an approval that was granted, and what  *)
(* is still open in memory was not decided by a person.                    *)
MemoryAgrees(c) ==
  /\ c \in pending => row[c] \in {"pending", "expired"}
  /\ call[c] \in {"sending", "awaiting"} => promise[c] # "none"
  /\ promise[c] = "resolved" => row[c] = "approved"
  /\ row[c] = "approved" => promise[c] = "resolved" /\ approver[c] \in MayDecide(c)

(* What was started had been authorized.                                   *)
StartedWasGranted(c) ==
  ranIn[c] # None =>
    /\ call[c] \in {"running", "done", "lost"}
    /\ GrantOf[c] = "never" \/ row[c] = "approved"

ApprovalInv ==
  \A c \in Call : WaitsAsGranted(c) /\ MemoryAgrees(c) /\ StartedWasGranted(c)

(* The queue waits for one turn at a time, and while it waits the context  *)
(* is of no other turn.  A call whose signal has not fired is of a turn    *)
(* that has not ended, or of one that was cut off: then no turn can join   *)
(* or begin any more, but for those that were abandoned.                   *)
TurnInv ==
  /\ \A t, u \in Attached : t = u
  /\ \A t \in Attached : turn[t] # "joined" => context \in {t, None}
  /\ \A t \in Turn : turn[t] = "cutOff" => ~fit
  /\ \A t \in Turn \ abandoned :
       turn[t] = "cutOff" => context = None /\ Attached = {}
  /\ \A c \in Call : ~Ended(c) /\ c \notin aborted =>
       turn[TurnOf[c]] \in {"prompting", "cutOff"}

IInv == TypeOK /\ ApprovalInv /\ TurnInv

-----------------------------------------------------------------------------
(* Initially nothing has happened.                                         *)
LEMMA InitEstablishesIInv == Init => IInv
<1> SUFFICES ASSUME Init PROVE IInv  OBVIOUS
<1> USE ToolAssumption
<1>1. TypeOK  BY DEF Init, TypeOK, Stages, TurnStages
<1>2. ApprovalInv
  BY DEF Init, ApprovalInv, WaitsAsGranted, MemoryAgrees, StartedWasGranted
<1>3. TurnInv  BY DEF Init, TurnInv, Attached, Handled, Ended
<1>4. QED  BY <1>1, <1>2, <1>3 DEF IInv

(* Decisions keep the types of the row and the approver.                   *)
LEMMA ResolveTypes ==
  ASSUME TypeOK, NEW S \in SUBSET Call,
         NEW state \in {"approved", "denied", "aborted"},
         NEW who \in Person \cup {None},
         Resolve(S, state, who)
  PROVE  /\ row' \in [Call -> {"none", "pending", "approved", "denied", "expired", "aborted"}]
         /\ approver' \in [Call -> Person \cup {None}]
  BY DEF TypeOK, Resolve, Becomes, Undecided, Overdue

LEMMA DecideTypes ==
  ASSUME TypeOK, NEW c \in Call, NEW who \in Person, NEW state \in {"approved", "denied"},
         Decide(c, who, state)
  PROVE  /\ row' \in [Call -> {"none", "pending", "approved", "denied", "expired", "aborted"}]
         /\ approver' \in [Call -> Person \cup {None}]
  BY DEF TypeOK, Decide, Resolve, Becomes, Undecided, Overdue

LEMMA RejectTypes ==
  ASSUME TypeOK, NEW S \in SUBSET Call, Reject(S)
  PROVE  /\ promise' \in [Call -> {"none", "open", "resolved", "rejected"}]
         /\ \A c \in Call : promise'[c] = IF c \in S THEN "rejected" ELSE promise[c]
         /\ process' \in {"running", "stopping", "dead"}
  BY DEF TypeOK, Reject, Becomes

(* What a turn and the registry do to the session, whatever the turn.      *)
LEMMA SessionSteps ==
  ASSUME TypeOK, (\E t \in Turn : TurnStep(t)) \/ Evict
  PROVE  /\ turn' \in [Turn -> TurnStages] /\ abandoned' \in SUBSET Turn
         /\ fit' \in BOOLEAN /\ context' \in Turn \cup {None}
         /\ UNCHANGED approvals
<1>1. CASE Evict  BY <1>1 DEF Evict, TypeOK
<1>2. ASSUME NEW t \in Turn, TurnStep(t)
      PROVE  /\ turn' \in [Turn -> TurnStages] /\ abandoned' \in SUBSET Turn
             /\ fit' \in BOOLEAN /\ context' \in Turn \cup {None}
             /\ UNCHANGED approvals
  BY <1>2 DEF TurnStep, Join, BeginTurn, RefuseTurn, TurnFails, Prompt, EndTurn, Abandon,
     Step, TypeOK, TurnStages, Attached, Handled
<1>3. QED  BY <1>1, <1>2

LEMMA TypesKept == ASSUME TypeOK, [Next]_vars PROVE TypeOK'
<1> USE ToolAssumption DEF TypeOK, Stages, TurnStages, session, durable
<1>1. ASSUME (\E t \in Turn : TurnStep(t)) \/ Evict PROVE TypeOK'
  BY <1>1, SessionSteps DEF approvals
<1>2. CASE FireSignals
  <2>1. PICK waiting \in SUBSET Call :
          /\ waiting = pending \cap {c \in Call : ~Ended(c)}
          /\ Resolve(waiting, "aborted", None) \/ StoreFails
          /\ Forget(waiting) /\ Reject(waiting)
    BY <1>2 DEF FireSignals
  <2>2. /\ row' \in [Call -> {"none", "pending", "approved", "denied", "expired", "aborted"}]
        /\ approver' \in [Call -> Person \cup {None}]
    BY <2>1, ResolveTypes DEF StoreFails
  <2>3. QED  BY <1>2, <2>1, <2>2, RejectTypes DEF FireSignals, Forget
<1>3. ASSUME NEW c \in Call, Authorize(c) PROVE TypeOK'
  BY <1>3 DEF Authorize
<1>4. ASSUME NEW c \in Call, Deliver(c) \/ Sent(c) PROVE TypeOK'
  BY <1>4 DEF Deliver, Sent
<1>5. ASSUME NEW c \in Call, SendFails(c) PROVE TypeOK'
  <2>1. /\ row' \in [Call -> {"none", "pending", "approved", "denied", "expired", "aborted"}]
        /\ approver' \in [Call -> Person \cup {None}]
    BY <1>5, ResolveTypes DEF SendFails, StoreFails
  <2>2. QED  BY <1>5, <2>1 DEF SendFails, Forget
<1>6. ASSUME NEW c \in Call, NEW who \in Person, NEW state \in {"approved", "denied"},
             Decide(c, who, state)
      PROVE  TypeOK'
  <2>1. /\ row' \in [Call -> {"none", "pending", "approved", "denied", "expired", "aborted"}]
        /\ approver' \in [Call -> Person \cup {None}]
    BY <1>6, DecideTypes
  <2>2. QED  BY <1>6, <2>1, RejectTypes DEF Decide, Forget
<1>7. ASSUME NEW c \in Call, TimeComes(c) PROVE TypeOK'
  BY <1>7 DEF TimeComes
<1>8. ASSUME NEW c \in Call, TimerFires(c) PROVE TypeOK'
  <2>1. row' \in [Call -> {"none", "pending", "approved", "denied", "expired", "aborted"}]
        /\ approver' = approver
    BY <1>8 DEF TimerFires, ResolveExpired, StoreFails, Becomes
  <2>2. QED  BY <1>8, <2>1, RejectTypes DEF TimerFires, Forget
<1>9. ASSUME NEW c \in Call, Start(c) \/ Finish(c) PROVE TypeOK'
  <2>1. CASE Start(c)
    <3>1. /\ context \in Turn /\ ranIn' = [ranIn EXCEPT ![c] = context]
          /\ call' = [call EXCEPT ![c] = "running"] /\ c \notin pending
      BY <2>1 DEF Start, Authorized
    <3>2. ranIn' \in [Call -> Turn \cup {None}] /\ call' \in [Call -> Stages]
      BY <3>1
    <3>3. \A d \in pending : call'[d] = call[d]  BY <3>1
    <3>4. QED  BY <2>1, <3>2, <3>3 DEF Start
  <2>2. CASE Finish(c)
    <3>1. c \notin pending /\ call' = [call EXCEPT ![c] = "done"]
      BY <2>2 DEF Finish, Authorized
    <3>2. QED  BY <2>2, <3>1 DEF Finish
  <2>3. QED  BY <1>9, <2>1, <2>2
<1>10. CASE ExpirePending
  BY <1>10 DEF ExpirePending, Becomes
<1>11. CASE Stop
  BY <1>11 DEF Stop, Becomes
<1>12. CASE CoordinatorStops
  <2>1. /\ row' \in [Call -> {"none", "pending", "approved", "denied", "expired", "aborted"}]
        /\ approver' \in [Call -> Person \cup {None}]
    BY <1>12, ResolveTypes DEF CoordinatorStops, StoreFails
  <2>2. QED  BY <1>12, <2>1 DEF CoordinatorStops, Forget, Becomes
<1>13. CASE Crash
  BY <1>13 DEF Crash, Becomes, Ended, Handled
<1>14. CASE UNCHANGED vars
  BY <1>14 DEF vars
<1>15. QED
  BY <1>1, <1>2, <1>3, <1>4, <1>5, <1>6, <1>7, <1>8, <1>9, <1>10, <1>11,
     <1>12, <1>13, <1>14 DEF Next, CardAction, AdminAction
-----------------------------------------------------------------------------
(* What a decision of the store does to one row.                           *)
LEMMA ResolveRows ==
  ASSUME TypeOK, NEW S \in SUBSET Call,
         NEW state \in {"approved", "denied", "aborted"},
         NEW who \in Person \cup {None},
         Resolve(S, state, who), NEW c \in Call
  PROVE  /\ row[c] # "pending" => row'[c] = row[c] /\ approver'[c] = approver[c]
         /\ row[c] = "pending" /\ (c \notin S \/ c \in late) =>
              row'[c] \in {"pending", "expired"} /\ approver'[c] = approver[c]
         /\ row[c] = "pending" /\ c \in S /\ c \notin late =>
              row'[c] = state /\ approver'[c] = who
  BY DEF TypeOK, Resolve, Becomes, Undecided, Overdue

(* A step that leaves the approvals alone but for rows that expire.        *)
LEMMA ApprovalFrame ==
  ASSUME TypeOK, ApprovalInv,
         UNCHANGED <<call, askedIn, promise, pending, approver, ranIn>>,
         \A c \in Call : row'[c] = row[c] \/ (row[c] = "pending" /\ row'[c] = "expired")
  PROVE  ApprovalInv'
<1> SUFFICES ASSUME NEW c \in Call
             PROVE  (WaitsAsGranted(c) /\ MemoryAgrees(c) /\ StartedWasGranted(c))'
  BY DEF ApprovalInv
<1>1. WaitsAsGranted(c) /\ MemoryAgrees(c) /\ StartedWasGranted(c)  BY DEF ApprovalInv
<1>2. row'[c] = row[c] \/ (row[c] = "pending" /\ row'[c] = "expired")  OBVIOUS
<1>3. QED
  BY <1>1, <1>2 DEF WaitsAsGranted, MemoryAgrees, StartedWasGranted, NeedsApproval, MayDecide, Allowed

(* A step that ends waits without granting anything.                       *)
LEMMA ApprovalRefused ==
  ASSUME TypeOK, ApprovalInv, NEW S \in SUBSET pending,
         pending' = pending \ S,
         promise' = Becomes(promise, S, "rejected"),
         UNCHANGED <<call, askedIn, ranIn>>,
         \A c \in Call :
           /\ \/ row'[c] = row[c]
              \/ row[c] = "pending" /\ row'[c] = "expired"
              \/ c \in S /\ row[c] = "pending" /\ row'[c] \in {"denied", "aborted"}
           /\ row[c] # "pending" => approver'[c] = approver[c]
  PROVE  ApprovalInv'
<1> SUFFICES ASSUME NEW c \in Call
             PROVE  (WaitsAsGranted(c) /\ MemoryAgrees(c) /\ StartedWasGranted(c))'
  BY DEF ApprovalInv
<1>1. WaitsAsGranted(c) /\ MemoryAgrees(c) /\ StartedWasGranted(c)  BY DEF ApprovalInv
<1>2. promise'[c] = IF c \in S THEN "rejected" ELSE promise[c]  BY DEF Becomes, TypeOK
<1>3. c \in S => promise[c] = "open"  BY DEF TypeOK
<1>4. QED
  BY <1>1, <1>2, <1>3 DEF WaitsAsGranted, MemoryAgrees, StartedWasGranted, NeedsApproval, MayDecide, Allowed

LEMMA ApprovalsKept == ASSUME TypeOK, ApprovalInv, [Next]_vars PROVE ApprovalInv'
<1> USE ToolAssumption
<1> DEFINE Inv(c) == WaitsAsGranted(c) /\ MemoryAgrees(c) /\ StartedWasGranted(c)
<1>0. \A c \in Call : Inv(c)  BY DEF ApprovalInv
<1>1. ASSUME (\E t \in Turn : TurnStep(t)) \/ Evict PROVE ApprovalInv'
  BY <1>1, SessionSteps, ApprovalFrame DEF approvals
<1>2. CASE FireSignals
  <2>1. PICK S \in SUBSET pending :
          /\ Resolve(S, "aborted", None) \/ StoreFails
          /\ Forget(S) /\ Reject(S)
    BY <1>2 DEF FireSignals
  <2>2. ASSUME NEW c \in Call
        PROVE  /\ \/ row'[c] = row[c]
                  \/ row[c] = "pending" /\ row'[c] = "expired"
                  \/ c \in S /\ row[c] = "pending" /\ row'[c] \in {"denied", "aborted"}
               /\ row[c] # "pending" => approver'[c] = approver[c]
    <3>1. CASE StoreFails  BY <3>1 DEF StoreFails, durable
    <3>2. CASE Resolve(S, "aborted", None)
      BY <3>2 DEF TypeOK, Resolve, Becomes, Undecided, Overdue
    <3>3. QED  BY <2>1, <3>1, <3>2
  <2>3. QED  BY <1>2, <2>1, <2>2, ApprovalRefused DEF FireSignals, Forget, Reject
<1>3. ASSUME NEW c \in Call, Authorize(c) PROVE ApprovalInv'
  <2>1. ASSUME NEW d \in Call PROVE Inv(d)'
    <3>1. Inv(d)  BY <1>0
    <3>2. CASE d # c
      BY <1>3, <3>1, <3>2 DEF Authorize, TypeOK, WaitsAsGranted, MemoryAgrees,
         StartedWasGranted, NeedsApproval, MayDecide, Allowed
    <3>3. CASE d = c
      BY <1>3, <3>1, <3>3 DEF Authorize, Refused, TypeOK, WaitsAsGranted, MemoryAgrees,
         StartedWasGranted, NeedsApproval, MayDecide, Allowed
    <3>4. QED  BY <3>2, <3>3
  <2>2. QED  BY <2>1 DEF ApprovalInv
<1>4. ASSUME NEW c \in Call, Deliver(c) PROVE ApprovalInv'
  BY <1>4, ApprovalFrame DEF Deliver
<1>5. ASSUME NEW c \in Call, Sent(c) \/ Finish(c) PROVE ApprovalInv'
  <2>1. ASSUME NEW d \in Call PROVE Inv(d)'
    BY <1>0, <1>5 DEF Sent, Finish, Authorized, TypeOK, WaitsAsGranted, MemoryAgrees,
       StartedWasGranted, NeedsApproval, MayDecide, Allowed
  <2>2. QED  BY <2>1 DEF ApprovalInv
<1>6. ASSUME NEW c \in Call, SendFails(c) PROVE ApprovalInv'
  <2>1. ASSUME NEW d \in Call PROVE Inv(d)'
    <3>1. Inv(d)  BY <1>0
    <3>2. CASE c \notin pending
      BY <1>6, <3>1, <3>2 DEF SendFails, Forget, TypeOK, WaitsAsGranted, MemoryAgrees,
         StartedWasGranted, NeedsApproval, MayDecide, Allowed
    <3>3. CASE c \in pending /\ StoreFails
      BY <1>6, <3>1, <3>3 DEF SendFails, Forget, StoreFails, durable, TypeOK,
         WaitsAsGranted, MemoryAgrees, StartedWasGranted, NeedsApproval, MayDecide, Allowed
    <3>4. CASE c \in pending /\ Resolve({c}, "aborted", None)
      <4>1. /\ \/ row'[d] = row[d]
               \/ row[d] = "pending" /\ row'[d] = "expired"
               \/ d = c /\ row[d] = "pending" /\ row'[d] = "aborted"
            /\ row[d] # "pending" => approver'[d] = approver[d]
        BY <3>4 DEF TypeOK, Resolve, Becomes, Undecided, Overdue
      <4>2. /\ call' = [call EXCEPT ![c] = "done"] /\ pending' = pending \ {c}
            /\ promise' = [promise EXCEPT ![c] = "rejected"] /\ UNCHANGED <<askedIn, ranIn>>
        BY <1>6, <3>4 DEF SendFails, Forget
      <4>3. QED
        BY <3>1, <3>4, <4>1, <4>2 DEF TypeOK, WaitsAsGranted, MemoryAgrees,
           StartedWasGranted, NeedsApproval, MayDecide, Allowed
    <3>5. QED  BY <1>6, <3>2, <3>3, <3>4 DEF SendFails
  <2>2. QED  BY <2>1 DEF ApprovalInv
<1>7. ASSUME NEW c \in Call, NEW who \in Person, NEW state \in {"approved", "denied"},
             who \in MayDecide(c), Decide(c, who, state)
      PROVE  ApprovalInv'
  <2>1. /\ Resolve({c}, state, who) /\ pending' = pending \ {c} /\ c \in pending
        /\ UNCHANGED <<call, askedIn, ranIn>>
    BY <1>7 DEF Decide, Forget
  <2>2. ASSUME NEW d \in Call
        PROVE  /\ \/ row'[d] = row[d]
                  \/ row[d] = "pending" /\ row'[d] = "expired"
                  \/ d = c /\ row[d] = "pending" /\ c \notin late /\ row'[d] = state
                     /\ approver'[d] = who
               /\ row[d] # "pending" => approver'[d] = approver[d]
    BY <2>1 DEF TypeOK, Resolve, Becomes, Undecided, Overdue
  <2>3. CASE state = "approved" /\ Undecided(c)
    <3>1. promise' = [promise EXCEPT ![c] = "resolved"]  BY <1>7, <2>3 DEF Decide
    <3>2. row'[c] = "approved" /\ approver'[c] = who
      BY <2>1, <2>3 DEF TypeOK, Resolve, Becomes, Undecided
    <3>3. ASSUME NEW d \in Call PROVE Inv(d)'
      <4>1. Inv(d)  BY <1>0
      <4>2. CASE d = c
        BY <1>7, <2>1, <2>3, <3>1, <3>2, <4>1, <4>2 DEF TypeOK, Undecided, WaitsAsGranted,
           MemoryAgrees, StartedWasGranted, NeedsApproval, MayDecide, Allowed
      <4>3. CASE d # c
        BY <2>1, <2>2, <3>1, <4>1, <4>3 DEF TypeOK, WaitsAsGranted,
           MemoryAgrees, StartedWasGranted, NeedsApproval, MayDecide, Allowed
      <4>4. QED  BY <4>2, <4>3
    <3>4. QED  BY <3>3 DEF ApprovalInv
  <2>4. CASE ~(state = "approved" /\ Undecided(c))
    <3>1. promise' = Becomes(promise, {c}, "rejected")  BY <1>7, <2>4 DEF Decide, Reject
    <3>2. ASSUME NEW d \in Call
          PROVE  /\ \/ row'[d] = row[d]
                    \/ row[d] = "pending" /\ row'[d] = "expired"
                    \/ d \in {c} /\ row[d] = "pending" /\ row'[d] \in {"denied", "aborted"}
                 /\ row[d] # "pending" => approver'[d] = approver[d]
      BY <2>2, <2>4 DEF Undecided
    <3>3. {c} \in SUBSET pending  BY <2>1
    <3>4. QED  BY <2>1, <3>1, <3>2, <3>3, ApprovalRefused
  <2>5. QED  BY <2>3, <2>4
<1>8. ASSUME NEW c \in Call, TimeComes(c) PROVE ApprovalInv'
  BY <1>8, ApprovalFrame DEF TimeComes
<1>9. ASSUME NEW c \in Call, TimerFires(c) PROVE ApprovalInv'
  <2>1. ASSUME NEW d \in Call
        PROVE  /\ \/ row'[d] = row[d]
                  \/ row[d] = "pending" /\ row'[d] = "expired"
                  \/ d \in {c} /\ row[d] = "pending" /\ row'[d] \in {"denied", "aborted"}
               /\ row[d] # "pending" => approver'[d] = approver[d]
    BY <1>9 DEF TimerFires, TypeOK, ResolveExpired, StoreFails, durable, Becomes, Overdue
  <2>2. QED
    BY <1>9, <2>1, ApprovalRefused DEF TimerFires, Forget, Reject
<1>10. ASSUME NEW c \in Call, Start(c) PROVE ApprovalInv'
  <2>1. ASSUME NEW d \in Call PROVE Inv(d)'
    BY <1>0, <1>10 DEF Start, Authorized, TypeOK, WaitsAsGranted, MemoryAgrees,
       StartedWasGranted, NeedsApproval, MayDecide, Allowed
  <2>2. QED  BY <2>1 DEF ApprovalInv
<1>11. CASE ExpirePending
  BY <1>11, ApprovalFrame DEF ExpirePending, Becomes, TypeOK, Overdue
<1>12. CASE Stop
  BY <1>12, ApprovalFrame DEF Stop
<1>13. CASE CoordinatorStops
  <2>1. ASSUME NEW d \in Call
        PROVE  /\ \/ row'[d] = row[d]
                  \/ row[d] = "pending" /\ row'[d] = "expired"
                  \/ d \in pending /\ row[d] = "pending" /\ row'[d] \in {"denied", "aborted"}
               /\ row[d] # "pending" => approver'[d] = approver[d]
    <3>1. CASE StoreFails  BY <3>1 DEF StoreFails, durable
    <3>2. CASE Resolve(pending, "aborted", None)
      BY <3>2 DEF TypeOK, Resolve, Becomes, Undecided, Overdue
    <3>3. QED  BY <1>13, <3>1, <3>2 DEF CoordinatorStops
  <2>2. QED  BY <1>13, <2>1, ApprovalRefused DEF CoordinatorStops, Forget
<1>14. CASE Crash
  <2>1. ASSUME NEW d \in Call PROVE Inv(d)'
    BY <1>0, <1>14 DEF Crash, Ended, TypeOK, WaitsAsGranted, MemoryAgrees,
       StartedWasGranted, NeedsApproval, MayDecide, Allowed
  <2>2. QED  BY <2>1 DEF ApprovalInv
<1>15. CASE UNCHANGED vars
  BY <1>15, ApprovalFrame DEF vars
<1>16. QED
  BY <1>1, <1>2, <1>3, <1>4, <1>5, <1>6, <1>7, <1>8, <1>9, <1>10, <1>11,
     <1>12, <1>13, <1>14, <1>15 DEF Next, CardAction, AdminAction, MayDecide, Allowed

-----------------------------------------------------------------------------
(* A step that begins no turn and no call, and ends none, though it may    *)
(* end or abort calls.                                                     *)
LEMMA TurnFrame ==
  ASSUME TypeOK, TurnInv, UNCHANGED session,
         \A c \in Call : ~Ended(c)' /\ c \notin aborted' => ~Ended(c) /\ c \notin aborted
  PROVE  TurnInv'
  BY DEF TypeOK, TurnInv, session, Attached, Handled

(* A handler ends whose calls have ended or were told to.                  *)
LEMMA HandlerEnds ==
  ASSUME TypeOK, TurnInv, NEW t \in Turn,
         t \in Handled, turn' = [turn EXCEPT ![t] = "over"], context' = None,
         UNCHANGED <<abandoned, fit, call, aborted>>,
         turn[t] = "prompting" => \A c \in CallsOf(t) : Ended(c) \/ c \in aborted
  PROVE  TurnInv'
<1>1. Handled' \subseteq Handled /\ t \notin Handled'
  BY DEF TypeOK, Handled
<1>2. Attached' \subseteq Attached  BY <1>1 DEF Attached
<1>3. \A u \in Turn : turn'[u] = "cutOff" => turn[u] = "cutOff"  BY DEF TypeOK
<1>4. ASSUME NEW c \in Call, ~Ended(c), c \notin aborted
      PROVE  turn'[TurnOf[c]] \in {"prompting", "cutOff"}
  <2>1. TurnOf[c] \in Turn /\ turn[TurnOf[c]] \in {"prompting", "cutOff"}
    BY <1>4, ToolAssumption DEF TurnInv
  <2>2. TurnOf[c] # t
    BY <1>4, <2>1 DEF CallsOf, Handled
  <2>3. QED  BY <2>1, <2>2 DEF TypeOK
<1>5. QED  BY <1>1, <1>2, <1>3, <1>4 DEF TurnInv, Ended

LEMMA TurnStepKeeps == ASSUME TypeOK, TurnInv, NEW t \in Turn, TurnStep(t) PROVE TurnInv'
<1> USE ToolAssumption
<1>1. CASE Join(t)
  <2>1. /\ Attached = {} /\ fit /\ turn[t] = "waiting"
        /\ turn' = [turn EXCEPT ![t] = "joined"]
        /\ UNCHANGED <<abandoned, fit, context, call, aborted>>
    BY <1>1 DEF Join, Step, approvals
  <2>2. Attached' \subseteq {t} /\ turn'[t] = "joined"
    BY <2>1 DEF TypeOK, Attached, Handled
  <2>3. \A u \in Turn : turn'[u] # "cutOff"
    BY <2>1 DEF TypeOK, TurnInv
  <2>4. \A c \in Call : ~Ended(c)' /\ c \notin aborted' => turn'[TurnOf[c]] \in {"prompting", "cutOff"}
    BY <2>1 DEF TypeOK, TurnInv, Ended
  <2>5. QED  BY <2>2, <2>3, <2>4 DEF TurnInv
<1>2. CASE BeginTurn(t)
  <2>1. /\ t \notin abandoned /\ turn[t] = "joined" /\ context' = t
        /\ turn' = [turn EXCEPT ![t] = "preparing"]
        /\ UNCHANGED <<abandoned, fit, call, aborted>>
    BY <1>2 DEF BeginTurn, Step, approvals
  <2>2. Attached = {t} /\ Attached' = {t}
    <3>1. t \in Attached  BY <2>1 DEF Attached, Handled
    <3>2. Attached' = Attached
      BY <2>1 DEF TypeOK, Attached, Handled
    <3>3. QED  BY <3>1, <3>2 DEF TurnInv
  <2>3. \A u \in Turn \ abandoned : turn[u] # "cutOff"
    BY <2>2 DEF TurnInv
  <2>4. \A u \in Turn \ abandoned : turn'[u] # "cutOff"
    BY <2>1, <2>3 DEF TypeOK
  <2>5. \A u \in Turn : turn'[u] = "cutOff" => ~fit'
    BY <2>1 DEF TypeOK, TurnInv
  <2>6. \A c \in Call : ~Ended(c)' /\ c \notin aborted' => turn'[TurnOf[c]] \in {"prompting", "cutOff"}
    BY <2>1 DEF TypeOK, TurnInv, Ended
  <2>7. QED  BY <2>1, <2>2, <2>4, <2>5, <2>6 DEF TurnInv
<1>3. CASE RefuseTurn(t) \/ TurnFails(t)
  <2>1. /\ turn[t] \in {"joined", "preparing"} /\ context' = None
        /\ turn' = [turn EXCEPT ![t] = "over"]
        /\ UNCHANGED <<abandoned, fit, call, aborted>>
    BY <1>3 DEF RefuseTurn, TurnFails, Step, approvals
  <2>2. QED  BY <2>1, HandlerEnds DEF Handled
<1>4. CASE Prompt(t)
  <2>1. /\ turn[t] = "preparing" /\ turn' = [turn EXCEPT ![t] = "prompting"]
        /\ UNCHANGED <<abandoned, fit, context, call, aborted>>
    BY <1>4 DEF Prompt, Step, approvals
  <2>2. Attached' = Attached  BY <2>1 DEF TypeOK, Attached, Handled
  <2>3. \A u \in Turn : /\ turn'[u] = "cutOff" <=> turn[u] = "cutOff"
                        /\ turn'[u] = "joined" <=> turn[u] = "joined"
                        /\ turn[u] = "prompting" => turn'[u] = "prompting"
    BY <2>1 DEF TypeOK
  <2>4. \A c \in Call : ~Ended(c)' /\ c \notin aborted' => turn'[TurnOf[c]] \in {"prompting", "cutOff"}
    BY <2>1, <2>3 DEF TurnInv, Ended
  <2>5. \A u \in Attached : turn[u] # "joined" => context \in {u, None}
    BY DEF TurnInv
  <2>6. Attached \subseteq Turn  BY DEF Attached, Handled
  <2>7. QED  BY <2>1, <2>2, <2>3, <2>4, <2>5, <2>6 DEF TurnInv
<1>5. CASE EndTurn(t)
  <2>1. /\ turn[t] = "prompting" /\ context' = None
        /\ UNCHANGED <<abandoned, fit, call, aborted>>
    BY <1>5 DEF EndTurn, Step, approvals
  <2>2. CASE turn' = [turn EXCEPT ![t] = "over"] /\ \A c \in CallsOf(t) : Ended(c) \/ c \in aborted
    BY <2>1, <2>2, HandlerEnds DEF Handled
  <2>3. CASE turn' = [turn EXCEPT ![t] = "cutOff"] /\ ~fit
    <3>1. /\ Attached' = Attached \ {t}
          /\ \A u \in Turn : turn'[u] = IF u = t THEN "cutOff" ELSE turn[u]
      BY <2>1, <2>3 DEF TypeOK, Attached, Handled
    <3>2. t \notin abandoned => Attached = {t}
      BY <2>1 DEF TurnInv, Attached, Handled
    <3>3. \A u \in Turn \ abandoned : turn'[u] = "cutOff" => Attached' = {}
      BY <3>1, <3>2 DEF TurnInv
    <3>4. \A c \in Call : ~Ended(c)' /\ c \notin aborted' => turn'[TurnOf[c]] \in {"prompting", "cutOff"}
      BY <2>1, <3>1 DEF TurnInv, Ended
    <3>5. \A u, v \in Attached' : u = v
      BY <3>1 DEF TurnInv
    <3>6. QED  BY <2>1, <2>3, <3>3, <3>4, <3>5 DEF TurnInv
  <2>4. QED  BY <1>5, <2>2, <2>3 DEF EndTurn, Step
<1>6. CASE Abandon(t)
  <2>1. abandoned' = abandoned \cup {t} /\ UNCHANGED <<turn, fit, context, call, aborted>>
    BY <1>6 DEF Abandon, approvals
  <2>2. Attached' = Attached \ {t}  BY <2>1 DEF Attached, Handled
  <2>3. QED  BY <2>1, <2>2 DEF TurnInv, Ended
<1>7. QED  BY <1>1, <1>2, <1>3, <1>4, <1>5, <1>6 DEF TurnStep

LEMMA TurnsKept == ASSUME TypeOK, TurnInv, [Next]_vars PROVE TurnInv'
<1> USE ToolAssumption
<1>1. ASSUME NEW t \in Turn, TurnStep(t) PROVE TurnInv'
  BY <1>1, TurnStepKeeps
<1>2. CASE Evict
  BY <1>2 DEF Evict, approvals, TypeOK, TurnInv, Attached, Handled, Ended
<1>3. ASSUME NEW c \in Call, Authorize(c) PROVE TurnInv'
  BY <1>3 DEF Authorize, session, TypeOK, TurnInv, Attached, Handled, Ended
<1>4. ASSUME NEW c \in Call,
             \/ Deliver(c) \/ Sent(c) \/ SendFails(c) \/ TimeComes(c) \/ TimerFires(c)
             \/ Start(c) \/ Finish(c)
      PROVE  TurnInv'
  <2>1. UNCHANGED session
    BY <1>4 DEF Deliver, Sent, SendFails, TimeComes, TimerFires, Start, Finish
  <2>2. \A d \in Call : ~Ended(d)' /\ d \notin aborted' => ~Ended(d) /\ d \notin aborted
    BY <1>4 DEF Deliver, Sent, SendFails, TimeComes, TimerFires, Start, Finish,
       Authorized, TypeOK, Ended
  <2>3. QED  BY <2>1, <2>2, TurnFrame
<1>5. ASSUME NEW c \in Call, NEW who \in Person, NEW state \in {"approved", "denied"},
             Decide(c, who, state)
      PROVE  TurnInv'
  BY <1>5, TurnFrame DEF Decide, Ended
<1>6. CASE FireSignals \/ ExpirePending \/ CoordinatorStops \/ Stop
  BY <1>6, TurnFrame DEF FireSignals, ExpirePending, CoordinatorStops, Stop, Ended
<1>7. CASE Crash
  <2>1. Handled' = {} /\ \A t \in Turn : turn'[t] = "cutOff" <=> turn[t] = "cutOff"
    BY <1>7 DEF Crash, Becomes, Handled, TypeOK
  <2>2. Attached' = {}  BY <2>1 DEF Attached
  <2>3. \A c \in Call : Ended(c)'  BY <1>7 DEF Crash, Ended, TypeOK
  <2>4. ~fit' /\ context' = None  BY <1>7 DEF Crash
  <2>5. QED  BY <2>1, <2>2, <2>3, <2>4 DEF TurnInv
<1>8. CASE UNCHANGED vars
  BY <1>8, TurnFrame DEF vars, Ended
<1>9. QED
  BY <1>1, <1>2, <1>3, <1>4, <1>5, <1>6, <1>7, <1>8
     DEF Next, CardAction, AdminAction

-----------------------------------------------------------------------------
LEMMA IInvKept == ASSUME IInv, [Next]_vars PROVE IInv'
  BY TypesKept, ApprovalsKept, TurnsKept DEF IInv

(* The inductive invariant: the types, the agreement of the coordinator's  *)
(* memory with the database, and the life of the turn's context.           *)
THEOREM IInvHolds == Spec => []IInv
<1>1. Init => IInv  BY InitEstablishesIInv
<1>2. IInv /\ [Next]_vars => IInv'  BY IInvKept
<1>3. QED  BY <1>1, <1>2, PTL DEF Spec

(* Every variable has its type, and an entry of the coordinator's map      *)
(* belongs to a call that waits for it (coordinator.ts).                   *)
THEOREM TypeCorrect == Spec => []TypeOK
<1>1. IInv => TypeOK  BY DEF IInv
<1>2. QED  BY <1>1, IInvHolds, PTL

(* A tool that needs approval is started only if the database says that    *)
(* the sender of the message it was asked for, an administrator, or, for   *)
(* an administrator's call, the holder of an admin session approved it     *)
(* (tool-broker.ts, coordinator.ts, approval-store.ts).                    *)
THEOREM OnlyApprovedToolsStart == Spec => []StartedAsApproved
<1>1. IInv => StartedAsApproved
  BY DEF IInv, ApprovalInv, StartedWasGranted, MemoryAgrees, StartedAsApproved, NeedsApproval
<1>2. QED  BY <1>1, IInvHolds, PTL

(* A call finds its own turn's context or none, as long as its turn was    *)
(* not abandoned.                                                          *)
LEMMA OwnContext ==
  ASSUME IInv, NEW c \in Call, TurnOf[c] \notin abandoned,
         turn[TurnOf[c]] \in {"prompting", "cutOff"}
  PROVE  context \in {None, TurnOf[c]}
  BY ToolAssumption DEF IInv, TurnInv, Attached, Handled

(* The calls that a step asks for or starts, and whose turns it abandons.  *)
LEMMA ContextsOfStep ==
  ASSUME IInv, [Next]_vars
  PROVE  /\ abandoned \subseteq abandoned'
         /\ \/ \E c \in Call : Authorize(c) /\ askedIn' \in {askedIn, [askedIn EXCEPT ![c] = context]}
            \/ askedIn' = askedIn
         /\ (\E c \in Call : Start(c)) \/ ranIn' = ranIn
  BY DEF Next, vars, TurnStep, Join, BeginTurn, RefuseTurn, TurnFails, Prompt, EndTurn,
     Abandon, Evict, approvals, session, Authorize, Deliver, Sent, SendFails, TimeComes,
     TimerFires, Start, Finish, CardAction, AdminAction, Decide, FireSignals,
     ExpirePending, Stop, CoordinatorStops, Crash

(* While the deadline of its turn has not passed, the context a tool takes *)
(* at its start is that of the turn that asked for it, and so is the one   *)
(* it was authorized in (turn-context.ts, tool-broker.ts).                 *)
THEOREM ToolsRunInTheirTurn == Spec => []RunsInItsTurn
<1> USE ToolAssumption
<1>1. Init => RunsInItsTurn  BY DEF Init, RunsInItsTurn
<1>2. ASSUME IInv, RunsInItsTurn, [Next]_vars PROVE RunsInItsTurn'
  <2> SUFFICES ASSUME NEW d \in Call, TurnOf[d] \notin abandoned'
               PROVE  askedIn'[d] \in {None, TurnOf[d]} /\ ranIn'[d] \in {None, TurnOf[d]}
    BY DEF RunsInItsTurn
  <2>1. TurnOf[d] \notin abandoned /\ {askedIn[d], ranIn[d]} \subseteq {None, TurnOf[d]}
    BY <1>2, ContextsOfStep DEF RunsInItsTurn
  <2>2. askedIn'[d] \in {None, TurnOf[d]}
    <3>1. ASSUME NEW c \in Call, Authorize(c),
                 askedIn' \in {askedIn, [askedIn EXCEPT ![c] = context]}
          PROVE  askedIn'[d] \in {None, TurnOf[d]}
      <4>1. CASE c = d
        BY <1>2, <2>1, <3>1, <4>1, OwnContext DEF Authorize, IInv, TypeOK
      <4>2. CASE c # d  BY <1>2, <2>1, <3>1, <4>2 DEF IInv, TypeOK
      <4>3. QED  BY <4>1, <4>2
    <3>2. QED  BY <1>2, <2>1, <3>1, ContextsOfStep
  <2>3. ranIn'[d] \in {None, TurnOf[d]}
    <3>1. ASSUME NEW c \in Call, Start(c) PROVE ranIn'[d] \in {None, TurnOf[d]}
      <4>1. ~Ended(c) /\ c \notin aborted /\ ranIn' = [ranIn EXCEPT ![c] = context]
        BY <3>1 DEF Start, Authorized, Ended
      <4>2. turn[TurnOf[c]] \in {"prompting", "cutOff"}
        BY <1>2, <4>1 DEF IInv, TurnInv
      <4>3. CASE c = d
        BY <1>2, <2>1, <4>1, <4>2, <4>3, OwnContext DEF IInv, TypeOK
      <4>4. CASE c # d  BY <1>2, <2>1, <4>1, <4>4 DEF IInv, TypeOK
      <4>5. QED  BY <4>3, <4>4
    <3>2. QED  BY <1>2, <2>1, <3>1, ContextsOfStep
  <2>4. QED  BY <2>2, <2>3
<1>3. QED  BY <1>1, <1>2, IInvHolds, PTL DEF Spec

-----------------------------------------------------------------------------
(* The refinement.  A verdict is final, whatever a step does: an approved  *)
(* row stays approved and a refusal is never followed by an approval.      *)
LEMMA RowsAreFinal ==
  ASSUME IInv, [Next]_vars, NEW c \in Call
  PROVE  /\ row[c] \in {"approved", "denied", "expired", "aborted"} => row'[c] = row[c]
         /\ row[c] = "none" /\ call[c] # "idle" => row'[c] = "none"
<1> USE ToolAssumption
<1>1. TypeOK /\ WaitsAsGranted(c) /\ MemoryAgrees(c)  BY DEF IInv, ApprovalInv
<1>2. ASSUME NEW S \in SUBSET Call, NEW state \in {"approved", "denied", "aborted"},
             NEW who \in Person \cup {None}, Resolve(S, state, who)
      PROVE  row[c] # "pending" => row'[c] = row[c]
  BY <1>1, <1>2 DEF Resolve, Undecided, Overdue
<1>3. ASSUME StoreFails PROVE row' = row  BY <1>3 DEF StoreFails, durable
<1>4. ASSUME NEW d \in Call, Authorize(d) PROVE row[c] # "pending" /\ call[c] # "idle" => row'[c] = row[c]
  BY <1>1, <1>4 DEF Authorize, TypeOK
<1>5. ASSUME NEW d \in Call, Authorize(d), row[c] # "none" PROVE row'[c] = row[c]
  BY <1>1, <1>5 DEF Authorize, TypeOK, IInv, ApprovalInv, WaitsAsGranted
<1>6. ASSUME NEW d \in Call, SendFails(d) PROVE row[c] # "pending" => row'[c] = row[c]
  BY <1>2, <1>3, <1>6 DEF SendFails
<1>7. ASSUME NEW d \in Call, NEW who \in Person, NEW state \in {"approved", "denied"},
             Decide(d, who, state)
      PROVE  row[c] # "pending" => row'[c] = row[c]
  <2>1. \E S \in SUBSET Call, to \in {"approved", "denied", "aborted"},
           p \in Person \cup {None} : Resolve(S, to, p)
    <3>1. {d} \in SUBSET Call  OBVIOUS
    <3>2. Resolve({d}, state, who)  BY <1>7 DEF Decide
    <3>3. QED  BY <3>1, <3>2
  <2>2. QED  BY <1>2, <2>1
<1>8. ASSUME NEW d \in Call, TimerFires(d) PROVE row[c] # "pending" => row'[c] = row[c]
  BY <1>1, <1>3, <1>8 DEF TimerFires, ResolveExpired, Becomes, Overdue, TypeOK
<1>9. ASSUME FireSignals \/ CoordinatorStops PROVE row[c] # "pending" => row'[c] = row[c]
  <2>1. pending \in SUBSET Call  BY <1>1 DEF TypeOK
  <2>2. \E S \in SUBSET Call : Resolve(S, "aborted", None) \/ StoreFails
    BY <1>9, <2>1 DEF FireSignals, CoordinatorStops
  <2>3. QED  BY <1>2, <1>3, <2>2
<1>10. ASSUME ExpirePending PROVE row[c] # "pending" => row'[c] = row[c]
  BY <1>1, <1>10 DEF ExpirePending, Becomes, Overdue, TypeOK
<1>11. (\E d \in Call : Authorize(d)) \/ (row[c] # "pending" => row'[c] = row[c])
  BY <1>6, <1>7, <1>8, <1>9, <1>10 DEF Next, vars, CardAction, AdminAction, TurnStep, Join, BeginTurn, RefuseTurn,
     TurnFails, Prompt, EndTurn, Abandon, Step, Evict, approvals, session, Deliver, Sent, TimeComes, Start, Finish, Stop, Crash
<1>12. QED  BY <1>4, <1>5, <1>11

(* What memory refused stays refused.                                      *)
LEMMA RefusalsAreFinal ==
  ASSUME IInv, [Next]_vars, NEW c \in Call, promise[c] = "rejected"
  PROVE  promise'[c] = "rejected"
<1> USE ToolAssumption
<1>1. TypeOK /\ WaitsAsGranted(c)  BY DEF IInv, ApprovalInv
<1>2. c \notin pending /\ call[c] # "idle"
  BY <1>1 DEF TypeOK, WaitsAsGranted
<1>3. ASSUME NEW S, Reject(S) PROVE promise'[c] = "rejected"
  BY <1>1, <1>3 DEF Reject, Becomes, TypeOK
<1>4. ASSUME NEW d \in Call, Authorize(d) \/ SendFails(d) PROVE promise'[c] = "rejected"
  BY <1>1, <1>2, <1>4 DEF Authorize, SendFails, TypeOK
<1>5. ASSUME NEW d \in Call, NEW who, NEW state, Decide(d, who, state)
      PROVE  promise'[c] = "rejected"
  BY <1>1, <1>2, <1>3, <1>5 DEF Decide, TypeOK
<1>6. ASSUME FireSignals PROVE promise'[c] = "rejected"  BY <1>3, <1>6 DEF FireSignals
<1>7. ASSUME NEW d \in Call, TimerFires(d) PROVE promise'[c] = "rejected"
  BY <1>3, <1>7 DEF TimerFires
<1>8. ASSUME CoordinatorStops PROVE promise'[c] = "rejected"
  BY <1>1, <1>8 DEF CoordinatorStops, Becomes, TypeOK
<1>9. QED
  BY <1>4, <1>5, <1>6, <1>7, <1>8 DEF Next, vars, CardAction, AdminAction, TurnStep, Join, BeginTurn, RefuseTurn,
     TurnFails, Prompt, EndTurn, Abandon, Step, Evict, approvals, session, Deliver, Sent, TimeComes, Start, Finish, ExpirePending, Stop, Crash

(* A call that was made is not unmade.                                     *)
LEMMA CallsGoOn ==
  ASSUME IInv, [Next]_vars, NEW c \in Call, call[c] # "idle"
  PROVE  call'[c] # "idle"
<1>1. TypeOK  BY DEF IInv
<1>2. QED
  BY <1>1 DEF TypeOK, Next, vars, CardAction, AdminAction, Decide, TurnStep, Join, BeginTurn,
     RefuseTurn, TurnFails, Prompt, EndTurn, Abandon, Step, Evict, approvals, session,
     Authorize, Deliver, Sent, SendFails, TimeComes, TimerFires, Start, Finish,
     FireSignals, ExpirePending, Stop, CoordinatorStops, Crash

LEMMA VerdictsAreFinal ==
  ASSUME IInv, [Next]_vars, NEW c \in Call, Verdict(c) # "open"
  PROVE  Verdict(c)' = Verdict(c)
<1>1. WaitsAsGranted(c) /\ MemoryAgrees(c) /\ TypeOK  BY DEF IInv, ApprovalInv
<1>2. IInv'  BY IInvKept
<1>3. WaitsAsGranted(c)' /\ MemoryAgrees(c)'  BY <1>2 DEF IInv, ApprovalInv
<1>4. ASSUME Granted(c) PROVE Granted(c)'
  BY <1>4, RowsAreFinal, CallsGoOn DEF Granted
<1>5. ASSUME Denied(c), ~Granted(c) PROVE Denied(c)' /\ ~Granted(c)'
  <2>1. Denied(c)'
    BY <1>5, RowsAreFinal, RefusalsAreFinal, CallsGoOn DEF Denied
  <2>2. call[c] # "idle"  BY <1>1, <1>5 DEF Denied, WaitsAsGranted
  <2>3. GrantOf[c] # "never"  BY <1>5, <2>2 DEF Granted
  <2>4. row'[c] # "approved"
    BY <1>1, <1>3, <1>5, RowsAreFinal, RefusalsAreFinal DEF Denied, MemoryAgrees
  <2>5. QED  BY <2>1, <2>3, <2>4 DEF Granted
<1>6. QED  BY <1>4, <1>5 DEF Verdict

(* The calls that a step starts.                                           *)
LEMMA StartsOfStep ==
  ASSUME IInv, [Next]_vars
  PROVE  (\E c \in Call : Start(c)) \/ ranIn' = ranIn
  BY DEF Next, vars, TurnStep, Join, BeginTurn,
     RefuseTurn, TurnFails, Prompt, EndTurn, Abandon, Step, Evict, approvals, session,
     Authorize, Deliver, Sent,
     SendFails, TimeComes, TimerFires, Finish, CardAction, AdminAction, Decide,
     FireSignals, ExpirePending, Stop, CoordinatorStops, Crash

(* A start performs a call that was granted and not performed before.      *)
LEMMA StartPerforms ==
  ASSUME IInv, NEW c \in Call, Start(c)
  PROVE  Abstract!Perform(c)
<1> USE ToolAssumption
<1>1. TypeOK /\ WaitsAsGranted(c) /\ MemoryAgrees(c) /\ StartedWasGranted(c)
  BY DEF IInv, ApprovalInv
<1>2. PICK t \in Turn : ranIn' = [ranIn EXCEPT ![c] = t]
  BY <1>1 DEF Start, TypeOK
<1>3. ranIn[c] = None  BY <1>1 DEF Start, Authorized, StartedWasGranted
<1>4. Verdict(c) = "granted"
  BY <1>1 DEF Start, Authorized, WaitsAsGranted, MemoryAgrees, Verdict, Granted
<1>5. {d \in Call : ranIn'[d] # None} = {d \in Call : ranIn[d] # None} \cup {c}
  BY <1>1, <1>2 DEF TypeOK
<1>6. ASSUME NEW d \in Call PROVE Verdict(d)' = Verdict(d)
  BY <1>1 DEF Start, Authorized, TypeOK, Verdict, Granted, Denied
<1>7. QED  BY <1>3, <1>4, <1>5, <1>6 DEF Abstract!Perform

(* Every other step decides, or does nothing that can be seen.             *)
LEMMA OthersDecide ==
  ASSUME IInv, [Next]_vars, ranIn' = ranIn
  PROVE  \E granted, refused \in SUBSET Abstract!Open : Abstract!Decide(granted, refused)
<1> DEFINE granted == {c \in Call : Verdict(c) = "open" /\ Verdict(c)' = "granted"}
           refused == {c \in Call : Verdict(c) = "open" /\ Verdict(c)' = "refused"}
<1>1. granted \in SUBSET Abstract!Open /\ refused \in SUBSET Abstract!Open
  BY DEF Abstract!Open
<1>2. ASSUME NEW c \in Call
      PROVE  Verdict(c)' = IF c \in granted THEN "granted"
                           ELSE IF c \in refused THEN "refused" ELSE Verdict(c)
  <2>1. Verdict(c)' \in {"open", "granted", "refused"}  BY DEF Verdict
  <2>2. Verdict(c) # "open" => Verdict(c)' = Verdict(c)  BY VerdictsAreFinal
  <2>3. QED  BY <2>1, <2>2
<1>3. Abstract!Decide(granted, refused)  BY <1>2 DEF Abstract!Decide
<1>4. QED  BY <1>1, <1>3

(* The approvals of the coordinator, the store and the broker implement    *)
(* one final verdict per call, and start each call at most once and only   *)
(* when it was granted (ApprovalDecision).                                 *)
THEOREM ApprovalsImplementDecision == Spec => OneVerdict
<1>1. Init => Abstract!Init
  BY ToolAssumption DEF Init, Abstract!Init, Verdict, Granted, Denied
<1>2. ASSUME IInv, [Next]_vars PROVE [Abstract!Next]_(Abstract!decision)
  <2>1. ASSUME NEW c \in Call, Start(c) PROVE Abstract!Next
    BY <1>2, <2>1, StartPerforms DEF Abstract!Next
  <2>2. CASE ranIn' = ranIn
    BY <1>2, <2>2, OthersDecide DEF Abstract!Next
  <2>3. QED  BY <1>2, <2>1, <2>2, StartsOfStep
<1>3. QED  BY <1>1, <1>2, IInvHolds, PTL DEF Spec, OneVerdict, Abstract!Spec

(* So whatever the calls do, what was started was granted, and as verdicts *)
(* are final it still is.                                                  *)
THEOREM PerformedOnlyAsGranted == Spec => []Abstract!PerformedWasGranted
<1>1. IInv => Abstract!PerformedWasGranted
  <2>1. ASSUME IInv, NEW c \in Call, ranIn[c] # None PROVE Verdict(c) = "granted"
    BY <2>1, ToolAssumption
       DEF IInv, ApprovalInv, StartedWasGranted, MemoryAgrees, TypeOK, Verdict, Granted
  <2>2. QED  BY <2>1 DEF Abstract!PerformedWasGranted
<1>2. QED  BY <1>1, IInvHolds, PTL
=============================================================================
