-------------------------- MODULE ApprovalDecision --------------------------
(***************************************************************************)
(* What the approval of tool calls promises, whoever decides and however   *)
(* the process fails: a call gets at most one verdict, the verdict is      *)
(* final, and a call is performed at most once and only when it was        *)
(* granted.  A clock or a shutdown may refuse many calls at a time.        *)
(***************************************************************************)
CONSTANTS Call

VARIABLES
  verdict,   \* what was decided about each call
  performed  \* the calls whose tool was started

decision == <<verdict, performed>>

Open == {c \in Call : verdict[c] = "open"}

Init ==
  /\ verdict = [c \in Call |-> "open"]
  /\ performed = {}

Decide(granted, refused) ==
  /\ verdict' = [c \in Call |-> IF c \in granted THEN "granted"
                                ELSE IF c \in refused THEN "refused"
                                ELSE verdict[c]]
  /\ UNCHANGED performed

Perform(c) ==
  /\ verdict[c] = "granted" /\ c \notin performed
  /\ performed' = performed \cup {c}
  /\ UNCHANGED verdict

Next ==
  \/ \E granted, refused \in SUBSET Open : Decide(granted, refused)
  \/ \E c \in Call : Perform(c)

Spec == Init /\ [][Next]_decision

(* Nothing is performed that was not granted.                              *)
PerformedWasGranted == \A c \in performed : verdict[c] = "granted"
=============================================================================
