---------------------------- MODULE MCToolCalls ----------------------------
(* Three turns of a session: the first makes a call its sender approves    *)
(* and one that needs no approval, the third one an administrator approves,*)
(* by the card or in the console.                                          *)
EXTENDS ToolCalls, TLC

CONSTANTS c1, c2, c3, sender, admin, console

MCTurn == 1 .. 3
MCTurnOf == (c1 :> 1) @@ (c2 :> 2) @@ (c3 :> 3)
MCGrantOf == (c1 :> "requester") @@ (c2 :> "never") @@ (c3 :> "admin")
MCSenderOf == [t \in Turn |-> sender]
=============================================================================
