------------------------- MODULE MCSessionRegistry -------------------------
(* Two conversations that compete for one place, two turns of the first,   *)
(* in a binding that may keep one runtime or two.                          *)
EXTENDS SessionRegistry, TLC

CONSTANTS t1, t2, t3, c1, c2, e1, e2, e3

MCConversationOf == (t1 :> c1) @@ (t2 :> c1) @@ (t3 :> c2)
=============================================================================
