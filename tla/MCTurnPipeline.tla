--------------------------- MODULE MCTurnPipeline ---------------------------
(* A small instance of TurnPipeline: two bindings share two Host-wide      *)
(* slots; binding x has one slot, two conversations and a reset task.      *)
EXTENDS TurnPipeline, TLC

CONSTANTS x, y, cx1, cx2, cy, m1, m2, m3, r1

MCConversationOf ==
  (m1 :> cx1) @@ (m2 :> cx2) @@ (m3 :> cy) @@ (r1 :> cx1)

MCBindingOf == (cx1 :> x) @@ (cx2 :> x) @@ (cy :> y)

MCBindingCapacity == (x :> 1) @@ (y :> 1)

MCMaxPending == (x :> 2) @@ (y :> 1)
=============================================================================
