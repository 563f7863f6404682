----------------------------- MODULE MCLarkCli -----------------------------
(* Two Apps with executables that disagree about a command: the binding of *)
(* the first App starts and two calls run its commands, one call of the    *)
(* second App wants the command that its executable calls a write.         *)
EXTENDS LarkCli, TLC

CONSTANTS a1, a2, e1, e2, m1, start, k1, k2, k3

MCAppOf == (start :> a1) @@ (k1 :> a1) @@ (k2 :> a1) @@ (k3 :> a2)
MCExecutableOf == (a1 :> e1) @@ (a2 :> e2)
MCOperations == (a1 :> {m1}) @@ (a2 :> {m1})
MCWantedBy == (start :> Nothing) @@ (k1 :> m1) @@ (k2 :> m1) @@ (k3 :> m1)
MCRisk == [k \in Executable \X Command |-> IF k = <<e2, m1>> THEN "write" ELSE "read"]
=============================================================================
