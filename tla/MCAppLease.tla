----------------------------- MODULE MCAppLease -----------------------------
(* Two Hosts; h1 has a second lease object, so that it may leak one.       *)
EXTENDS AppLease, TLC

CONSTANTS h1, h2, a1, a2, b1

MCOwnerOf == (a1 :> h1) @@ (a2 :> h1) @@ (b1 :> h2)
=============================================================================
