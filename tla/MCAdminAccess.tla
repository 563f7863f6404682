--------------------------- MODULE MCAdminAccess ---------------------------
(* A user authorizes and logs out while two API calls need the token; the  *)
(* link is completed twice by another account, which the server's answer   *)
(* names once; that account also logs in as an administrator.              *)
EXTENDS AdminAccess, TLC

CONSTANTS u1, u2, s1, s2, b1, b2, b3, b4, k1, k2, x1, r1

MCPurposeOf == (s1 :> u1) @@ (s2 :> Sso)
MCStateOf == (b1 :> s1) @@ (b2 :> s2) @@ (b3 :> s1) @@ (b4 :> s1)
MCDoorOf == (b1 :> "user") @@ (b2 :> "admin") @@ (b3 :> "user") @@ (b4 :> "user")
MCAccountOf == [b \in Callback |-> IF b = b4 THEN u1 ELSE u2]
MCUserOf == [k \in Caller |-> u1]
MCCookieOf == r1 :> x1
=============================================================================
