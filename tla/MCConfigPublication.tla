------------------------ MODULE MCConfigPublication ------------------------
(* Two administrators, one App and its credential with two values.         *)
EXTENDS ConfigPublication, TLC

CONSTANTS app1, cred1, m1, m2, v1, v2

MCCredentialOf == (app1 :> cred1)
=============================================================================
