--------------------------- MODULE MCModelAccess ---------------------------
(* One session (sessions meet only when the broker stops or prunes) whose  *)
(* Workers send two requests in scope and one that asks for another model. *)
EXTENDS ModelAccess, TLC

CONSTANTS x1, r1, r2, r3

MCOwnerOf == [r \in Request |-> x1]
=============================================================================
