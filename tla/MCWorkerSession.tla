-------------------------- MODULE MCWorkerSession ---------------------------
(* Two turns that may overlap, one abort and one tool call.                *)
EXTENDS WorkerSession

CONSTANTS a1, k1
=============================================================================
