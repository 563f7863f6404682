---------------------------- MODULE MCWorkspace ----------------------------
(* A turn that was given up and the next one, with attachments, and two    *)
(* calls of workspace.write, one of them larger than a call may be; the    *)
(* directory has place for two files and four bytes, begins empty, half    *)
(* full or beyond its limits, and the turns have a budget of three bytes.  *)
EXTENDS Workspace, TLC

CONSTANTS p1, p2, p3, t1, t2, c1, c2

File(p, size, kept) == [path |-> p, size |-> size, kept |-> kept]

MCItems ==
  (t1 :> <<File(p1, 2, TRUE), File(p2, 1, TRUE), File(p2, 1, TRUE)>>) @@
  (t2 :> <<File(p3, 2, FALSE), File(p3, 1, TRUE)>>) @@
  (c1 :> <<File(p2, 3, TRUE)>>) @@ (c2 :> <<File(p1, 4, TRUE)>>)

MCInitialFiles ==
  { [p \in Path |-> None],
    (p1 :> None) @@ (p2 :> 2) @@ (p3 :> None),
    (p1 :> 1) @@ (p2 :> 5) @@ (p3 :> 1) }
=============================================================================
