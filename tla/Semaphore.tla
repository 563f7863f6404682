----------------------------- MODULE Semaphore -----------------------------
(***************************************************************************)
(* The counting semaphore of src/src/core/semaphore.ts as operators on its *)
(* state: `active` slots in use and the FIFO list of `waiters`.  A module  *)
(* that owns a semaphore keeps such a record in a variable and moves the   *)
(* control state of the waiter that Release resolves.                      *)
(***************************************************************************)
EXTENDS Integers, Sequences

Semaphores(Client, capacity) ==
  [active : 0 .. capacity, waiters : Seq(Client)]

Fresh == [active |-> 0, waiters |-> <<>>]

HasFreeSlot(s, capacity) == s.active < capacity

Take(s) == [s EXCEPT !.active = @ + 1]

Wait(s, client) == [s EXCEPT !.waiters = Append(@, client)]

Waiting(s) == {s.waiters[i] : i \in DOMAIN s.waiters}

(* The waiter whose promise the next release resolves, as a set.           *)
NextServed(s) == IF s.waiters = <<>> THEN {} ELSE {Head(s.waiters)}

(* Mutant of Release: the slot is handed over and given back too.          *)
ReleaseGivesBackToo(s) ==
  [s EXCEPT !.waiters = IF @ # <<>> THEN Tail(@) ELSE @,
            !.active = IF @ > 0 THEN @ - 1 ELSE 0]

(* A release hands its slot to the first waiter and keeps the count, or    *)
(* gives the slot back when nobody waits.                                  *)
Release(s) ==
  IF s.waiters # <<>>
  THEN [s EXCEPT !.waiters = Tail(@)]
  ELSE [s EXCEPT !.active = IF @ > 0 THEN @ - 1 ELSE 0]

(* Mutant of Abandon: the aborted waiter stays in the list.                *)
AbandonForgotten(s, client) == s

(* The abort listener of a waiter splices it out of the list.              *)
Abandon(s, client) ==
  LET w == s.waiters
      at == CHOOSE i \in DOMAIN w : w[i] = client
  IN  [s EXCEPT !.waiters =
         [i \in 1 .. Len(w) - 1 |-> IF i < at THEN w[i] ELSE w[i + 1]]]
=============================================================================
