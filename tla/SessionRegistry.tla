-------------------------- MODULE SessionRegistry --------------------------
(***************************************************************************)
(* The Pi runtimes of one binding: the registry that shares a runtime per  *)
(* conversation (src/src/pi/session-registry.ts), the Host-wide budget of  *)
(* resident Workers it leases from (pi/runtime-capacity.ts), the context   *)
(* of the running turn (tools/turn-context.ts), and the turn handlers,     *)
(* aborts, resets and maintenance that call them                           *)
(* (runtime/binding-runtime.ts).                                           *)
(*                                                                         *)
(* A handler whose deadline passed is detached: its conversation's queue   *)
(* goes on with the next turn while the handler still runs.                *)
(*                                                                         *)
(* Every operation under withMutation is synchronous, so a mutation is one *)
(* step.  Which idle runtime is the least recently used is left open.  An  *)
(* acquisition of a lease looks for an idle runtime in one step, asks it to *)
(* go in a second, and sleeps in a third if the runtime refuses.           *)
(***************************************************************************)
EXTENDS Integers, FiniteSets

CONSTANTS
  Turn, Conversation, ConversationOf,
  Entry,        \* SessionEntry objects that may exist at a time
  None,
  Limits,       \* what maxResidentSessions of the binding may be
  Capacity,     \* MAX_RESIDENT_PI_WORKERS of the Host
  MaxUpsets     \* bound on deadlines, exits, prunings, aborts, resets, stops

ASSUME RegistryAssumption ==
  /\ IsFiniteSet(Turn) /\ IsFiniteSet(Entry) /\ IsFiniteSet(Conversation)
  /\ ConversationOf \in [Turn -> Conversation]
  /\ None \notin Turn \cup Conversation \cup Entry
  /\ Limits \subseteq Nat \ {0}
  /\ Capacity \in Nat \ {0}
  /\ MaxUpsets \in Nat

VARIABLES
  sessions,  \* the entry of a conversation
  entry,     \* the entries, whether in `sessions` or on their way out
  turn,      \* the handlers of messages
  abort,     \* the abort() a deadline calls, and one that a user asks for
  reset,     \* a reset() of a conversation
  stopped,   \* disposeAll() was called
  upsets,    \* how many of the events MaxUpsets bounds have happened
  missed,    \* history: a startup was refused and slept beside a free place
  maxResident \* the setting of the binding, which does not change

vars == <<sessions, entry, turn, abort, reset, stopped, upsets, missed, maxResident>>

(* An entry that is not there any more, or whose promise was rejected.     *)
Gone == [stage |-> "gone", conv |-> None, reservations |-> 0, after |-> None,
         disposing |-> FALSE, leased |-> FALSE, worker |-> "none",
         context |-> None, streaming |-> FALSE]

Failed == [Gone EXCEPT !.stage = "failed"]

Inert(e) == entry[e].stage \in {"gone", "failed"}

Stages == {"gone", "failed", "waitPredecessor", "leaseWait", "leaseAsk",
           "leaseRefused", "leaseSleep", "leaseEvict", "starting", "discarding",
           "ready"}

(* Who calls abort(): the deadline of a turn, or, of a conversation, the   *)
(* command, the card or an administrator.                                  *)
Aborter == Turn \cup Conversation

Target(a) == IF a \in Turn THEN ConversationOf[a] ELSE a

TurnPCs == {"idle", "acquire", "await", "replacing", "preparing", "streaming",
            "evicting", "ended"}

TypeOK ==
  /\ sessions \in [Conversation -> Entry \cup {None}]
  /\ entry \in [Entry ->
       [stage : Stages, conv : Conversation \cup {None},
        reservations : Nat, after : Entry \cup {None},
        disposing : BOOLEAN, leased : BOOLEAN,
        worker : {"none", "live", "dead", "closing"},
        context : Turn \cup {None}, streaming : BOOLEAN]]
  /\ turn \in [Turn ->
       [pc : TurnPCs, at : Entry \cup {None}, attached : BOOLEAN]]
  /\ abort \in [Aborter ->
       [pc : {"none", "await", "asked", "evicting"}, at : Entry \cup {None}]]
  /\ reset \in [Conversation ->
       [pc : {"none", "disposing", "removing"}, at : Entry \cup {None}]]
  /\ stopped \in BOOLEAN
  /\ upsets \in 0 .. MaxUpsets
  /\ missed \in BOOLEAN
  /\ maxResident \in Limits

Resting == [pc |-> "none", at |-> None]

Init ==
  /\ sessions = [c \in Conversation |-> None]
  /\ entry = [e \in Entry |-> Gone]
  /\ turn = [t \in Turn |-> [pc |-> "idle", at |-> None, attached |-> FALSE]]
  /\ abort = [a \in Aborter |-> Resting]
  /\ reset = [c \in Conversation |-> Resting]
  /\ stopped = FALSE
  /\ upsets = 0
  /\ missed = FALSE
  /\ maxResident \in Limits

-----------------------------------------------------------------------------
Mapped(e) == \E c \in Conversation : sessions[c] = e

Available(e) == entry[e].worker = "live"

(* Mutant: the count of users is ignored. *)
IdleWhileReserved(e) ==
  /\ Mapped(e)
  /\ entry[e].stage = "ready"
  /\ ~entry[e].streaming
  /\ entry[e].context = None

(* What isIdle(), pruneIdle() and takeIdleEntryForCapacity() agree on.     *)
Idle(e) ==
  /\ Mapped(e)
  /\ entry[e].stage = "ready"
  /\ entry[e].reservations = 0
  /\ ~entry[e].streaming
  /\ entry[e].context = None

Leased == {e \in Entry : entry[e].leased}

(* notifyChange() wakes every acquisition that sleeps in waitForChange().  *)
Notify(entries) ==
  [e \in Entry |->
     IF entries[e].stage = "leaseSleep"
     THEN [entries[e] EXCEPT !.stage = "leaseWait"] ELSE entries[e]]

(* The synchronous start of disposeEntry(): it also cancels a startup.     *)
Dispose(entries, e) ==
  [x \in Entry |->
     IF x = e /\ ~Inert(x) THEN [entries[x] EXCEPT !.disposing = TRUE]
                           ELSE entries[x]]

(* releaseManagedReservation() and releaseEntryReservation(): nothing, once*)
(* the entry has left the map; touch() goes to the lease, if there is one. *)
Unreserve(entries, e) ==
  LET fewer == [entries EXCEPT ![e].reservations = IF @ > 0 THEN @ - 1 ELSE 0]
  IN  IF ~Mapped(e) THEN entries
      ELSE IF entries[e].leased THEN Notify(fewer) ELSE fewer

(* endTurn(): clears the context, whoever set it.                          *)
EndTurn(entries, e) == Unreserve([entries EXCEPT ![e].context = None], e)

Without(e) == [c \in Conversation |-> IF sessions[c] = e THEN None ELSE sessions[c]]

Goto(t, pc) == turn' = [turn EXCEPT ![t].pc = pc]

Finish(t) ==
  turn' = [turn EXCEPT ![t] = [pc |-> "ended", at |-> None, attached |-> FALSE]]

(* An entry record nothing refers to any more can stand for a new entry.   *)
Unused(e) ==
  /\ Inert(e)
  /\ \A t \in Turn : turn[t].at # e
  /\ \A a \in Aborter : abort[a].at # e
  /\ \A c \in Conversation : reset[c].at # e
  /\ \A x \in Entry : entry[x].after # e

Upset ==
  /\ upsets < MaxUpsets
  /\ upsets' = upsets + 1
  /\ UNCHANGED <<missed, maxResident>>

-----------------------------------------------------------------------------
(* The queue of the conversation runs a message: handleMessage.            *)
Arrive(t) ==
  LET c == ConversationOf[t]
  IN  /\ turn[t].pc = "idle"
      /\ ~stopped
      /\ reset[c].pc = "none"
      /\ \A u \in Turn : turn[u].attached => ConversationOf[u] # c
      /\ turn' = [turn EXCEPT ![t].pc = "acquire", ![t].attached = TRUE]
      /\ UNCHANGED <<sessions, entry, abort, reset, stopped, upsets, missed, maxResident>>

(* The synchronous start of abort(): it takes the entry it finds, if any.  *)
TakeForAbort(a) ==
  LET e == sessions[Target(a)]
  IN  /\ abort[a].pc = "none"
      /\ entry' = IF e = None THEN entry
                  ELSE [entry EXCEPT ![e].reservations = @ + 1]
      /\ abort' = IF e = None THEN abort
                  ELSE [abort EXCEPT ![a] = [pc |-> "await", at |-> e]]

(* The deadline abandons the handler and calls abort().                    *)
Deadline(t) ==
  /\ Upset
  /\ turn[t].attached
  /\ turn' = [turn EXCEPT ![t].attached = FALSE]
  /\ TakeForAbort(t)
  /\ UNCHANGED <<sessions, reset, stopped>>

(* acquireForTurn joins the entry of the conversation ...                  *)
Join(t) ==
  LET e == sessions[ConversationOf[t]]
  IN  /\ turn[t].pc = "acquire"
      /\ e # None
      /\ entry' = [entry EXCEPT ![e].reservations = @ + 1]
      /\ turn' = [turn EXCEPT ![t].pc = "await", ![t].at = e]
      /\ UNCHANGED <<sessions, abort, reset, stopped, upsets, missed, maxResident>>

Full == Cardinality({c \in Conversation : sessions[c] # None}) >= maxResident

(* ... or creates one, in place of an idle entry if the binding is full.   *)
Create(t) ==
  LET c == ConversationOf[t]
      e == CHOOSE x \in Entry : Unused(x)
  IN  /\ turn[t].pc = "acquire"
      /\ sessions[c] = None
      /\ \E x \in Entry : Unused(x)
      /\ \E out \in IF Full THEN {x \in Entry : Idle(x)} ELSE {None} :
           /\ sessions' = [Without(out) EXCEPT ![c] = e]
           /\ entry' = [Dispose(entry, out) EXCEPT ![e] =
                [Gone EXCEPT
                   !.stage = IF Full THEN "waitPredecessor" ELSE "leaseWait",
                   !.conv = c, !.reservations = 1, !.after = out]]
      /\ turn' = [turn EXCEPT ![t].pc = "await", ![t].at = e]
      /\ UNCHANGED <<abort, reset, stopped, upsets, missed, maxResident>>

(* maxResidentSessions is reached and every runtime is in use.             *)
RefuseFull(t) ==
  /\ turn[t].pc = "acquire"
  /\ sessions[ConversationOf[t]] = None
  /\ Full /\ ~\E e \in Entry : Idle(e)
  /\ Finish(t)
  /\ UNCHANGED <<sessions, entry, abort, reset, stopped, upsets, missed, maxResident>>

(* The promise of the entry was rejected.                                  *)
StartupFailed(t) ==
  /\ turn[t].pc = "await"
  /\ entry[turn[t].at].stage = "failed"
  /\ Finish(t)
  /\ UNCHANGED <<sessions, entry, abort, reset, stopped, upsets, missed, maxResident>>

(* acquireForTurn returns the runtime and beginTurn sets the context.      *)
BeginTurn(t) ==
  LET e == turn[t].at
  IN  /\ turn[t].pc = "await"
      /\ entry[e].stage = "ready" /\ Available(e)
      /\ turn[t].attached
      /\ entry[e].context = None
      /\ entry' = [entry EXCEPT ![e].context = t]
      /\ Goto(t, "preparing")
      /\ UNCHANGED <<sessions, abort, reset, stopped, upsets, missed, maxResident>>

(* The signal is aborted, or beginTurn finds another turn's context and    *)
(* throws; the finally block calls endTurn all the same.                   *)
GiveUp(t) ==
  LET e == turn[t].at
  IN  /\ turn[t].pc = "await"
      /\ entry[e].stage = "ready" /\ Available(e)
      /\ ~turn[t].attached \/ entry[e].context # None
      /\ entry' = EndTurn(entry, e)
      /\ Finish(t)
      /\ UNCHANGED <<sessions, abort, reset, stopped, upsets, missed, maxResident>>

(* The runtime is not available any more: acquireForTurn drops it, removes *)
(* it from the map if it is still there, and starts over.                  *)
Replace(t) ==
  LET e == turn[t].at
  IN  /\ turn[t].pc = "await"
      /\ entry[e].stage \in {"ready", "gone"} /\ ~Available(e)
      /\ sessions' = Without(e)
      /\ \/ /\ Mapped(e)
            /\ entry' = Dispose([entry EXCEPT ![e].reservations = @ - 1], e)
            /\ Goto(t, "replacing")
         \/ /\ ~Mapped(e)
            /\ entry' = entry
            /\ turn' = [turn EXCEPT ![t].pc = "acquire", ![t].at = None]
      /\ UNCHANGED <<abort, reset, stopped, upsets, missed, maxResident>>

Replaced(t) ==
  /\ turn[t].pc = "replacing"
  /\ Inert(turn[t].at)
  /\ turn' = [turn EXCEPT ![t].pc = "acquire", ![t].at = None]
  /\ UNCHANGED <<sessions, entry, abort, reset, stopped, upsets, missed, maxResident>>

(* The command /status only looks at the runtime it acquired.              *)
StatusReturns(t) ==
  LET e == turn[t].at
  IN  /\ turn[t].pc = "await"
      /\ entry[e].stage = "ready" /\ Available(e)
      /\ entry' = Unreserve(entry, e)
      /\ Finish(t)
      /\ UNCHANGED <<sessions, abort, reset, stopped, upsets, missed, maxResident>>

(* prepareTurnInput fails, or returns to find the signal aborted.          *)
PrepareFails(t) ==
  /\ turn[t].pc = "preparing"
  /\ entry' = EndTurn(entry, turn[t].at)
  /\ Finish(t)
  /\ UNCHANGED <<sessions, abort, reset, stopped, upsets, missed, maxResident>>

Prompt(t) ==
  LET e == turn[t].at
  IN  /\ turn[t].pc = "preparing"
      /\ turn[t].attached
      /\ Available(e)
      /\ entry' = [entry EXCEPT ![e].streaming = TRUE]
      /\ Goto(t, "streaming")
      /\ UNCHANGED <<sessions, abort, reset, stopped, upsets, missed, maxResident>>

(* The reply is streamed to its end, or fails with the Worker available.   *)
StreamEnds(t) ==
  LET e == turn[t].at
  IN  /\ turn[t].pc = "streaming"
      /\ Available(e)
      /\ entry' = EndTurn([entry EXCEPT ![e].streaming = FALSE], e)
      /\ Finish(t)
      /\ UNCHANGED <<sessions, abort, reset, stopped, upsets, missed, maxResident>>

(* The prompt times out, or the Worker is not available before it or while *)
(* it runs: evictRuntime, then endTurn.                                    *)
StreamFails(t) ==
  LET e == turn[t].at
  IN  /\ \/ turn[t].pc = "streaming"
         \/ turn[t].pc = "preparing" /\ turn[t].attached /\ ~Available(e)
      /\ sessions' = Without(e)
      /\ \/ /\ Mapped(e)
            /\ entry' = Dispose(entry, e)
            /\ Goto(t, "evicting")
         \/ /\ ~Mapped(e)
            /\ entry' = EndTurn(entry, e)
            /\ Finish(t)
      /\ UNCHANGED <<abort, reset, stopped, upsets, missed, maxResident>>

Evicted(t) ==
  /\ turn[t].pc = "evicting"
  /\ Inert(turn[t].at)
  /\ Finish(t)
  /\ UNCHANGED <<sessions, entry, abort, reset, stopped, upsets, missed, maxResident>>

-----------------------------------------------------------------------------
(* prepareEntry: the evicted predecessor is disposed of first.             *)
PredecessorGone(e) ==
  /\ entry[e].stage = "waitPredecessor"
  /\ Inert(entry[e].after)
  /\ entry' = [entry EXCEPT ![e].stage = "leaseWait", ![e].after = None]
  /\ UNCHANGED <<sessions, turn, abort, reset, stopped, upsets, missed, maxResident>>

(* The promise is rejected; startManagedSession gave its lease back.       *)
FailEntry(e) ==
  /\ sessions' = Without(e)
  /\ entry' = LET failed == [entry EXCEPT ![e] = Failed]
              IN  IF entry[e].leased THEN Notify(failed) ELSE failed
  /\ UNCHANGED <<turn, abort, reset, stopped, upsets, maxResident>>

(* A startup whose candidate refused is told so when there is a place by   *)
(* now: what announced the place came before it was among the waiters.     *)
ToldTooLate(e) ==
  /\ entry[e].stage = "leaseRefused"
  /\ Cardinality(Leased) < Capacity \/ \E x \in Entry : Idle(x)

(* disposeEntry aborted the startup while it waited for a lease.           *)
StartupCancelled(e) ==
  /\ entry[e].stage \in {"leaseWait", "leaseRefused", "leaseSleep"}
  /\ entry[e].disposing
  /\ missed' = (missed \/ ToldTooLate(e))
  /\ FailEntry(e)

(* Mutant: the budget is checked with <=.                                  *)
LeaseGrantOneMore(e) ==
  /\ entry[e].stage = "leaseWait" /\ ~entry[e].disposing
  /\ Cardinality(Leased) <= Capacity
  /\ entry' = [entry EXCEPT ![e].stage = "starting", ![e].leased = TRUE]
  /\ UNCHANGED <<sessions, turn, abort, reset, stopped, upsets, missed, maxResident>>

LeaseGrant(e) ==
  /\ entry[e].stage = "leaseWait" /\ ~entry[e].disposing
  /\ Cardinality(Leased) < Capacity
  /\ entry' = [entry EXCEPT ![e].stage = "starting", ![e].leased = TRUE]
  /\ UNCHANGED <<sessions, turn, abort, reset, stopped, upsets, missed, maxResident>>

(* The flag `evicting` of a resident: an acquisition has asked it to go.   *)
Asked(resident) ==
  \E x \in Entry : /\ entry[x].stage \in {"leaseAsk", "leaseRefused"}
                   /\ entry[x].after = resident

Candidate(resident) == Idle(resident) /\ ~Asked(resident)

(* The budget is used up: acquire() picks an idle resident ...             *)
LeasePick(e, resident) ==
  /\ entry[e].stage = "leaseWait" /\ ~entry[e].disposing
  /\ Cardinality(Leased) >= Capacity
  /\ Candidate(resident)
  /\ entry' = [entry EXCEPT ![e].stage = "leaseAsk", ![e].after = resident]
  /\ UNCHANGED <<sessions, turn, abort, reset, stopped, upsets, missed, maxResident>>

(* ... whose evict(), when its mutation comes, finds it idle still ...     *)
EvictAgrees(e) ==
  \E resident \in Entry :
    /\ entry[e].stage = "leaseAsk" /\ entry[e].after = resident
    /\ Idle(resident)
    /\ sessions' = Without(resident)
    /\ entry' = [Dispose(entry, resident) EXCEPT ![e].stage = "leaseEvict"]
    /\ UNCHANGED <<turn, abort, reset, stopped, upsets, missed, maxResident>>

ResidentGone(e) ==
  /\ entry[e].stage = "leaseEvict"
  /\ Inert(entry[e].after)
  /\ entry' = [entry EXCEPT ![e].stage = "leaseWait", ![e].after = None]
  /\ UNCHANGED <<sessions, turn, abort, reset, stopped, upsets, missed, maxResident>>

(* ... or in use again: evict() answers false, whatever happens before     *)
(* acquire() hears of it ...                                               *)
EvictRefuses(e) ==
  /\ entry[e].stage = "leaseAsk"
  /\ ~Idle(entry[e].after)
  /\ entry' = [entry EXCEPT ![e].stage = "leaseRefused"]
  /\ UNCHANGED <<sessions, turn, abort, reset, stopped, upsets, missed, maxResident>>

(* ... and sleeps until the next notifyChange(), without another look; as  *)
(* it does when nothing was idle.                                          *)
LeaseSleep(e) ==
  /\ ~entry[e].disposing
  /\ \/ entry[e].stage = "leaseRefused"
     \/ /\ entry[e].stage = "leaseWait"
        /\ Cardinality(Leased) >= Capacity
        /\ ~\E x \in Entry : Candidate(x)
  /\ entry' = [entry EXCEPT ![e].stage = "leaseSleep", ![e].after = None]
  /\ missed' = (missed \/ ToldTooLate(e))
  /\ UNCHANGED <<sessions, turn, abort, reset, stopped, upsets, maxResident>>

(* The Worker is up; activate() lets others evict it from now on.          *)
WorkerStarts(e) ==
  /\ entry[e].stage = "starting"
  /\ \/ /\ ~entry[e].disposing
        /\ entry' = Notify([entry EXCEPT ![e].stage = "ready", ![e].worker = "live"])
     \/ /\ entry[e].disposing
        /\ entry' = [entry EXCEPT ![e].stage = "discarding", ![e].worker = "closing"]
  /\ UNCHANGED <<sessions, turn, abort, reset, stopped, upsets, missed, maxResident>>

WorkerStartFails(e) ==
  entry[e].stage = "starting" /\ FailEntry(e) /\ UNCHANGED missed

Discarded(e) ==
  entry[e].stage = "discarding" /\ FailEntry(e) /\ UNCHANGED missed

WorkerExits(e) ==
  /\ Upset
  /\ entry[e].stage = "ready" /\ entry[e].worker = "live"
  /\ entry' = [entry EXCEPT ![e].worker = "dead", ![e].streaming = FALSE]
  /\ UNCHANGED <<sessions, turn, abort, reset, stopped>>

(* disposeManaged: clear the context, close the Worker ...                 *)
DisposeStarts(e) ==
  /\ entry[e].stage = "ready" /\ entry[e].disposing
  /\ entry[e].worker \in {"live", "dead"}
  /\ entry' = [entry EXCEPT ![e].worker = "closing", ![e].context = None,
                            ![e].streaming = FALSE]
  /\ UNCHANGED <<sessions, turn, abort, reset, stopped, upsets, missed, maxResident>>

(* Mutant: nobody is told that the lease is free.                          *)
DisposeEndsSilently(e) ==
  /\ entry[e].stage = "ready" /\ entry[e].worker = "closing"
  /\ entry' = [entry EXCEPT ![e] = Gone]
  /\ UNCHANGED <<sessions, turn, abort, reset, stopped, upsets, missed, maxResident>>

(* ... and give the lease back when it is closed.                          *)
DisposeEnds(e) ==
  /\ entry[e].stage = "ready" /\ entry[e].worker = "closing"
  /\ entry' = Notify([entry EXCEPT ![e] = Gone])
  /\ UNCHANGED <<sessions, turn, abort, reset, stopped, upsets, missed, maxResident>>

-----------------------------------------------------------------------------
(* abort(), by command, card or Admin.                                     *)
AbortStarts(c) ==
  /\ Upset
  /\ TakeForAbort(c)
  /\ UNCHANGED <<sessions, turn, reset, stopped>>

(* Nothing to abort: no turn has begun, or it does not stream.             *)
AbortFindsNothing(a) ==
  LET e == abort[a].at
  IN  /\ abort[a].pc = "await"
      /\ \/ Inert(e)
         \/ entry[e].stage = "ready"
              /\ (entry[e].context = None \/ ~entry[e].streaming)
      /\ entry' = Unreserve(entry, e)
      /\ abort' = [abort EXCEPT ![a] = Resting]
      /\ UNCHANGED <<sessions, turn, reset, stopped, upsets, missed, maxResident>>

AbortAsks(a) ==
  LET e == abort[a].at
  IN  /\ abort[a].pc = "await"
      /\ entry[e].stage = "ready"
      /\ entry[e].context # None /\ entry[e].streaming
      /\ abort' = [abort EXCEPT ![a].pc = "asked"]
      /\ UNCHANGED <<sessions, entry, turn, reset, stopped, upsets, missed, maxResident>>

(* The Worker answered, which nothing hurries: evict the runtime, whoever  *)
(* uses it by now.                                                         *)
AbortEvicts(a) ==
  LET e == abort[a].at
  IN  /\ abort[a].pc = "asked"
      /\ sessions' = Without(e)
      /\ entry' = IF Mapped(e) THEN Dispose(entry, e) ELSE entry
      /\ abort' = [abort EXCEPT ![a].pc = "evicting"]
      /\ UNCHANGED <<turn, reset, stopped, upsets, missed, maxResident>>

(* Mutant: no finally block.                                               *)
AbortFailsKeeping(a) ==
  /\ abort[a].pc = "asked"
  /\ abort' = [abort EXCEPT ![a] = Resting]
  /\ UNCHANGED <<sessions, entry, turn, reset, stopped, upsets, missed, maxResident>>

(* The Worker refused, died or was disposed of: the request was rejected,  *)
(* and only the reservation is given back.                                 *)
AbortFails(a) ==
  /\ abort[a].pc = "asked"
  /\ entry' = Unreserve(entry, abort[a].at)
  /\ abort' = [abort EXCEPT ![a] = Resting]
  /\ UNCHANGED <<sessions, turn, reset, stopped, upsets, missed, maxResident>>

AbortEnds(a) ==
  /\ abort[a].pc = "evicting"
  /\ Inert(abort[a].at)
  /\ abort' = [abort EXCEPT ![a] = Resting]
  /\ UNCHANGED <<sessions, entry, turn, reset, stopped, upsets, missed, maxResident>>

(* reset(), as a task of the conversation's queue.                         *)
ResetStarts(c) ==
  LET e == sessions[c]
  IN  /\ Upset
      /\ reset[c].pc = "none"
      /\ \A t \in Turn : turn[t].attached => ConversationOf[t] # c
      /\ sessions' = [sessions EXCEPT ![c] = None]
      /\ entry' = IF e = None THEN entry ELSE Dispose(entry, e)
      /\ reset' = [reset EXCEPT ![c] =
           [pc |-> IF e = None THEN "removing" ELSE "disposing", at |-> e]]
      /\ UNCHANGED <<turn, abort, stopped>>

(* The entry it found is disposed of: rm of the session directory starts.  *)
ResetRemoves(c) ==
  /\ reset[c].pc = "disposing"
  /\ Inert(reset[c].at)
  /\ reset' = [reset EXCEPT ![c] = [pc |-> "removing", at |-> None]]
  /\ UNCHANGED <<sessions, entry, turn, abort, stopped, upsets, missed, maxResident>>

ResetEnds(c) ==
  /\ reset[c].pc = "removing"
  /\ reset' = [reset EXCEPT ![c] = Resting]
  /\ UNCHANGED <<sessions, entry, turn, abort, stopped, upsets, missed, maxResident>>

(* pruneIdle(): the idle TTL passed, or the Worker is gone.                *)
PruneIdle(e) ==
  /\ Upset
  /\ Idle(e)
  /\ sessions' = Without(e)
  /\ entry' = Dispose(entry, e)
  /\ UNCHANGED <<turn, abort, reset, stopped>>

(* stop() after its drains: every handler left was told to abort.          *)
DisposeAll ==
  /\ Upset
  /\ ~stopped
  /\ stopped' = TRUE
  /\ sessions' = [c \in Conversation |-> None]
  /\ entry' = [e \in Entry |->
       IF Mapped(e) THEN [entry[e] EXCEPT !.disposing = TRUE] ELSE entry[e]]
  /\ turn' = [t \in Turn |-> [turn[t] EXCEPT !.attached = FALSE]]
  /\ UNCHANGED <<abort, reset>>

-----------------------------------------------------------------------------
TurnStep(t) ==
  \/ Join(t) \/ Create(t) \/ RefuseFull(t) \/ StartupFailed(t)
  \/ BeginTurn(t) \/ GiveUp(t) \/ StatusReturns(t) \/ Replace(t) \/ Replaced(t)
  \/ PrepareFails(t) \/ Prompt(t) \/ StreamEnds(t) \/ StreamFails(t)
  \/ Evicted(t)

StartupStep(e) ==
  \/ PredecessorGone(e) \/ StartupCancelled(e)
  \/ LeaseGrant(e) \/ (\E resident \in Entry : LeasePick(e, resident))
  \/ EvictAgrees(e) \/ ResidentGone(e) \/ EvictRefuses(e) \/ LeaseSleep(e)
  \/ WorkerStarts(e) \/ WorkerStartFails(e) \/ Discarded(e)

DisposeStep(e) == DisposeStarts(e) \/ DisposeEnds(e)

(* What goes on by itself: a request to a Worker that is gone or going is  *)
(* rejected, one to a live Worker waits for its answer without a timeout.  *)
AbortStep(a) ==
  \/ AbortFindsNothing(a) \/ AbortAsks(a) \/ AbortEnds(a)
  \/ AbortFails(a) /\ ~Available(abort[a].at)

ResetStep(c) == ResetRemoves(c) \/ ResetEnds(c)

Next ==
  \/ \E t \in Turn : Arrive(t) \/ Deadline(t) \/ TurnStep(t)
  \/ \E e \in Entry : StartupStep(e) \/ DisposeStep(e) \/ WorkerExits(e) \/ PruneIdle(e)
  \/ \E a \in Aborter : AbortStep(a) \/ AbortEvicts(a) \/ AbortFails(a)
  \/ \E c \in Conversation : AbortStarts(c) \/ ResetStarts(c) \/ ResetStep(c)
  \/ DisposeAll

(* Handlers, startups, disposals and resets go on, and aborts but for the  *)
(* Worker's answer; messages, user actions, maintenance, deadlines and     *)
(* Worker failures need not come.                                          *)
Fairness ==
  /\ \A t \in Turn : WF_vars(TurnStep(t))
  /\ \A e \in Entry : WF_vars(StartupStep(e)) /\ WF_vars(DisposeStep(e))
  /\ \A a \in Aborter : WF_vars(AbortStep(a))
  /\ \A c \in Conversation : WF_vars(ResetStep(c))

Spec == Init /\ [][Next]_vars

FairSpec == Spec /\ Fairness

-----------------------------------------------------------------------------
(* No more leases than MAX_RESIDENT_PI_WORKERS, and no Worker process      *)
(* without one, not even while it is being closed (runtime-capacity.ts,    *)
(* startManagedSession and disposeEntry).                                  *)
ResidentBound ==
  /\ Cardinality(Leased) <= Capacity
  /\ \A e \in Entry : entry[e].worker # "none" => entry[e].leased

Users(e) == {t \in Turn : turn[t].at = e
                /\ turn[t].pc \in {"await", "preparing", "streaming", "evicting"}}

Aborters(e) == {a \in Aborter : abort[a].at = e}

(* The count a runtime is kept or evicted by is the number of handlers and *)
(* aborts that use it, whatever failed, timed out or was replaced on the   *)
(* way (acquireForTurn, endTurn, abort).                                   *)
ReservationsExact ==
  \A e \in Entry : Mapped(e) =>
    entry[e].reservations = Cardinality(Users(e)) + Cardinality(Aborters(e))

(* docs/ARCHITECTURE.md, section on sessions: a runtime in use leaves the  *)
(* map only by an abort, a reset or a failed stream of its conversation,   *)
(* or by stop(), never by an idle eviction or maintenance.                 *)
UsedRuntimeKept ==
  [][ \A c \in Conversation :
        LET e == sessions[c]
        IN  e # None /\ sessions'[c] # e /\ ~Inert(e) /\ Available(e) /\ Users(e) # {} =>
              \/ stopped'
              \/ \E a \in Aborter : Target(a) = c /\ abort'[a] # abort[a]
              \/ reset'[c] # reset[c]
              \/ \E t \in Users(e) : turn'[t].pc = "evicting" ]_vars

(* A request to abort is with a live Worker, which no timer bounds.        *)
AbortUnanswered == \E a \in Aborter : abort[a].pc = "asked"

(* At every point of its way a handler goes on to its end, unless a Worker *)
(* leaves an abort unanswered or a startup missed its wake-up after a      *)
(* refused eviction: no other wake-up is lost, startups do not wait for    *)
(* each other's candidates, and no disposal waits for itself (acquire,     *)
(* waitForChange, disposeEntry).                                           *)
HandlerEnds ==
  \A t \in Turn : turn[t].pc \notin {"idle", "ended"} ~>
                    turn[t].pc = "ended" \/ AbortUnanswered \/ missed
=============================================================================
