---------------------------- MODULE TurnPipeline ----------------------------
(***************************************************************************)
(* The path of one turn through src/src/runtime/binding-runtime.ts: the    *)
(* queue per conversation (core/keyed-queue.ts), the Host-wide and the     *)
(* per-binding slots (core/semaphore.ts), the deadline that abandons a     *)
(* handler without stopping it (core/timeout.ts), and the phases of stop().*)
(*                                                                         *)
(* Time is abstract: a timer may fire whenever it is armed.  A step of     *)
(* the model is what the event loop runs between two points where another  *)
(* task can run; the control states holdsGlobal, granted and unwinding     *)
(* last only for microtasks, so no timer is allowed to fire in them.       *)
(***************************************************************************)
EXTENDS Integers, Sequences, FiniteSets, Semaphore

CONSTANTS
  Turn,            \* tasks handed to the queues: messages and session resets
  ResetTask,       \* the tasks that are resets: they take no slot
  Conversation,    \* conversation keys
  Binding,         \* app-agent bindings of the Host
  ConversationOf,  \* the conversation of a task
  BindingOf,       \* the binding that owns a conversation
  GlobalCapacity,  \* MAX_CONCURRENT_TURNS_GLOBAL
  BindingCapacity, \* conversation.maxConcurrentTurns of each binding
  MaxPending       \* conversation.maxPendingTurns of each binding

ASSUME PipelineAssumption ==
  /\ IsFiniteSet(Turn)
  /\ ResetTask \subseteq Turn
  /\ ConversationOf \in [Turn -> Conversation]
  /\ BindingOf \in [Conversation -> Binding]
  /\ GlobalCapacity \in Nat \ {0}
  /\ BindingCapacity \in [Binding -> Nat \ {0}]
  /\ MaxPending \in [Binding -> Nat \ {0}]

VARIABLES
  pc,        \* where each task is
  handler,   \* handleMessage of the task has not returned yet
  queue,     \* the tasks of a conversation not settled yet, the first runs
  global,    \* the Host-wide semaphore
  local,     \* the semaphore of each binding
  accepting, \* acceptingMessages of each binding
  phase      \* how far start() and stop() of each binding got

vars == <<pc, handler, queue, global, local, accepting, phase>>

BindingOfTurn(t) == BindingOf[ConversationOf[t]]

QueueOf(t) == queue[ConversationOf[t]]

(* A task that reached the head of its queue and has not started.          *)
NextUp(t) == /\ pc[t] = "queued"
             /\ Head(QueueOf(t)) = t

HoldsBinding == {"granted", "handling", "unwinding"}
HoldsGlobal  == HoldsBinding \cup {"holdsGlobal", "bindingWait"}

GlobalHolders   == {t \in Turn : pc[t] \in HoldsGlobal}
BindingHolders(b) == {t \in Turn : BindingOfTurn(t) = b /\ pc[t] \in HoldsBinding}

PCs == {"idle", "queued", "resetting", "globalWait", "settled"} \cup HoldsGlobal

Phases == {"stopped", "running", "draining", "finishing"}

TypeOK ==
  /\ pc \in [Turn -> PCs]
  /\ handler \in [Turn -> BOOLEAN]
  /\ queue \in [Conversation -> Seq(Turn)]
  /\ \A c \in Conversation : Len(queue[c]) <= MaxPending[BindingOf[c]]
  /\ global \in Semaphores(Turn, GlobalCapacity)
  /\ DOMAIN local = Binding
  /\ \A b \in Binding : local[b] \in Semaphores(Turn, BindingCapacity[b])
  /\ accepting \in [Binding -> BOOLEAN]
  /\ phase \in [Binding -> Phases]

Init ==
  /\ pc = [t \in Turn |-> "idle"]
  /\ handler = [t \in Turn |-> FALSE]
  /\ queue = [c \in Conversation |-> <<>>]
  /\ global = Fresh
  /\ local = [b \in Binding |-> Fresh]
  /\ accepting = [b \in Binding |-> FALSE]
  /\ phase = [b \in Binding |-> "stopped"]

-----------------------------------------------------------------------------
(* The task's promise settles: the queue forgets it and runs the next one. *)
Dequeue(t) == queue' = [queue EXCEPT ![ConversationOf[t]] = Tail(@)]

(* A message is queued while the binding accepts messages; the Admin reset *)
(* does not ask.  A full queue refuses both.                               *)
Admitted(t) ==
  /\ t \in ResetTask \/ accepting[BindingOfTurn(t)]
  /\ Len(QueueOf(t)) < MaxPending[BindingOfTurn(t)]

Enqueue(t) ==
  /\ pc[t] = "idle"
  /\ Admitted(t)
  /\ pc' = [pc EXCEPT ![t] = "queued"]
  /\ queue' = [queue EXCEPT ![ConversationOf[t]] = Append(@, t)]
  /\ UNCHANGED <<handler, global, local, accepting, phase>>

Refuse(t) ==
  /\ pc[t] = "idle"
  /\ ~Admitted(t)
  /\ pc' = [pc EXCEPT ![t] = "settled"]
  /\ UNCHANGED <<handler, queue, global, local, accepting, phase>>

(* queuedTurnTtlSeconds passed before the task started.                    *)
ExpireQueued(t) ==
  /\ NextUp(t) /\ t \notin ResetTask
  /\ pc' = [pc EXCEPT ![t] = "settled"]
  /\ Dequeue(t)
  /\ UNCHANGED <<handler, global, local, accepting, phase>>

(* acquireTurnSlots takes the Host-wide slot first, then the binding's.    *)
AcquireGlobal(t) ==
  /\ NextUp(t) /\ t \notin ResetTask
  /\ \/ /\ HasFreeSlot(global, GlobalCapacity)
        /\ global' = Take(global)
        /\ pc' = [pc EXCEPT ![t] = "holdsGlobal"]
     \/ /\ ~HasFreeSlot(global, GlobalCapacity)
        /\ global' = Wait(global, t)
        /\ pc' = [pc EXCEPT ![t] = "globalWait"]
  /\ UNCHANGED <<handler, queue, local, accepting, phase>>

AcquireBinding(t) ==
  LET b == BindingOfTurn(t)
  IN  /\ pc[t] = "holdsGlobal"
      /\ \/ /\ HasFreeSlot(local[b], BindingCapacity[b])
            /\ local' = [local EXCEPT ![b] = Take(@)]
            /\ pc' = [pc EXCEPT ![t] = "granted"]
         \/ /\ ~HasFreeSlot(local[b], BindingCapacity[b])
            /\ local' = [local EXCEPT ![b] = Wait(@, t)]
            /\ pc' = [pc EXCEPT ![t] = "bindingWait"]
      /\ UNCHANGED <<handler, queue, global, accepting, phase>>

(* The slot timer fires while the turn waits for the Host-wide slot.       *)
GlobalWaitTimeout(t) ==
  /\ pc[t] = "globalWait"
  /\ global' = Abandon(global, t)
  /\ pc' = [pc EXCEPT ![t] = "settled"]
  /\ Dequeue(t)
  /\ UNCHANGED <<handler, local, accepting, phase>>

(* ... or for the binding's: the Host-wide slot is given back.             *)
BindingWaitTimeout(t) ==
  LET b == BindingOfTurn(t)
  IN  /\ pc[t] = "bindingWait"
      /\ local' = [local EXCEPT ![b] = Abandon(@, t)]
      /\ global' = Release(global)
      /\ pc' = [u \in Turn |->
                  CASE u = t -> "settled"
                    [] u # t /\ u \in NextServed(global) -> "holdsGlobal"
                    [] OTHER -> pc[u]]
      /\ Dequeue(t)
      /\ UNCHANGED <<handler, accepting, phase>>

(* handleMessage starts; it returns at once when the binding has stopped   *)
(* accepting messages since the turn was queued.                           *)
EnterHandler(t) ==
  /\ pc[t] = "granted"
  /\ \/ /\ accepting[BindingOfTurn(t)]
        /\ handler' = [handler EXCEPT ![t] = TRUE]
        /\ pc' = [pc EXCEPT ![t] = "handling"]
     \/ /\ ~accepting[BindingOfTurn(t)]
        /\ handler' = handler
        /\ pc' = [pc EXCEPT ![t] = "unwinding"]
  /\ UNCHANGED <<queue, global, local, accepting, phase>>

(* handleMessage returns or throws, before or after its deadline.          *)
HandlerReturns(t) ==
  /\ handler[t]
  /\ handler' = [handler EXCEPT ![t] = FALSE]
  /\ pc' = [pc EXCEPT ![t] = IF @ = "handling" THEN "unwinding" ELSE @]
  /\ UNCHANGED <<queue, global, local, accepting, phase>>

(* Mutant of TurnDeadline: the deadline signals handleMessage and waits.   *)
TurnDeadlineWaits(t) ==
  /\ pc[t] = "handling"
  /\ UNCHANGED vars

(* withTimeout rejects; handleMessage is told to abort and keeps running.  *)
TurnDeadline(t) ==
  /\ pc[t] = "handling"
  /\ pc' = [pc EXCEPT ![t] = "unwinding"]
  /\ UNCHANGED <<handler, queue, global, local, accepting, phase>>

(* The finally block: release the binding's slot, then the Host-wide one.  *)
Unwind(t) ==
  LET b == BindingOfTurn(t)
  IN  /\ pc[t] = "unwinding"
      /\ local' = [local EXCEPT ![b] = Release(@)]
      /\ global' = Release(global)
      /\ pc' = [u \in Turn |->
                  CASE u = t -> "settled"
                    [] u # t /\ u \in NextServed(local[b]) -> "granted"
                    [] u # t /\ u \notin NextServed(local[b])
                         /\ u \in NextServed(global) -> "holdsGlobal"
                    [] OTHER -> pc[u]]
      /\ Dequeue(t)
      /\ UNCHANGED <<handler, accepting, phase>>

StartReset(t) ==
  /\ NextUp(t) /\ t \in ResetTask
  /\ pc' = [pc EXCEPT ![t] = "resetting"]
  /\ UNCHANGED <<handler, queue, global, local, accepting, phase>>

FinishReset(t) ==
  /\ pc[t] = "resetting"
  /\ pc' = [pc EXCEPT ![t] = "settled"]
  /\ Dequeue(t)
  /\ UNCHANGED <<handler, global, local, accepting, phase>>

-----------------------------------------------------------------------------
(* start(): accepting follows dependencyReady, which prepare() computed.   *)
Start(b) ==
  /\ phase[b] = "stopped"
  /\ phase' = [phase EXCEPT ![b] = "running"]
  /\ \E dependencyReady \in BOOLEAN :
       accepting' = [accepting EXCEPT ![b] = dependencyReady]
  /\ UNCHANGED <<pc, handler, queue, global, local>>

Stop(b) ==
  /\ phase[b] = "running"
  /\ phase' = [phase EXCEPT ![b] = "draining"]
  /\ accepting' = [accepting EXCEPT ![b] = FALSE]
  /\ UNCHANGED <<pc, handler, queue, global, local>>

(* KeyedQueue.onIdle(): no conversation of the binding has a task left.    *)
QueuesIdle(b) == \A c \in Conversation : BindingOf[c] = b => queue[c] = <<>>

Drained(b) ==
  /\ phase[b] = "draining"
  /\ QueuesIdle(b)
  /\ phase' = [phase EXCEPT ![b] = "finishing"]
  /\ UNCHANGED <<pc, handler, queue, global, local, accepting>>

(* Mutant of DrainTimeout: the turns are not aborted.                      *)
DrainTimeoutLeavesTurns(b) ==
  /\ phase[b] = "draining"
  /\ phase' = [phase EXCEPT ![b] = "finishing"]
  /\ UNCHANGED <<pc, handler, queue, global, local, accepting>>

(* The drain timed out: abortActiveTurns aborts every registered turn.     *)
DrainTimeout(b) ==
  /\ phase[b] = "draining"
  /\ phase' = [phase EXCEPT ![b] = "finishing"]
  /\ pc' = [t \in Turn |-> IF BindingOfTurn(t) = b /\ pc[t] = "handling"
                             THEN "unwinding" ELSE pc[t]]
  /\ UNCHANGED <<handler, queue, global, local, accepting>>

(* Mutant of StopReturns: stop() waits for every handler to return.        *)
StopReturnsAfterHandlers(b) ==
  /\ phase[b] = "finishing"
  /\ \A t \in Turn : BindingOfTurn(t) = b => ~handler[t]
  /\ phase' = [phase EXCEPT ![b] = "stopped"]
  /\ UNCHANGED <<pc, handler, queue, global, local, accepting>>

(* Session abort, second drain and disposal each end by themselves or by   *)
(* their own timeout, and touch nothing of this module.                    *)
StopReturns(b) ==
  /\ phase[b] = "finishing"
  /\ phase' = [phase EXCEPT ![b] = "stopped"]
  /\ UNCHANGED <<pc, handler, queue, global, local, accepting>>

-----------------------------------------------------------------------------
TurnStep(t) ==
  \/ ExpireQueued(t) \/ AcquireGlobal(t) \/ AcquireBinding(t)
  \/ GlobalWaitTimeout(t) \/ BindingWaitTimeout(t)
  \/ EnterHandler(t) \/ TurnDeadline(t) \/ Unwind(t)
  \/ StartReset(t) \/ FinishReset(t)

StopStep(b) == Drained(b) \/ DrainTimeout(b) \/ StopReturns(b)

Next ==
  \/ \E t \in Turn : Enqueue(t) \/ Refuse(t) \/ HandlerReturns(t) \/ TurnStep(t)
  \/ \E b \in Binding : Start(b) \/ Stop(b) \/ StopStep(b)

(* Timers and microtasks run; whether a handler returns, a message arrives *)
(* or the Host starts and stops a binding is up to the environment.        *)
Fairness ==
  /\ \A t \in Turn : WF_vars(TurnStep(t))
  /\ \A b \in Binding : WF_vars(StopStep(b))

Spec == Init /\ [][Next]_vars

FairSpec == Spec /\ Fairness

-----------------------------------------------------------------------------
(* Every slot in use has exactly one owner, in both semaphores: no path    *)
(* through the timeouts, aborts and hand-overs leaks or doubles a slot     *)
(* (binding-runtime.ts acquireTurnSlots and the finally of enqueue).       *)
SlotsAccounted ==
  /\ global.active = Cardinality(GlobalHolders)
  /\ \A b \in Binding : local[b].active = Cardinality(BindingHolders(b))

(* A turn waits for a slot only while every slot is in use, and every      *)
(* waiter listed is a turn still waiting (semaphore.ts release, abort).    *)
NoLostGrant ==
  /\ global.waiters # <<>> => global.active = GlobalCapacity
  /\ Waiting(global) = {t \in Turn : pc[t] = "globalWait"}
  /\ \A b \in Binding :
       /\ local[b].waiters # <<>> => local[b].active = BindingCapacity[b]
       /\ Waiting(local[b]) =
            {t \in Turn : BindingOfTurn(t) = b /\ pc[t] = "bindingWait"}

(* Once stop() has returned, no turn of the binding runs with a live       *)
(* signal: what is left of a handler is one that was told to abort.        *)
NoHandlerOutlivesStop ==
  \A b \in Binding : phase[b] = "stopped" =>
    \A t \in Turn : BindingOfTurn(t) = b => pc[t] # "handling"

(* Every queued task settles although no handler is ever assumed to        *)
(* return: deadlines keep the queue moving.                                *)
QueuedTaskSettles ==
  \A t \in Turn : pc[t] = "queued" ~> pc[t] = "settled"

(* stop() returns although no handler is ever assumed to return.           *)
StopTerminates ==
  \A b \in Binding : phase[b] = "draining" ~> phase[b] = "stopped"
=============================================================================
