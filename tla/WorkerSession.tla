--------------------------- MODULE WorkerSession ----------------------------
(***************************************************************************)
(* One Pi session in a process of its own: ProcessAgentSession in the Host *)
(* (pi/process-session.ts), pi/worker.ts in the child, the two ordered IPC *)
(* channels between them, and the turn that listens to the reply           *)
(* (pi/stream-session.ts, pi/text-delta-bridge.ts).                        *)
(*                                                                         *)
(* An event, a result or a tool call is its request id; of the status only *)
(* the flag available is kept.  Timers may fire whenever they are armed.   *)
(* 'error' events of the ChildProcess (it could not be spawned) and a      *)
(* Worker that lives on without its channel are left out.                  *)
(***************************************************************************)
EXTENDS Naturals, Sequences, FiniteSets, SequencesExt

CONSTANTS
  MaxPrompts, \* bounds the turns: their prompts have the ids 1, 2, ...
  Aborts,     \* request ids of aborts: bounds how many are sent
  Dispose,    \* the request id of the dispose message
  Tools,      \* request ids of tool calls: bounds how many are made
  MaxDeltas,  \* bounds the text deltas of one run
  None

Prompts == 1 .. MaxPrompts

ASSUME WorkerAssumption ==
  /\ IsFiniteSet(Aborts) /\ IsFiniteSet(Tools)
  /\ MaxPrompts \in Nat /\ MaxDeltas \in Nat
  /\ Prompts \cap Aborts = {}
  /\ Dispose \notin Prompts \cup Aborts
  /\ None \notin Prompts

VARIABLES
  \* the Host
  startup,    \* create(): waiting for the Worker, ready, or failed
  call,       \* each request: open while it is in the map `pending'
  abandoned,  \* turns whose withTimeout fired: they listen no longer
  heard,      \* the deltas of each prompt that each turn's listener received
  toolRun,    \* the execution of each tool call by the broker
  disposal,   \* dispose(): not called, in its grace period, done
  exitSeen,   \* the 'exit' event was handled
  available,  \* currentStatus.available
  revoked,    \* the model capability was revoked
  \* the Worker
  worker,     \* its life
  killed,     \* a signal was sent to it, or it ended
  active,     \* activePromptId
  run,        \* what Pi does with the active prompt
  waiters,    \* requests that wait in session.abort()
  emitted,    \* the deltas each prompt produced
  toolCall,   \* each tool call, as the Worker sees it
  \* the channels
  toWorker, toHost

hostVars   == <<startup, call, abandoned, heard, toolRun, disposal, exitSeen,
                available, revoked>>
workerVars == <<active, run, waiters, emitted, toolCall>>
vars == <<hostVars, workerVars, worker, killed, toWorker, toHost>>

Requests == Prompts \cup Aborts \cup {Dispose}

Message(type, id) == [type |-> type, id |-> id]

ToWorker == [type : {"prompt"}, id : Prompts] \cup [type : {"abort"}, id : Aborts]
              \cup [type : {"dispose"}, id : {Dispose}]
              \cup [type : {"tool_result"}, id : Tools]

ToHost == [type : {"ready", "fatal"}, id : {None}]
            \cup [type : {"event"}, id : Prompts]
            \cup [type : {"result", "error"}, id : Requests]
            \cup [type : {"tool_request", "tool_cancel"}, id : Tools]

TypeOK ==
  /\ startup \in {"waiting", "ready", "failed"}
  /\ call \in [Requests -> {"idle", "open", "answered", "failed"}]
  /\ abandoned \subseteq Prompts
  /\ heard \in [Prompts -> [Prompts -> Nat]]
  /\ toolRun \in [Tools -> {"none", "running", "aborted", "ended"}]
  /\ disposal \in {"none", "grace", "done"}
  /\ exitSeen \in BOOLEAN /\ available \in BOOLEAN /\ revoked \in BOOLEAN
  /\ worker \in {"starting", "unusable", "up", "closing", "exiting", "hung", "gone"}
  /\ killed \in BOOLEAN
  /\ active \in Prompts \cup {None}
  /\ run \in {"idle", "running", "stopping"}
  /\ run # "idle" => active # None
  /\ waiters \subseteq Aborts \cup {Dispose}
  /\ emitted \in [Prompts -> 0 .. MaxDeltas]
  /\ toolCall \in [Tools -> {"none", "waiting", "over"}]
  /\ toWorker \in Seq(ToWorker)
  /\ toHost \in Seq(ToHost)

(* fork() and the init message.                                            *)
Init ==
  /\ startup = "waiting"
  /\ call = [r \in Requests |-> "idle"]
  /\ abandoned = {}
  /\ heard = [p \in Prompts |-> [q \in Prompts |-> 0]]
  /\ toolRun = [k \in Tools |-> "none"]
  /\ disposal = "none"
  /\ exitSeen = FALSE
  /\ available = TRUE
  /\ revoked = FALSE
  /\ worker = "starting"
  /\ killed = FALSE
  /\ active = None
  /\ run = "idle"
  /\ waiters = {}
  /\ emitted = [p \in Prompts |-> 0]
  /\ toolCall = [k \in Tools |-> "none"]
  /\ toWorker = <<>>
  /\ toHost = <<>>

-----------------------------------------------------------------------------
(* this.child: the exit handler and dispose() set it to undefined.         *)
Child == disposal = "none" /\ ~exitSeen

(* child.connected may still be true when the process is gone.             *)
Connected == IF worker = "gone" THEN BOOLEAN ELSE {TRUE}

Open == {r \in Requests : call[r] = "open"}

(* A process that exits, hangs or is dead takes no message any more.       *)
Deaf == worker \in {"exiting", "hung", "gone"}

Post(m) == toWorker' = IF Deaf THEN toWorker ELSE Append(toWorker, m)

KindOf(r) == IF r \in Prompts THEN "prompt" ELSE "abort"

(* The request is open until its answer comes; when the process is gone    *)
(* the callback of send() may report it, before the exit event does.       *)
Send(kind, r) ==
  /\ \/ call' = [call EXCEPT ![r] = "open"]
     \/ worker = "gone" /\ call' = [call EXCEPT ![r] = "failed"]
  /\ Post(Message(kind, r))

(* Mutant of Listening: an abort closes the stream of the turn.            *)
ListeningUntilAbort(p) == /\ call[p] = "open" /\ p \notin abandoned
                          /\ Open \cap Aborts = {}

(* bridgeTextDeltas is subscribed until its prompt settles or times out.   *)
Listening(p) == call[p] = "open" /\ p \notin abandoned

(* updateStatus: disposed, or no child, or the channel is closed.          *)
StatusAvailable == IF Child THEN Connected ELSE {FALSE}

RejectCalls == call' = [r \in Requests |-> IF call[r] = "open" THEN "failed"
                                                               ELSE call[r]]

(* Mutant of AbortTools: the controllers are only forgotten.               *)
AbortToolsForgets == toolRun' = toolRun

(* The calls of this moment are aborted, not one that arrives later.       *)
AbortTools == toolRun' = [k \in Tools |->
                            IF toolRun[k] = "running" THEN "aborted" ELSE toolRun[k]]

RejectAll == RejectCalls /\ AbortTools

FailStartup == startup' = IF startup = "waiting" THEN "failed" ELSE startup

-----------------------------------------------------------------------------
(* Ids of prompts are used in their order.                                 *)
Unused(r) == /\ call[r] = "idle"
             /\ r \in Prompts => \A p \in Prompts : p < r => call[p] # "idle"

(* prompt() and abort().  Two turns may overlap: a turn past its deadline  *)
(* leaves its handler and its prompt behind.                               *)
Ask(r) ==
  /\ startup = "ready" /\ Child
  /\ Unused(r)
  /\ Send(KindOf(r), r)
  /\ UNCHANGED <<startup, abandoned, heard, toolRun, disposal, exitSeen,
                 available, revoked, workerVars, worker, killed, toHost>>

(* assertAlive throws; abort() of a session without a child just returns.  *)
Refuse(r) ==
  /\ startup = "ready" /\ ~Child
  /\ Unused(r)
  /\ call' = [call EXCEPT ![r] = "failed"]
  /\ UNCHANGED <<startup, abandoned, heard, toolRun, disposal, exitSeen,
                 available, revoked, workerVars, worker, killed, toWorker, toHost>>

(* withTimeout around prompt() rejects and calls abort(); the request      *)
(* itself stays open.                                                      *)
TurnTimeout(p) ==
  /\ call[p] = "open" /\ p \notin abandoned
  /\ abandoned' = abandoned \cup {p}
  /\ \/ /\ Child
        /\ \E a \in Aborts : call[a] = "idle" /\ Send("abort", a)
     \/ ~Child /\ UNCHANGED <<call, toWorker>>
  /\ UNCHANGED <<startup, heard, toolRun, disposal, exitSeen, available, revoked,
                 workerVars, worker, killed, toHost>>

StartupTimeout ==
  /\ startup = "waiting"
  /\ startup' = "failed"
  /\ UNCHANGED <<call, abandoned, heard, toolRun, disposal, exitSeen, available,
                 revoked, workerVars, worker, killed, toWorker, toHost>>

-----------------------------------------------------------------------------
(* The Host handles the oldest message of the Worker.                      *)
Arrives(type) == /\ toHost # <<>> /\ Head(toHost).type = type
                 /\ toHost' = Tail(toHost)

Arrived == Head(toHost).id

OnReady ==
  /\ Arrives("ready")
  /\ startup' = IF startup = "waiting" THEN "ready" ELSE startup
  /\ available' \in StatusAvailable
  /\ UNCHANGED <<call, abandoned, heard, toolRun, disposal, exitSeen, revoked,
                 workerVars, worker, killed, toWorker>>

(* Every listener is told, whatever prompt the event is of.                *)
OnEvent ==
  /\ Arrives("event")
  /\ heard' = [p \in Prompts |-> IF Listening(p)
                                  THEN [heard[p] EXCEPT ![Arrived] = @ + 1]
                                  ELSE heard[p]]
  /\ UNCHANGED <<startup, call, abandoned, toolRun, disposal, exitSeen, available,
                 revoked, workerVars, worker, killed, toWorker>>

(* The answer to dispose carries no status.                                *)
OnResult ==
  /\ Arrives("result")
  /\ call' = [call EXCEPT ![Arrived] = IF @ = "open" THEN "answered" ELSE @]
  /\ IF Arrived = Dispose THEN available' = available
                          ELSE available' \in StatusAvailable
  /\ UNCHANGED <<startup, abandoned, heard, toolRun, disposal, exitSeen, revoked,
                 workerVars, worker, killed, toWorker>>

OnError ==
  /\ Arrives("error")
  /\ call' = [call EXCEPT ![Arrived] = IF @ = "open" THEN "failed" ELSE @]
  /\ UNCHANGED <<startup, abandoned, heard, toolRun, disposal, exitSeen, available,
                 revoked, workerVars, worker, killed, toWorker>>

(* Also after the exit and after dispose(): the broker is asked, with the  *)
(* signal of a new controller.                                             *)
OnToolRequest ==
  /\ Arrives("tool_request")
  /\ toolRun' = [toolRun EXCEPT ![Arrived] = "running"]
  /\ UNCHANGED <<startup, call, abandoned, heard, disposal, exitSeen, available,
                 revoked, workerVars, worker, killed, toWorker>>

OnToolCancel ==
  /\ Arrives("tool_cancel")
  /\ toolRun' = [toolRun EXCEPT ![Arrived] = IF @ = "running" THEN "aborted" ELSE @]
  /\ UNCHANGED <<startup, call, abandoned, heard, disposal, exitSeen, available,
                 revoked, workerVars, worker, killed, toWorker>>

OnFatal ==
  /\ Arrives("fatal")
  /\ RejectAll
  /\ FailStartup
  /\ killed' = (killed \/ Child)
  /\ UNCHANGED <<abandoned, heard, disposal, exitSeen, available, revoked,
                 workerVars, worker, toWorker>>

(* broker.execute returns, throws or times out; either way it is answered, *)
(* as long as there is a child.                                            *)
ToolEnds(k) ==
  /\ toolRun[k] \in {"running", "aborted"}
  /\ toolRun' = [toolRun EXCEPT ![k] = "ended"]
  /\ IF Child THEN Post(Message("tool_result", k)) ELSE UNCHANGED toWorker
  /\ UNCHANGED <<startup, call, abandoned, heard, disposal, exitSeen, available,
                 revoked, workerVars, worker, killed, toHost>>

(* Mutant of ExitEvent: the open requests are left to the Worker.          *)
ExitEventLeavesRequests ==
  /\ worker = "gone" /\ ~exitSeen
  /\ exitSeen' = TRUE /\ available' = FALSE /\ revoked' = TRUE
  /\ AbortTools
  /\ FailStartup
  /\ UNCHANGED <<call, abandoned, heard, disposal, workerVars, worker, killed,
                 toWorker, toHost>>

(* The exit handler.  Messages may be left in the channel: Node reads it   *)
(* on to its end.                                                          *)
ExitEvent ==
  /\ worker = "gone" /\ ~exitSeen
  /\ exitSeen' = TRUE /\ available' = FALSE /\ revoked' = TRUE
  /\ RejectAll
  /\ FailStartup
  /\ UNCHANGED <<abandoned, heard, disposal, workerVars, worker, killed,
                 toWorker, toHost>>

-----------------------------------------------------------------------------
(* dispose() until it waits for the answer: by the registry at any time,   *)
(* by create() when the startup failed.                                    *)
CallDispose ==
  /\ startup # "waiting" /\ disposal = "none"
  /\ available' = FALSE
  /\ \/ /\ exitSeen
        /\ disposal' = "done" /\ revoked' = TRUE
        /\ UNCHANGED <<call, toWorker>>
     \/ /\ ~exitSeen
        /\ disposal' = "grace" /\ revoked' = revoked
        /\ Send("dispose", Dispose)
  /\ UNCHANGED <<startup, abandoned, heard, toolRun, exitSeen, workerVars, worker,
                 killed, toHost>>

(* Mutant of GraceExpires: the timer is not armed.                         *)
GraceNeverExpires == FALSE /\ UNCHANGED vars

(* workerShutdownGraceSeconds passed: SIGKILL.                             *)
GraceExpires ==
  /\ disposal = "grace" /\ call[Dispose] = "open" /\ ~killed
  /\ killed' = TRUE
  /\ UNCHANGED <<hostVars, workerVars, worker, toWorker, toHost>>

(* dispose() goes on after the answer, the failed send or the exit.        *)
FinishDispose ==
  /\ disposal = "grace" /\ call[Dispose] # "open"
  /\ disposal' = "done"
  /\ killed' = TRUE
  /\ RejectAll
  /\ revoked' = TRUE
  /\ UNCHANGED <<startup, abandoned, heard, exitSeen, available, workerVars, worker,
                 toWorker, toHost>>

-----------------------------------------------------------------------------
(* The Worker takes the oldest message of the Host.                        *)
Takes(type) == /\ worker \in {"starting", "unusable", "up", "closing"}
               /\ toWorker # <<>> /\ Head(toWorker).type = type
               /\ toWorker' = Tail(toWorker)

Taken == Head(toWorker).id

Reply(messages) == toHost' = toHost \o messages

(* One message for each of these requests, in some order.                  *)
Each(type, ids) == LET s == SetToSeq(ids)
                   IN  [i \in 1 .. Len(s) |-> Message(type, s[i])]

Waiting == {k \in Tools : toolCall[k] = "waiting"}

EndTools == toolCall' = [k \in Tools |-> IF toolCall[k] = "waiting" THEN "over"
                                                                  ELSE toolCall[k]]

Cancels == Each("tool_cancel", Waiting)

(* initialize() of the Worker succeeds or throws.                          *)
WorkerReady ==
  /\ worker = "starting"
  /\ \/ worker' = "up" /\ Reply(<<Message("ready", None)>>)
     \/ worker' = "unusable" /\ Reply(<<Message("fatal", None)>>)
  /\ UNCHANGED <<hostVars, workerVars, killed, toWorker>>

(* One prompt at a time; without a session there is none.                  *)
TakePrompt ==
  /\ Takes("prompt")
  /\ \/ /\ worker = "up" /\ active = None
        /\ active' = Taken /\ run' = "running"
        /\ UNCHANGED toHost
     \/ /\ worker # "up" \/ active # None
        /\ UNCHANGED <<active, run>>
        /\ Reply(<<Message("error", Taken)>>)
  /\ UNCHANGED <<hostVars, waiters, emitted, toolCall, worker, killed>>

(* session.isStreaming: a prompt that was accepted need not stream yet.    *)
Streaming == IF worker = "up" /\ run = "running" /\ emitted[active] = 0
             THEN BOOLEAN ELSE {worker = "up" /\ run # "idle"}

(* session.abort(): the signal of the run ends its tool calls at once, the *)
(* request waits for the run to end.                                       *)
StopRun(r) ==
  /\ run' = "stopping"
  /\ waiters' = waiters \cup {r}
  /\ EndTools
  /\ Reply(Cancels)

(* status() throws when there is no session.                               *)
TakeAbort ==
  /\ Takes("abort")
  /\ \/ TRUE \in Streaming /\ StopRun(Taken)
     \/ /\ FALSE \in Streaming
        /\ Reply(<<Message(IF worker = "up" THEN "result" ELSE "error", Taken)>>)
        /\ UNCHANGED <<run, waiters, toolCall>>
  /\ UNCHANGED <<hostVars, active, emitted, worker, killed>>

TakeDispose ==
  /\ Takes("dispose")
  /\ \/ /\ TRUE \in Streaming /\ StopRun(Dispose)
        /\ UNCHANGED worker
     \/ /\ FALSE \in Streaming /\ worker' = "closing"
        /\ UNCHANGED <<run, waiters, toolCall, toHost>>
  /\ UNCHANGED <<hostVars, active, emitted, killed>>

TakeToolResult ==
  /\ Takes("tool_result")
  /\ toolCall' = [toolCall EXCEPT ![Taken] = IF @ = "waiting" THEN "over" ELSE @]
  /\ UNCHANGED <<hostVars, active, run, waiters, emitted, worker, killed, toHost>>

Runs == worker = "up" /\ run # "idle"

EmitDelta ==
  /\ Runs /\ emitted[active] < MaxDeltas
  /\ emitted' = [emitted EXCEPT ![active] = @ + 1]
  /\ Reply(<<Message("event", active)>>)
  /\ UNCHANGED <<hostVars, active, run, waiters, toolCall, worker, killed, toWorker>>

(* requestTool: the signal of the run is not aborted.                      *)
RequestTool(k) ==
  /\ Runs /\ run = "running"
  /\ toolCall[k] = "none"
  /\ toolCall' = [toolCall EXCEPT ![k] = "waiting"]
  /\ Reply(<<Message("tool_request", k)>>)
  /\ UNCHANGED <<hostVars, active, run, waiters, emitted, worker, killed, toWorker>>

RunOver == run' = "idle" /\ active' = None /\ waiters' = {}

(* The run ends: the prompt is answered and what waited in session.abort() *)
(* goes on, the abort with its answer, dispose with the clean-up, after    *)
(* which there is no status to answer with.                                *)
EndRun ==
  /\ worker \in {"up", "closing"} /\ run # "idle" /\ Waiting = {}
  /\ RunOver
  /\ worker' = IF Dispose \in waiters THEN "closing" ELSE worker
  /\ \E type \in IF worker = "up" THEN {"result", "error"} ELSE {"error"} :
       LET own    == <<Message(type, active)>>
           aborts == Each("result", waiters \ {Dispose})
       IN  Reply(own \o aborts) \/ Reply(aborts \o own)
  /\ UNCHANGED <<hostVars, emitted, toolCall, killed, toWorker>>

(* The Worker will take no message any more, and nothing it held matters.  *)
GoesDeaf(state) == /\ worker' = state
                   /\ RunOver
                   /\ toWorker' = <<>>

(* cleanup() cancels the tool calls; then dispose is answered.             *)
WorkerDisposed ==
  /\ worker = "closing"
  /\ GoesDeaf("exiting")
  /\ EndTools
  /\ Reply(Cancels \o <<Message("result", Dispose)>>)
  /\ UNCHANGED <<hostVars, emitted, killed>>

(* An uncaught exception: report it, clean up, exit.                       *)
WorkerPanics ==
  /\ worker \in {"up", "closing"}
  /\ GoesDeaf("exiting")
  /\ EndTools
  /\ Reply(<<Message("fatal", None)>> \o Cancels)
  /\ UNCHANGED <<hostVars, emitted, killed>>

(* The event loop of the Worker blocks for ever.                           *)
WorkerHangs ==
  /\ worker = "up"
  /\ GoesDeaf("hung")
  /\ UNCHANGED <<hostVars, emitted, toolCall, killed, toHost>>

(* The process ends: by itself, by a signal, or by a crash.                *)
WorkerDies ==
  /\ worker # "gone"
  /\ GoesDeaf("gone")
  /\ killed' = TRUE
  /\ UNCHANGED <<hostVars, emitted, toolCall, toHost>>

-----------------------------------------------------------------------------
HostReceives == \/ OnReady \/ OnEvent \/ OnResult \/ OnError
                \/ OnToolRequest \/ OnToolCancel \/ OnFatal

HostStep == HostReceives \/ ExitEvent \/ GraceExpires \/ FinishDispose \/ StartupTimeout

WorkerReceives == TakePrompt \/ TakeAbort \/ TakeDispose \/ TakeToolResult

WorkerStep == WorkerReceives \/ WorkerDisposed

Next ==
  \/ \E r \in Prompts \cup Aborts : Ask(r) \/ Refuse(r)
  \/ \E p \in Prompts : TurnTimeout(p)
  \/ \E k \in Tools : ToolEnds(k) \/ RequestTool(k)
  \/ CallDispose \/ HostStep \/ WorkerStep
  \/ WorkerReady \/ EmitDelta \/ EndRun
  \/ WorkerPanics \/ WorkerHangs \/ WorkerDies

(* Both event loops turn, timers fire, create() disposes of what failed to *)
(* start, a broker call ends (it has a timeout), a killed process dies.    *)
(* Nothing is assumed of Pi: a run may never end.                          *)
Fairness ==
  /\ WF_vars(HostStep)
  /\ WF_vars(WorkerStep)
  /\ WF_vars(CallDispose /\ startup = "failed")
  /\ WF_vars(WorkerDies /\ (killed \/ worker = "exiting"))
  /\ \A k \in Tools : WF_vars(ToolEnds(k))

Spec == Init /\ [][Next]_vars

FairSpec == Spec /\ Fairness

-----------------------------------------------------------------------------
(* Nobody waits for an answer that cannot come: once the exit was handled  *)
(* or dispose() returned, no request is open (process-session.ts exit,     *)
(* rejectAll, and the guards of prompt, abort and dispose).                *)
NothingWaitsForADeadWorker == exitSeen \/ disposal = "done" => Open = {}

(* A session that says it is available still has its model capability: no  *)
(* late answer brings a dead or disposed session back (updateStatus).      *)
AvailableIsUsable == available => ~revoked /\ disposal = "none"

(* When prompt() resolves, the turn that waited for it has received every  *)
(* delta of the run (text-delta-bridge.ts detaches at that moment).        *)
ReplyIsComplete ==
  \A p \in Prompts :
    call[p] = "answered" /\ p \notin abandoned => heard[p][p] = emitted[p]

(* The Worker waits for the call, or gave it up and says so.               *)
Wanted(k) ==
  \/ toolCall[k] = "waiting"
  \/ \E i \in 1 .. Len(toHost) : toHost[i] = Message("tool_cancel", k)

(* Up to the exit event a tool call runs with a live signal only if the    *)
(* Worker waits for it or its cancellation is on the way, and the step     *)
(* that handles the exit aborts every one that runs (process-session.ts    *)
(* tool_cancel, rejectAll; worker.ts requestTool).  A request that is read *)
(* after the exit is run too: only its own deadlines end that one.         *)
NoOrphanTool ==
  [][\A k \in Tools : ~exitSeen /\ toolRun'[k] = "running" =>
       ~exitSeen' /\ Wanted(k)']_vars

(* dispose() returns, and the process and every open request end with it,  *)
(* although the Worker may hang and Pi may never stop (dispose, exit).     *)
DisposeEnds ==
  disposal = "grace" ~> disposal = "done" /\ exitSeen /\ Open = {}
=============================================================================
