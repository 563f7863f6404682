# A formal model of Feishu-AgentPlatform

Feishu-AgentPlatform is a Node.js Host that connects Feishu Apps to LLM agents.
A message of a chat becomes a *turn* of a conversation; turns run in Pi runtimes,
one Worker process per conversation; several Hosts may share one platform
database. The program is single-threaded per Host but everything in it is
asynchronous: what goes wrong in it goes wrong between two `await`s, between two
processes, or when a timer fires. That is what the modules here are about.

All source paths are relative to the repository (`src/src/...` is its TypeScript,
`src/docs/...` its documentation); `file.ts:line` without a directory is a file
below `src/src`.

## The parts of the system

| component | state it keeps | operations | talks to |
|---|---|---|---|
| Turn pipeline (`runtime/binding-runtime.ts`, `core/keyed-queue.ts`, `core/semaphore.ts`, `core/timeout.ts`) | a promise chain and a pending count per conversation, the Host-wide and the binding semaphore, the controllers of running turns, `acceptingMessages` | enqueue, slot acquisition, `handleMessage`, deadline, reset task, start, stop | session registry, Feishu channel |
| Session registry (`pi/session-registry.ts`), resident budget (`pi/runtime-capacity.ts`), turn context (`tools/turn-context.ts`) | one entry (promise, reservations, startup controller, disposal) per conversation; leases of resident Workers and sleepers; the context of the running turn | acquireForTurn, beginTurn, endTurn, evictRuntime, abort, reset, pruneIdle, disposeAll; acquire, activate, release, eviction | Worker sessions, tool broker |
| Worker (`pi/process-session.ts`, `pi/worker.ts`, `pi/worker-protocol.ts`) | pending requests, tool calls in flight, status | prompt, abort, dispose, exit, tool requests | registry, tool broker over IPC |
| App lease and Host (`storage/app-lease-store.ts`, `app/host.ts`) | a row per App in SQLite; per lease object `acquired`, `lost`, a timer; running Apps, `stopping`, a promise chain of lifecycle operations | acquire, heartbeat, release; start, applyPlatformConfig, maintenance, stop | App runtimes, model broker |
| Tool broker and approvals (`tools/tool-broker.ts`, `approvals/coordinator.ts`, `storage/approval-store.ts`) | pending waits in memory, rows with a state in SQLite | authorize, request, decide, expire, cancel, execute with a deadline | Workers, Admin, cards |
| Workspace and attachments (`sandbox/workspace-guard.ts`, `feishu/attachments.ts`) | the files of a conversation, a lock per directory | write within limits, download within a budget | turns, tool broker |
| lark-cli (`tools/lark-cli.ts`) | profiles in home directories, caches of profiles and risks | initialize, risk check, run | tool broker, the `lark-cli` program |
| Model broker (`model/model-broker.ts`) | capabilities, requests in flight | issue, renew, revoke, proxy, stop | Workers, the model gateway |
| OAuth (`feishu/oauth.ts`, `feishu/api-client.ts`) | state files, encrypted token records, refreshes in flight | issue, callback, refresh, logout, purge | Feishu, Admin login |
| Admin access (`admin/auth-service.ts`, `admin/admin-server.ts`) | sessions, login failures, limits | login with a token or with Feishu, logout, requests | OAuth, configuration |
| Configuration (`config/load-platform.ts`, `storage/config-store.ts`, `storage/credential-vault.ts`, `admin/platform-backend.ts`) | drafts, revisions, the active revision; credentials | load and validate, save, publish, rollback, reload, seed | Host |
| Process entry (`index.ts`) | whether the database is seeded | import of the YAML files, load, start, shutdown | all |
| App runtime, ingress, routing (`feishu/app-runtime.ts`, `core/dedupe-window.ts`, `runtime/binding-router.ts`, `http/control-plane.ts`) | the window of event keys, bindings, connection | accept, deduplicate, route, retry, maintain, stop | binding runtimes |

What is hard about them:

* A deadline does not stop work. `withTimeout` rejects and lets the operation run;
  everything a detached handler still does, it does beside its successor.
* Two semaphores are taken in a row, with a timer that may fire in either wait.
* A runtime is shared by turns, aborts, maintenance, resets and evictions, and each
  of them reads state, waits for a promise or a Worker, and acts on what it read.
* Startups wait for a Host-wide budget that only the disposal or the idleness of
  another runtime can free.
* An approval lives twice, in memory and in the database, and is ended by a click,
  an administrator, a timer, another call's click, an abort, a lost message, a
  shutdown or a crash.
* Requests read a record, await files or servers, and write what they read:
  publications, token refreshes, model requests.
* A lease in a database is renewed by a timer of a process that may stall, stop in
  the middle of something, or die.
* The same document is written as YAML, exported, stored, and loaded again under
  rules that differ a little.

What makes each part correct is stated by its properties, below.

## The modules

Each action and helper names the code it translates in `PROJECT.json`. Wherever an
operator is preceded by a comment that begins with "Mutant:", it is a broken variant
of its neighbour, kept to show that a property notices the difference; it is not
part of any specification.

**Semaphore, TurnPipeline.** `Semaphore` holds the counting semaphore as operators on
a record of `active` and `waiters`. `TurnPipeline` owns one for the Host and one per
binding, the queue of each conversation (the first element is the task that runs),
where each task is (`pc`), whether its `handleMessage` still runs (`handler`), and the
phase of `start()`/`stop()` of each binding. One action is what the event loop runs
between two points where another task can run. A timer may fire whenever it is armed.

**AppLease.** Hosts that share one database and want the same App. The row is a token
and the part of its TTL that is left; a Host has a process mode, the lifecycle
operation under way (a promise chain makes them sequential), the lease it holds and
its runtime. Heartbeats and maintenance runs may come arbitrarily late, connecting may
take arbitrarily long, a Host may crash or be asked to stop at any moment.
`ConstructorThrows` is the path on which an acquired lease is never released
(`app/host.ts:480-517`).

**SessionRegistry.** The map `sessions`, the entries with their startup stage,
reservations, lease, Worker and turn context, and the handlers, aborts and resets that
use them as processes with a program counter. Mutations of the map are synchronous
under `withMutation`, so each is one step; what the code does after an `await` is the
next step of that process, with whatever it had read before. The acquisition of a lease
therefore has three steps when the budget is used up: it looks for an idle runtime
(`LeasePick`), that runtime agrees or refuses when its mutation comes (`EvictAgrees`,
`EvictRefuses`), and a startup that was refused sleeps without another look
(`LeaseSleep`). `Deadline` is the deadline of the pipeline: in one step it abandons the
handler and calls `abort()`, and the conversation goes on while the handler still runs.
The runtime stays in the map until the Worker answers the abort (`AbortEvicts`), so that
the next turn can join it.

**WorkerSession.** One Pi session in a process of its own: the Host side
(`ProcessAgentSession`), the Worker side (`worker.ts`) and two ordered channels; one
action is one message handled, one call made or one event of the process. `heard` is
what the listener of each turn received, `abandoned` are the turns whose deadline
passed while their request stays open. The Worker may fail to initialise, panic, hang
for ever or die at any moment; what it had sent may still arrive after its exit event,
and a tool request that does so is run like any other.
Pi itself is external: a run emits deltas, asks for tools, and ends or not.

**ToolCalls, ApprovalDecision.** The calls of one session from the model's request to
the tool. A call is authorized in the context that is current, may wait for a person, and
is executed in whatever context is current by then. `turn` is the handler of each turn and
`abandoned` the turns whose deadline passed: the queue goes on with the next one, in the
same session until `Evict`, which comes when the Worker has answered the abort or is gone,
or never. A turn that finds a context is refused, and its `finally` clears that context
(`RefuseTurn`). `Operators` are the actors of administrator sessions, among them the one of
the console token, who is on no list; the coordinator takes their word (`AdminAction`),
while a click on the card is checked (`CardAction`). `row` and `approver` are the
database, `pending` and `promise` the coordinator; `card` says that people can click.
`Reject` is where an approval that ends while its message is still being sent becomes
an unhandled rejection, which `index.ts` answers with a shutdown. `ApprovalDecision` is
the promise made to the people who decide: one final verdict per call, and each call
performed at most once and only when granted. `Abstract` in `ToolCalls` instantiates it
with `Verdict` (the database has the last word; memory speaks where the store could not
record a refusal) and the set of calls that were started.

**UserAuthorization, AdminAccess.** The first has the OAuth of one App: states in files
that a callback claims by renaming them, the exchange of the code, token records, the
refresh that concurrent API calls share, logout, purge. Every file operation and every
request to the server is a step; the server may refuse anything. `Named` are the callbacks
for which its answer says who the account is: only then does the code compare it with the
user who asked (`feishu/oauth.ts:371`). `AdminAccess` extends
it by the sessions and the login limit of the administration: a login with Feishu is an
authorization for the purpose `Sso`. The composition is where the two state machines
meet: a state for one purpose must not end at the redirect of the other.

**ModelAccess.** The capability of a session is issued with its Worker, renewed by each
request and revoked by an exit, a disconnect, a failed start or the end of the broker;
the body of a request is read between the first look at the capability and the renewal.

**Workspace.** The writers of one directory: the attachments of turns and calls of
`workspace.write`. The lock is a chain of promises (`tail`, `users`); the holder
measures the directory, writes a temporary file and renames it. The size of a directory is the
number of its bytes. Each step may fail and
the process may die in it; what is left under temporary names (`debris`) counts in
later measurements, as nothing removes it.

**LarkCli.** Profiles initialized by one call and shared by those that come within a
minute, risks asked once per executable and command, and the process of an operation.
A process that fails or is killed may have had its effect on the home directory or not,
and what is on disk survives the Host.

**Routing, PlatformConfig, Boot, Ingress.** `Routing` is the router and `routesCanTie()`
as operators on sets of bindings. `PlatformConfig` is the loader: which manifests it
accepts and what it makes of them (Apps, Agents, tools, grants, routes, paths,
approvals), the document it exports, and the way the public server finds the App of a
request. That server sees a path as the URL parser writes it: `Escaped` says which
segments the parser rewrites, and `PathName` what becomes of a path. The words of messages and their places (chats, users, topics) are constants. `IsDocument` is
what the parse helpers make of any file: a record with the fields of its kind, before the rules
of the loader. `Boot` is `main()`: seed from YAML, load what was stored, crashes between.
`Ingress` extends it by one App with its window of event keys (each with the end of its time and the
keys that the map holds before it, which is what an overflow drops first) and its router: events
are delivered again when Feishu saw no answer, handlers fail and give the key back,
operators publish, the process restarts. An action that is delivered again while its handler
runs is turned away as long as its key is in the window; when an overflow dropped the key, a
second handler starts (`handling` counts them). The four are one state machine, from the files
to the effect of an event.

**ConfigPublication.** Revisions, slots and credentials in the database; the request
each administrator has under way; and the part of the Host that applies configurations.
A request reads document and credentials in one step (`PublishRead`, `RollbackRead`,
`SetCredential`) and commits in another (`PublishCommit`, `RollbackCommit`,
`ReloadCommit`) that also puts the platform on the lifecycle chain. An application is
refused, or stops the changed Apps (`ApplyStops`) and then installs the configuration
and starts what is missing (`ApplyInstalls`); it may fail in between. The process may
end at any moment; `Boot` then loads the active document. What a document contains is
`PlatformConfig`'s subject; here it says which Apps are enabled.

## What the runs check

| run | instance | what it shows |
|---|---|---|
| `turn_pipeline` | 2 bindings, 3 conversations, 3 messages and a reset, 2 Host-wide slots, 1 slot each, queue limits 2 and 1 | slots are neither leaked nor doubled (`SlotsAccounted`), no waiter is forgotten (`NoLostGrant`), `NoHandlerOutlivesStop`, `QueuedTaskSettles`, `StopTerminates` |
| `app_lease` | 2 Hosts, 3 lease objects, TTL of 2 ticks | `HandoverIsClean`, `StaleHostStops`, `Failover` |
| `session_registry` | 2 conversations, 3 turns, 1 Worker on the Host, a binding that may keep 1 or 2 runtimes, 1 upset (a deadline brings its own abort) | `ResidentBound`, `ReservationsExact`, `UsedRuntimeKept`, `HandlerEnds` |
| `worker_session` | 2 turns, 1 abort, 1 tool call, 1 delta per run | `NothingWaitsForADeadWorker`, `ReplyIsComplete`, `NoOrphanTool`, `DisposeEnds` |
| `tool_calls` | 3 turns, 1 deadline; 3 calls: one the sender decides, one that needs no approval, one an administrator decides by the card or an operator in the console | the calls implement `ApprovalDecision` (`OneVerdict`), `StartedAsApproved`, `RunsInItsTurn`, `EveryCallEnds` |
| `config_publication` | 2 administrators, 1 App, 1 credential with 2 values, 3 revisions | `RunsActive`, `NoStaleRuntime`, `RequestEnds` |
| `admin_access` | 1 state of a user, completed by that user and twice by another account, once without a name; 1 of a login; 2 API callers, 1 session, 1 request with its cookie, 1 refresh generation | `GrantsAreOwn`, `OneRefreshAtATime`, `SessionsAreBacked`, `CallersServed` |
| `model_access` | 1 session, 3 requests, TTL 2, lifetime 3, clock up to 6 | `NoOrphanCapability`, `ForwardedInTime`, `RequestsEnd` |
| `front_door` | 7 file contents, one with a path that the URL parser rewrites, 2 published documents, 2 environments, 1 message and 1 card action delivered up to twice, a window of 1 key | `PlatformIsReadOnly`, `IngressReachesItsApp`, `NeverAmbiguous`, `NothingSwallowed`, `EffectOnce` |
| `lark_cli` | 2 Apps with executables that disagree about a command, a start and 3 turns | `RunsBoundAndReading`, `NoFailureStays` |
| `workspace` | 2 turns with attachments, 2 calls, 3 paths, room for 2 files and 4 bytes, three initial directories | `PromptIsTrue`, `QuotaKept`, `WritesEnd` |
| `seed_reload` | files that grant `workspace.write`, or name the root of the model gateway | **violated**: `SeedLoads` |

The bounds: slots and Workers are as few as make turns wait for each other;
conversations and turns as many as it takes for a successor in the same conversation
and a competitor in another; lease objects as many as let a Host leak one and still go
on. `MaxUpsets` of `SessionRegistry` bounds the events that come from outside a turn
(deadlines, Worker exits, prunings, aborts, resets, stops); one of them at any moment already
reaches every action, and a deadline is counted together with the abort it calls. Two turns
of a Worker are what it takes for a prompt to meet the one a deadline left behind. Three
turns of `ToolCalls` are what it takes for a late call to find a foreign context: the first
misses its deadline, the second is refused and clears the context, the third sets its own;
two calls with an approval are what it takes for one decision to expire the other's row. Three revisions let a draft be saved while another is published or
rolled back. `MaxGen` lets a token be refreshed once, which is when two callers race;
two completions of one link are what a claim has to tell apart, and the third is the one
whose account nobody names. An administrator who is not on the list does not log in there
(two accounts are enough for the rest); `SessionsStandOnLogins` is proved for any list. The clock of
`ModelAccess` passes twice the absolute lifetime; that of `Ingress` (`MaxTime` 3, `Ttl`
2) passes the window, whose one key makes an overflow happen with two events.
`QuotaKept` begins also in directories that already exceed their limits, where a write
may shrink a file but not grow it. `MaxDeliveries` is two: a third delivery meets
the same states of the window as a second.

Deadlock checking is off: the systems rest when no message comes.

## Fairness

* `TurnPipeline`: timers that are armed fire, microtasks run, the phases of `stop()`
  end by themselves or by their timeouts. Nothing is assumed of handlers, of
  messages, or of starts and stops.
* `AppLease`: the clock, the heartbeat timers and the operations under way go on
  (weak fairness), maintenance comes again and again, and Feishu accepts a
  connection if it is asked often enough (strong fairness of `Connected`: an
  assumption about Feishu, used by `Failover`). Nothing is assumed of stops,
  configuration changes or crashes. `Failover` is stated for behaviours in which no
  lease stays leaked, because the code has no way back from such a leak.
* `SessionRegistry`: handlers, startups, disposals and resets go on: a prompt ends by
  its own timeout, a startup by its own, a disposal by SIGKILL. An abort goes on but for the
  answer of a live Worker, for which the code has no timeout (`AbortEvicts` is not fair;
  `pi/process-session.ts:124-127`). `HandlerEnds` therefore ends in "the handler has ended,
  or an abort is unanswered, or a wake-up was missed (`missed`)": see the disagreements below.
* `WorkerSession`: the event loops of both processes turn, an armed timer fires, a
  broker call ends by its own timeout, a killed or exiting process ends. Nothing is
  assumed of Pi, whose runs may never end, and a hung Worker takes no step until it is
  killed.
* `ToolCalls`: the clock passes every deadline, armed timers fire, sending a message
  settles, a tool has a deadline (`withTimeout`). Nothing is assumed of people, of the
  database, of a delivery, or of the Worker: no abort need be answered and no signal fire.
* `ConfigPublication`: files are read or fail to be read, and the operation at the head
  of the lifecycle chain ends; `TurnPipeline` shows that stopping a binding does.
  Nothing is assumed of administrators, of the start of the process or of its end.
* `AdminAccess`: each caller, in a condition of its own, goes on when it looks at the shared
  refresh, and its refresh is answered, fails or is stored. Nothing is assumed of users, callbacks or clients.
* `ModelAccess`: the broker bounds an upstream call, and `node:http` the time a body
  may take (its `requestTimeout`, which the broker leaves at its default).
* `Workspace`: a file operation settles, so that the holder of the lock goes on.
  Nothing is assumed of downloads or signals.
* `LarkCli`, `Boot` and `Ingress` state no liveness and assume none.

## What is proved

Every safety property of the passing runs is a theorem. Eight modules hold the proofs, checked
by tlapm for every value of the constants under the named assumption of each module. Three of
them are about two modules that share nothing but their place in the program: `TurnProofs`
(`TurnPipeline`, `Workspace`), `AdministrationProofs` (`ConfigPublication`, `AdminAccess`) and
`ExternalCallsProofs` (`ModelAccess`, `LarkCli`). That is why the specifications of the second
ones have names of their own (`WorkspaceSpec`, `AccessSpec`, `LarkSpec`).

`TurnProofs` begins with what the semaphore operators do to the accounting of a
set of holders and a set of waiters (`Accounts`, `ListedOnce`), and lifts it to the
module: the inductive invariant `SlotInv` says that both kinds of semaphore account for
exactly the tasks whose `pc` says so, and that a waiter is listed once. Without "listed
once" a hand-over could leave a second copy of a waiter behind, and without "somebody
waits only if all slots are in use" the step that serves a waiter could not be matched
with a holder that leaves; so `SlotsAreAccounted` and `NoGrantIsLost` are proved together.
`QueueInv` adds that whoever is under way is at the head of its queue, so that an empty
queue has nobody running; the drains of `stop()` look at the queues only and rely on it.
With `StopInv` (what each phase of `stop()` has reached) it gives `StoppedBindingIsQuiet`.

Its second part is about the writers of a directory. `WorkspaceInv` says that the users of the
lock stand in a line (`LineFits`: there is a sequence of them, the first waits for nobody, each
other one waits for the one before it, and the map holds the last; the code has no such sequence,
only promises that wait for each other), so that one at most holds the lock; that
whoever measures and writes holds it (`WritersLocked`); and hence that what the holder measured
still holds, its own temporary file apart, when it renames (`Measured`). `WritesKeepQuota` needs
no more than that; `PromptNamesFiles` needs that no file is ever removed (`JobsFit`). The number
of bytes in a directory is the cardinality of the set of all bytes, not a fold over the files:
that a write replaces the bytes of one file and leaves the others is then a fact about the
cardinality of disjoint sets (`BytesSplit`), which the library knows, where a fold would need
an induction over data.

`SessionRegistryProofs`: `IInv` says that the reservations of a mapped runtime are exactly
the handlers and aborts that refer to it (`Balanced`), that a Worker exists only under the
lease of a startup that came that far (`WorkerInv`), that what is mapped is not being
disposed of and belongs to the conversation it is mapped for (`MapInv`), and that a
handler that uses a runtime refers to an entry. Most steps either leave the mapped
entries' users alone (`QuietStep`, whose `Frame` says what such a step may do to the map)
or move one user together with one reservation (`ReservationGone`, `ReservationMade`); the
steps of one entry are `EntryMoves`. The point of `MapInv` is that an entry leaves the map
before its disposal begins: a handler that releases a runtime which is already on its way
out must not touch a count that no longer matters. Results: `TypeCorrect`, `BudgetHolds`,
`ReservationsCountUsers`, and `UsedIsNeverIdle`: since a runtime with a user has a
reservation, no eviction for capacity and no maintenance can take it; an abort takes only
the runtime of its own conversation.

`AppLeaseProofs` proves `LeaseTypes`, `RunningRuntimeHoldsLease` and
`LeaseHandoverIsClean` from an inductive invariant that ties the lease a Host holds, its
runtime, the operation under way and the process mode together: the handover is clean
because every release comes after the runtime has left the states that take events.

`AdministrationProofs` begins with the publications, in two layers. `IInv` carries the fact that a platform
was loaded from the document of a revision along its way: from the request
(`LoadsMatch`) to the chain (`QueueMatches`) to the Host (`ConfigMatches`); it also says
that once the changed Apps are stopped, the others already are what the next
configuration wants (`StoppedForNext`). `OrderInv` says that a draft is newer than the
active revision, that the chain is sorted, begins no lower than what is installed and
ends with the active revision; the second look at the active revision in the reload is
what keeps it. Results: `TypeCorrect`, `PublishedIsWhatRuns`, `RuntimesAreCurrent`,
`ActiveIsWhatRuns`, `NeverGoesBack`.

The second half is about logins and tokens. `OAuthInv`: a state is used by one callback at
most, and whoever uses it has moved its file away (`StatesTakenOnce`); what a callback has
checked before and after it asked Feishu still holds when it saves (`DoorsRight`); a record, in
its file or in the hands of a caller that read it some steps ago, came from a grant of its own
user (`RecordsOwn`, which leans on grants never being taken back); a refresh that is under way
is the one the map holds (`RefreshesKnown`), so that whoever looks finds it. `SessionsFit` adds the
sessions of the administration. Results: `GrantsBelongToTheirUsers`, `RefreshIsShared`,
`SessionsStandOnLogins`, `AccessTypes`. The first attempt at `RefreshIsShared` failed for a good reason:
`OneRefreshAtATime` put its conclusion under the last bullet of a conjunction only and said
something else than its comment. It now says that two callers of one user are never both in a
refresh of its token, and a `Check` that does not look at the shared refresh breaks it.

`WorkerSessionProofs`: `NothingWaits` and `AvailableStaysUsable` need only that the
capability is kept as long as there is a child. `NoToolIsOrphaned` is about every step up to
the one that handles the exit: a call that runs after it is wanted or about to be cancelled,
and the exit leaves none running. It says nothing of a request that is read after the exit,
which nobody aborts (see below). It needs what is in the
channels: a tool request on its way has not started yet, is the only one of its call,
and is wanted or followed by its cancellation (`RequestsAreNew`: the order of the channel
is what makes a cancellation hit a running call); what runs was asked for
(`RunsAreCalls`); an answer on its way is of a call that has ended (`AnswersAreOver`).
`ReplyComesWhole` is about the other channel: when `prompt()` resolves, the listener of the turn
has as many deltas of its own run as the Worker emitted. It counts these only; what a listener
may hear of another run is among the disagreements. For each prompt `PromptInv` says that its request is
in the channel at most once and has left no trace before it is taken (`Untaken`), that there is
no result while its run is active (`Unanswered`), that its deltas precede its result
(`InOrder`), and that what the turn has heard and what is on its way add up to what the Worker
emitted (`AllHeard`). Each handler either leaves a prompt alone (`HostQuiet`, `WorkerQuiet`,
`TurnQuiet`) or is one of the six steps that have a lemma of their own.

`ToolCallsProofs`: the invariant has three parts. `ApprovalInv` is the agreement of
memory and database (`MemoryAgrees`): a promise is resolved exactly when its row is
approved by somebody who may decide, and what is still pending in memory was not decided
by a person. That is why a click that comes after another call's click expired the row
cannot start the tool. Who may decide is `MayDecide`: the sender of the message in whose context
the call was asked for, an administrator on the list, or whoever holds an administrator session.
`TurnInv` is the life of the context: the queue waits for one turn at a time; while it
waits, the context is of that turn or of nobody; and a turn that was cut off though its deadline
had not passed left a session that no later turn can join. Results:
`TypeCorrect`, `OnlyApprovedToolsStart`, `ToolsRunInTheirTurn` (for the calls of turns whose deadline
has not passed, and for these alone), and the refinement
`ApprovalsImplementDecision`: `Spec => OneVerdict`, that is, every step of the calls is a
step of `ApprovalDecision` or a stutter. Its lemmas are that rows are final
(`RowsAreFinal`), refusals are final, a verdict is final, and a start performs a call that
was granted and not yet performed (`StartPerforms`). `PerformedOnlyAsGranted` states what
the abstraction says of the calls.

`ExternalCallsProofs`: `RequestInv` says that a request which is read or forwarded is known
to a broker that runs and comes from a Worker that has not exited. With it
`CapabilitiesHaveOwners` and `ForwardsAreInTime` follow, for all sessions and requests
and whatever the lifetimes are; a renewal never passes the absolute lifetime
(`TypeCorrect`, with `ExpiryBounded`).

The second half is about lark-cli. `LarkInv` says that the settings a process made in a home
directory stay made (`HomesBound`), that an entry of the map of profiles was made for its App
and has not failed (`EntriesFit`), that an answer about a command is that of the executable in
its key and that whoever asked is still waiting for it (`ChecksFit`), and what a call that has
come so far may rely on (`CallsFit`). Results: `LarkCliTypes`, `CommandsOnlyRead` (an operation
runs only bound to the bot and only with commands that its own executable reports as reading),
`FailuresAreForgotten`.

`IngressProofs` goes from the files to the effect of an event. `RoutesAreUnambiguous`: for every
set of bindings that the loader accepts for an App and every message the router finds at most one
best binding, so that `routesCanTie()`, which looks at two bindings without a message, is a
sufficient check. It rests on a lemma about prefixes: two sequences that both begin a third, of
the same length, are equal. `BootInv` says that the platform of the process is that of a document
which the loader accepted with some credentials, and that what is stored is a document;
what the loader accepts (lemmas on paths, on tools and on operations) then gives `ToolsOnlyRead`
and `PathsReachTheirApp`: a path that the URL parser leaves alone is answered by its App and by
nobody else, and a request for one that it rewrites meets at most one App, one that has the
rewritten path (`EscapeAssumption`: what was rewritten is not rewritten again). `WindowInv` says that a key which
had its effect within `Ttl` is in the
window with the rest of its time, or the window lost it to an overflow or a restart
(`Remembered`), and likewise a card action that one handler, or several, work on (`Tracked`);
with `BootInv` it gives
`EveryMessageIsRouted`, `NothingIsSwallowed` and `EffectsHappenOnce`. `LineInv` says that the
entries stand in a line, as the keys of a `Map` do, through acceptances, renewals, prunings
and forgotten keys; a minimum of a well-founded order is then the head of the line, and
`WindowIsBounded` follows: the window never holds more than `MaxEntries` keys, and an overflow
displaces exactly one, the oldest.

Only model-checked: the liveness properties, since they rest on fairness and tlapm 1.4.5 has no
rules for `ENABLED` (`QueuedTaskSettles`, `StopTerminates`, `StaleHostStops`, `Failover`,
`HandlerEnds`, `RequestEnds`, `DisposeEnds`, `EveryCallEnds`, `CallersServed`, `RequestsEnd`,
`WritesEnd`); the whole type invariant of `Ingress` and `Boot` (the parts that the proofs use are
proved; what the fields of an arbitrary document contain is not constrained); and, by its nature, the violation of `SeedLoads`. The assumptions of the theorems are
the `ASSUME`s of the modules (finite sets of requests and calls, functions with the right
domains, positive lifetimes, that the URL parser does not rewrite its own escapes, and that the YAML files and the published documents are documents,
of whatever content); no theorem assumes anything about behaviours.

## Findings

1. (`seed_reload`) The first start accepts YAML files, stores the exported document and
   loads it again; the loader of documents refuses some of what the loader of files
   accepted, so that this start and every later one fails. `PROJECT.json` quotes the
   documentation.

Disagreements met while modelling; the models contain each of them, and the properties
that are checked hold in spite of them. They have no run of their own, because no
sentence of the repository speaks of them precisely enough to be a property, or because
the behaviour is a question of timing between documented settings.

* An approval that is refused or aborted while its message is still being sent rejects a
  promise nobody awaits yet (`approvals/coordinator.ts:129`): an `unhandledRejection`, for
  which `index.ts:141` shuts the Host down. `docs/OPERATIONS.md:73` says of `/abort`:
  "`/abort` 中止当前模型和工具调用。"
* A refresh of a user token writes the record it had read (`feishu/oauth.ts:279`): it
  undoes a logout or overwrites a newer authorization that ended meanwhile
  (`docs/OAUTH.md:23`, `:30`), and a caller that read the record before the write presents
  the old refresh token again. `OneRefreshAtATime` is about callers of one moment.
* A resident session outlives the capability its Worker was started with
  (`model/model-broker.ts:280-300`, `pi/session-registry.ts:140-175`): a capability ends
  after 900 s without a request, while the session is kept for `idleTtlSeconds` (1800 s,
  `docs/OPERATIONS.md:70`). A turn in between is refused by the broker.
* After a deadline two handlers of one conversation overlap until the Worker has answered
  the abort, which no timer bounds (`pi/session-registry.ts:230-238`,
  `pi/process-session.ts:124-127`). The turn behind a timed-out one is likely to fail with
  "Turn context is already active for this session."; its `finally` then clears the context of the
  first (`pi/session-registry.ts:187`, `tools/turn-context.ts:45`), a further turn sets its
  own, and a call of the first that is asked for, or approved, by then runs in it
  (`tools/tool-broker.ts:61`). Deltas of the old turn reach the listener of the new one
  (`pi/process-session.ts:254`).
* A startup that asked an idle runtime to go and was refused sleeps without another look
  (`pi/runtime-capacity.ts:116-122`). Between the refusal and the sleep the runtime may have become
  idle again, or a lease free (`/status`, or an abort that finds nothing, gives a reservation back):
  its wake-up came too early, and the startup sleeps until the next change of any resident. `missed`
  marks this, and `HandlerEnds` excepts nothing else but an unanswered abort.
* A tool request that is read after the exit event runs with a live signal
  (`pi/process-session.ts:271-279`, after `rejectAll`, `:218-239`): nobody aborts it, and it ends by
  its own deadlines, or at once when the handler of the turn has cleared the context.
* An approval in the console is trusted, whoever the actor of the session is
  (`approvals/coordinator.ts:189-197`): with the console token it is nobody on `ADMIN_OPEN_IDS`
  (`admin/platform-backend.ts:529-532`).
* The account that completed the authorization of a user is compared with that user only if the
  answer of the server has an `open_id` (`feishu/oauth.ts:371`); a token that comes without one is
  stored for the user who asked. `GrantsAreOwn` claims the account only where it was named.
* A card action whose key an overflow dropped while its handler runs is handled a second time beside
  the first (`feishu/app-runtime.ts:434-447`); `EffectOnce` counts it as lost.
* The loss of a lease is noticed at the next maintenance run only, and not looked for after
  a long connect (`app/host.ts:413`, `:504`): two Hosts can have the same App up for that
  time.
* A credential that a draft refers to can be deleted while the draft is being published, and
  one that is set during a load is not in what then runs (`admin/platform-backend.ts:418`,
  `:606`). The refusal of `deleteCredential` counts the credentials of disabled Apps.
* `/reset` right after an eviction removes the session directory while the evicted Worker
  still closes (`pi/session-registry.ts:200`).
* The first caller of a lark-cli initialization lends it its signal: when it is aborted,
  those that share the initialization fail too, and the `catch` deletes the entry of a newer
  one (`tools/lark-cli.ts:225`). Within 60 s of a rotated credential the old profile serves.
* Paths with spaces or non-ASCII letters pass the path policy (`http/path-policy.ts:8-51`), but
  arrive percent-encoded at the server (`http/control-plane.ts:374`): the App that has such a
  path never answers it. `ReachedAlone` says what does: nobody, or the App whose path is
  written with the escapes.

## Not modelled, and why

* Feishu content and API access (`feishu/api-client.ts` beyond the token,
  `feishu/openapi-policy.ts` beyond what the loader uses, `identity-context`): requests and
  tables without state of their own; that a call asks for the token again after a refusal
  is a step of `UserAuthorization`.
* Database schema, migrations and the session index: a transaction is one step of the
  module that uses it.
* CLI, `load-host.ts`, logging, metrics, HTML: formatting and reading of the environment.
* Worker processes that could not be spawned: their `error` event has no listener during
  the initialisation (`pi/process-session.ts:182`); the streaming flag that a second prompt
  clears (`:120`); the in-process session. `WorkerSession` says "partly" for these.
* Reads of the workspace: `read()` looks at the size before it reads, and a rename in
  between gives it a larger file (`sandbox/workspace-guard.ts:81-95`); no property of the
  writers depends on it.
* Standby Hosts learn of a publication of another Host only when they start
  (`app/host.ts:131`), and `expectedDraftRevisionId` is compared with the draft slot only
  (`storage/config-store.ts:90`): both need several Hosts or the editor's document as state
  of `ConfigPublication`.
* The stream of a reply (`channel.stream` of the Feishu SDK) is taken to wait for the callback that
  writes it; a coordinator that stops because its App was reloaded is not told apart from one that
  stops with the Host.
* HTTP parsing, limits of bodies and rates, bubblewrap, encryption: they keep no concurrent
  state, or their behaviour is that of the operating system.

What would come next: more of what the modules promise as abstract specifications, proved like
`OneVerdict` (the lock of a directory as a mutual exclusion that is first come, first served;
the two semaphores as a bounded pool); a composition of `AppLease` and `ConfigPublication`, in which
Hosts have configurations of different age; and one of `TurnPipeline` and `SessionRegistry`, in
which `Deadline` is a step of the pipeline.
