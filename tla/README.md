# Knoa: TLA+ models, checks and proofs

Knoa is a self-hosted agent platform. A *Core* process owns the state that has
to survive: Tasks that an agent executes, the approvals their tool calls wait
for, the schedules and triggers that create Tasks, the turns of conversations,
and the questions an agent asks its user. Clients (mobile app, desktop,
messaging channels) send commands and follow event streams. A *Node* runs Core
and a gateway; a *Hub* joins Nodes and clients: it relays their connections,
pushes notifications and takes in webhooks. The models here cover the durable
execution under `src/src/knoa_platform/tasks` and most of what surrounds it:
delivery, delegation, conversation, configuration, MCP servers, remote models,
the Relay and host updates. The design documents they are compared with are
those under `docs/`, above all `docs/knoa-durable-task-design.md`.

## 1. Inventory

| Component | State it keeps | Operations | Hard part |
|---|---|---|---|
| Task aggregate (`tasks/runtime_repository.py`, `tool_repository.py`) | SQLite rows: Task, attempts, event journal, approvals, tool steps | create, cancel, pause, resume, transition, claim, lease renewal, two recovery passes, begin/finish tool step, request/resolve approval | several tables kept consistent by hand in every method; late writers |
| Task executor (`tasks/executor.py`) | worker loop, wake event, one coroutine and one cancellation latch per attempt, heartbeat | claim and launch, execute, write the verdict, stop, start | rows read before an await and used after it; heartbeat, lease clock and execution drift apart; crash at any point |
| Approvals (`tasks/approval.py`) | waiters in memory, keyed by approval | confirm, resolve, cancel_task, close | the durable decision and the waiter in memory are two writes; reviewer and human race |
| Tool step boundary (`agent_runtime/tool_step.py`, `tasks/tool_commit.py`) | the step being committed | confirm, re-validate, begin, run, finish | the effect is outside the database: at most once across crashes |
| Agent turn (`agents/execution.py`) | turn lease per session, cancellation bridge, deadlines | enter turn, stream events, stop | a stale execution of the same session |
| Task service (`tasks/service.py`) | launches under way | client commands | command = commit, then signals to memory; wake-ups |
| Event streams (`tasks/event_hub.py`, `tasks/service.py`, `service/core_server.py`, `core_client.py`) | subscriptions with bounded queues, the feed's version, the client's buffer | publish, subscribe, replay, follow, deliver | replay against live events; publications late, lost or twice; overflow and reconnection |
| Product Tasks (`service/product_task_lifecycle.py`, `tasks/definition_repository.py`) | definitions, launch bindings; schedules and triggers made for them | create, update, pause, resume, delete | commands of many steps over three repositories that undo what failed; a bridge that repairs in between |
| Schedules (`automation/repository.py`, `service.py`, `recurrence.py`) | plans, occurrences with leases | create, pause, resume, claim due, deliver, retry | crash between Task creation and bookkeeping; missed fires; recurrence arithmetic |
| Event triggers (`automation/trigger_*.py`, `extensions/mcp_resource_tasks.py`) | triggers with a baseline, received events with leases | reconcile, baseline, receive, claim, deliver, defer, retry | what is news and what was there before; retries that meet their own execution |
| Delegation (`agents/delegation.py`) | child Tasks, policies, links, artifacts of a child session | spawn, retry of a spawn, rollback, recovery | five steps without a transaction around them; must fail closed |
| Conversations (`conversation/`) | turns, approvals, live objects, snapshots for watchers | create, execute, ask, answer, cancel, watch, stop, recover | rows read outside the transaction that writes them; snapshots published late |
| Interactions (`interactions.py`) | questions with state and expiry, waiters | request, begin, wait, resolve, expire, recover | expiry racing the answer; two clients answering |
| Notifications and webhooks (`node_hub.py`, `hub/service.py`, `hub/repository.py`) | intents at the Node; inbox, deliveries, push tokens, routes and outbox at the Hub | project, push, retry, expire, register; ingress, pull, fire, acknowledge | two processes without a shared transaction; passes over the same rows side by side |
| Configuration (`configuration/`, `agent_runtime/config_control.py`, `composition.py`) | drafts, revisions, the document in force, running extensions | draft, publish, roll back, set, apply, converge at start-up | apply of many steps that must undo itself; two callers with different bases |
| MCP client (`extensions/mcp.py`) | owner coroutine, session, readers-writer lock, subscriptions | start, call, read, restart, retry, stop | a server that dies while calls and the bridge share it; cancellation at any await |
| Remote models (`remote_models.py`) | invocations with a durable chunk log, semaphores | invoke over three transports, execute, replay, cancel, recover | a request abandoned by its caller arrives later; restart in mid-stream |
| Agent generations (`agents/manager.py`, `agents/execution.py`) | active and draining generation of each Agent, leases and places, the generation barrier | lease, start and end a turn, replace, drain, remove | turns that wait for turns, or publish, while a configuration waits for turns |
| Relay (`hub/relay.py`, `hub/app.py`, `node_hub.py`) | links, registered clients, cipher sessions, queues | connect, register, exchange keys, forward, dispatch, leave | a Node that reconnects before the Hub noticed; tickets used twice; frame numbers |
| Host updates (`host_lifecycle.py`, `crates/knoa-update`) | release pointers, staged bundles, services | stage, install, check health, reject, start, activate, deactivate | a broker that dies, commands that time out, pointers moved under services |
| Everything else | see `PROJECT.json` | | mostly I/O, presentation, or measurement |

How they interact. A client command is one database transaction followed by
signals to objects in memory (the executor's latch, the approval waiters, the
wake event, the event hub). The worker loop claims Tasks from the database and
launches one coroutine per attempt; that coroutine calls back into approvals and
tool commits, each of which is again a transaction followed by memory. Heartbeats
renew leases in the database while executions live. Schedules and triggers
create Tasks through the Task service and mark their own rows afterwards; the
Resource bridge reads MCP servers through the same client as the agents' tool
calls and repairs the triggers of product Tasks. Delegation creates staged Tasks
and activates them. The Node's loop carries intents to the Hub and webhooks to the
triggers. Applying a configuration replaces MCP clients and runtimes. A crash loses
all of the memory at any of these points; start-up runs a recovery pass over the
database of each component.

What makes each part correct:

* Task aggregate: the journal alone tells a client the state; lease, attempt
  and state agree; a session executes one Task at a time; limits hold; a
  finished Task is frozen; nothing is decided twice.
* Executor, approvals, tool boundary: a tool step takes effect at most once and
  never without its approval; a claimable Task is claimed; an execution ends.
* Event streams: a client sees the journal in order without gaps or repeats, and a
  stream ends with its Task.
* Product Tasks: whatever step fails, the definition and its provider agree when
  the command is over, or somebody can see that they do not.
* Schedules, triggers, notifications, webhooks: one delivery per occurrence or
  event, whatever crashes and leases do; nothing accepted is forgotten, and nothing
  is recorded that did not happen.
* Delegation: a child that may run has everything that limits it.
* Conversations and interactions: one answer, and the one that is stored is the one
  that is acted on; a turn that is over stays over and every watcher learns it.
* Configuration: no edit undoes another's; what is in force was checked.
* Agent generations: a turn runs on what its policy was resolved for, and every turn comes to
  its end though turns wait for turns.
* MCP client: tools with effects run alone and, once cut off, nobody waits for ever.
* Remote models: an invocation is executed once and its record is what the caller saw.
* Relay: frames reach the client they are for, in order; the registry is true.
* Host updates: an update takes place as a whole or not at all.

`PROJECT.json` lists the hazards of this code with the properties aimed at them.

## 2. Modules

| Module | Models |
|---|---|
| `TaskLifecycle` | abstract specification: the life of a Task as its clients see it, and one executing Task per session |
| `DurableTask` | the repository: one action per method, because every method is one `BEGIN IMMEDIATE` transaction |
| `TaskExecution` | the Core process around `DurableTask`, which it extends |
| `ScheduleDelivery` | a schedule, its occurrences, and their delivery into executions of a product Task, against a start by hand |
| `BoundedDelivery` | abstract specification: an item is claimed a bounded number of times, executed only while it is claimed, and delivered or given up for good; `ScheduleDelivery` and `TriggerDelivery` implement it |
| `TriggerDelivery` | an event trigger: what MCP Resources hold becomes events, and these become executions |
| `ProductTask` | the commands on a product Task and its schedule or trigger, with their rollbacks and the bridge's repair |
| `EventStream` | the journal on its way to a client: hub, server stream, client buffer, and the feed of a principal |
| `Interactions` | one question of an agent to its user |
| `Conversation` | one turn with its approval, its notifications and a watcher |
| `Delegation` | the child Tasks of one parent |
| `HubExchange` | notifications from a Node to devices and webhooks from the Hub to triggers |
| `Configuration` | drafts, revisions, their application, the controller's calls |
| `AgentGenerations` | turns of Agents while the configuration replaces and drains what they run on |
| `McpClient` | the client of one MCP server under tool calls and the bridge |
| `RemoteModel` | invocations of another Node's model |
| `RelayTunnel` | clients of a Node behind the Relay |
| `HostUpdate` | bundle updates of an installation |
| `DurableTask_proofs`, `TaskExecution_proofs`, `ScheduleDelivery_proofs`, `Delegation_proofs`, `AgentGenerations_proofs` | theorems about the module of that name |
| `Deliveries_proofs` | theorems about `HubExchange` and `Configuration`, and about the composition `MCDeliveries` |
| `Services_proofs` | theorems about `Interactions`, `Conversation`, `TriggerDelivery`, `EventStream` and `ProductTask`, and about `MCServices` |
| `Platform_proofs` | theorems about `HostUpdate`, `RemoteModel`, `McpClient` and `RelayTunnel`, and about `MCPlatform` |
| `MCDurableTask`, `MCTaskExecution`, `MCDeliveries`, `MCServices`, `MCPlatform` | instances for TLC |

`TaskExecution` composes the executor, approvals, tool boundary and agent turn with
the aggregate. The three composites `MCDeliveries`, `MCServices` and `MCPlatform` put
several components into one run. Those components share no state, so each behaviour
is one of a single component, named by the variable `part` that never changes, while
the others stay in their initial state: their states add up and do not multiply. No
fair action of a component is enabled in its initial state when another one moves, so
that the fairness of one asks nothing of a behaviour of another. That every behaviour of a
composite is one of each of its components is proved (section 4). Some components occur
as two parts (`notice` and `webhook`, `review` and `child`, `stream` and `feed`, `chat`, `stop` and `viewer`, `calls` and `bridge`, `remote`
and `crowd`, `shared` and `tunnel`), each with a subset of their actors; the definitions of
the composites say which. `MCDurableTask` does the same with two instances of the
aggregate, `deep` and `many`.

### DurableTask

A Task is identified with the create request that makes it, because
`(principal_id, client_request_id)` is unique. `state`, `phase`,
`cancelRequested`, `attemptCount`, `createdAt` are columns of `runtime_tasks`;
`lease` is the pair of lease columns seen against the clock (`none`, `fresh`,
`expired`); `attempt`, `approval` and `toolStep` are the rows of the other
tables by key. The journal is kept as a summary (number of rows, largest
sequence number, state shown by the newest event, number of terminal events):
everything the properties ask of it.

`transition()` is modelled with the four targets the executor passes to it.
`create()` compares a repeated request with the stored row; only the outcome
`created` changes the database. A lease expires by the clock (`LeaseExpires`,
external). Notifications, traces and migrations are left out.

### TaskExecution

Everything this module declares lives in memory and is lost by `Halt`. One
action is the code between two awaits, so commands, other executions and the
clock may come between any two of them:

* `worker` and `wake`: `_worker_loop` with its wake event. `WorkerClaims` and
  `WorkerRegisters` are two steps: the claim commits in a thread before the
  latch is registered.
* `exec[t][k]`: the execution of attempt `k` — its place (`pc`), the tool step in
  hand, the latch, the invocation's cancellation flag (`stop`), the heartbeat
  (`beat`) and the answer of its approval future. Executions of earlier
  attempts may still be alive when a later one starts.
* `active`, `waiter`, `signal`: the registered latch, the approval waiters, and
  what a cancel or pause command still has to do after its commit.
* `effects` and `asked` are history: how often a step's effect ran, and for which
  Tasks a cancellation was ever asked.

`Verdict` is what `_execute` concludes from the row it reads after the turn;
`WriteVerdict` writes it later, when the row may have moved. `AfterConfirm` is the
stretch of `ToolStep.execute` between the confirmation and the commit, which does
not await.

### ScheduleDelivery

`schedule` and `occ` are the rows of the two schedule tables; a timer stands for
`lease_expires_at` of a claimed and `next_attempt_at` of a waiting occurrence. `run`
is the runtime Task of each request, reduced to what a retry tells apart: whether it
exists, whether it is finished, and whether its phase is still the one it was
created with, because a repeated create compares the phase. `linked` is
`task_executions`. `call` is where the dispatcher and a client are in
`execute_definition`; each step is the code up to the next commit. The dispatcher is
one coroutine, so it claims nothing while it delivers, even if the lease of what it
delivers lapses. `claim_due` is three actions for its three outcomes.

### TriggerDelivery

An event is a Resource with a content, because `external_event_id` is the digest of
both. The bridge (`bridge`) reads the inventory, lists the Resources one after the
other and hands each to `receive()` or, on the first pass, to `baseline()`; the dispatcher
(`disp`) claims, lists the executions, creates, links and marks, or defers, retries
and gives up. A payload that does not fit into the goal (`Spilled`) is written to an
artifact, whose name makes a repeated create differ from the first one. The actions of
the executor, the clock and the MCP server are external.

### ProductTask

`def`, `provider` and `bound` are the three tables involved. `cmd` is the place of the one
command a client has under way, which is as deep in its `except` clauses as the code is
(`CmdStepFails` takes the branch the code takes, and a failing step of a rollback sets
`logged`). `repair` is `_ensure_trigger_binding`, which runs between any two steps.

### EventStream

The journal grows by commits, and each committed event is published in a step of its own
(`Publish`), which may be lost. `hub` is the subscription with its queue; a full queue
drops the subscription, which the stream notices and replays. `stream` is the generator
`events()` together with the server task that sends what it yields, `client` the buffer of
`CoreClient.task_events()`, `feed` the other generator, `principal_events()`.

### Interactions, Conversation, Delegation

`Interactions`: `question` is the row, `asker` the coroutine with its steps `begin`, `wait`,
`expire`, `waiter` the future, `answer[c]` the `resolve()` of each client, which commits in a
thread and wakes the waiter later.

`Conversation`: `turn` and `approval` are rows; `exec` is `_execute` with the tool call's
`confirm`; `reply[c]`, `cancel` and `notice` are the calls of clients, each with the row it read
before its transaction; so has the last `checkpoint` (`CheckpointReads`, `CheckpointWrites`). `StopTurn`
cancels the coroutine, whose handler makes a checkpoint of its own, and leaves the thread of the
call it was in running (`orphan`): two checkpoints of one turn may overlap. `odd` records the three things that happen against the intent of
the code (a write after an outdated read, a notification with an outdated snapshot, an
approval asked for after a cancellation), so that the properties say exactly where these end.

`Delegation`: `spawn` is `_spawn_unlocked` under its lock, `CreateChild`, `RecordPolicy`, `LinkChild`,
`Activate` being its transactions, and `CancelStaged` and `CleanUp` its rollback. A cancelled
spawn leaves an activation running in its thread (`adrift`). `past` is history.

### HubExchange

`NodeStep` is the pass of `_publish_observations`: list the unprojected intents, post each, mark
it; pull a batch of webhooks, fire their triggers one after the other in the order of arrival,
acknowledge. A push pass (`Pass`) is either the Hub's
loop or a request that adds rows; two of them may push the same row (`flight`). Timers are
sets of rows that are not due (`waiting`, `handed`).

### Configuration

A revision is a document with how it came about. `apply` is the holder of the service's
lock, with the place it is at: preflight, stopping and starting of MCP servers one by one,
checking the runtimes, switching, or undoing. `SwapFails`, `SwitchFails` and `SwitchRaisesLate`
are the failures the code distinguishes. `CoreDiesAndStarts` includes the convergence at
start-up.

### AgentGenerations

`job` is `execute_turn()` of each turn, of a user or of what his turn waits for: the review of a
tool call or a Child (`wait`). `barrier` is the queue of `_generation_barrier`: a turn has it from
`Prepare` until it has taken its place (`TakePlace`), a configuration while it replaces generations
(`Replace`). A turn whose session has no binding yet leases the generation twice with the barrier:
to create the session (`SessionCreated`) and, when that place is given back, to run. `gen` are the generations with the queue of their semaphore, `managed` the active and
the draining one of each Agent. A cancelled review leaves whatever queue it is in (`ReviewCut`)
and then leases a generation again, without the barrier, to delete its session.

### McpClient

Every coroutine is a program counter: `actor` for the calls and the bridge, `life` for the
owners. `rwlock` has its counters, the queue of `asyncio.Condition` and who sleeps; it is
modelled to the wake-up because two of the documented promises are about it. `pipe` is the
connection as the server sees it; `ran` counts the runs of a call on the server. Cancellation
is an action at every await.

### RemoteModel

`post[i][t]` is the request of invocation `i` over transport `t`, which outlives the caller's
patience (`Abandon`): `Invoke` and `Answer` may come at any time. `row`, `log` are the tables of
the target, `work` its coroutine, `free` the deployment's semaphore, which keeps the value it
was made with.

### RelayTunnel

`link[k]` is one websocket of the Node as both sides see it, so that the Hub may learn of its
loss after the next one was made. `down`, `up`, `outbound`, `inbound` are the queues; `sessions` the
cipher sessions of each link, `handler` and `job` the coroutines. A frame carries its visit and
number; a receiver that meets another number than the next closes (`garbled`).

### HostUpdate

`host` is the action of the broker with what it remembers; `store`, `versions` and `staging` are
the updater's files, whose commands are atomic except that the updater may be killed after the
pointer has moved (`UpdaterIsKilled`). A service runs what is current when it is started. One that
was asked to stop may run on (`lingering`: on Windows `sc.exe stop` does not wait); `StopServices` waits
for it, `WithdrawServices`, `Deactivate` and `ActivationEnds` do not, and until it has stopped
(`ServiceStops`) any command for it fails (`CommandFails`).

## 3. Runs

| Run | Instance | Properties | Distinct states |
|---|---|---|---|
| `tasks` | `deep`: 1 staged Task, 2 approvable actions, 2 tool steps, 3 claims; `many`: 3 Tasks of two sessions and principals against small limits | `TypeOK`, `JournalMatchesTask`, `LeaseFollowsAttempt`, `SessionExclusive`, `CapacityRespected`, `TerminalIsFinal`, `DecidedOnce`, `ImplementsLifecycle` | 950,204 |
| `execution` | 1 Task, a free and an approvable call, 2 slots, 2 attempts | `ExecTypeOK`, `EffectOnce` | 1,051,366 |
| `refinement` | 1 staged Task, automatic reviewer, overlapping commands | `EffectApproved`, `Spec` | 1,141,321 |
| `progress` | 1 Task, free calls, fair scheduling | `NoLostWakeup`, `WorkGoesOn` | 90,369 |
| `deliveries` | parts schedule, notice, webhook, configuration, review, child | `DeliveriesTypeOK`, `OccurrencesAccounted`, `NothingFallsThrough`, `ConfigurationSound`, `GenerationsSound`, `FiresOnSchedule`, `DeliveriesEnd` | 272,223 |
| `services` | parts stream, feed, trigger, product, question, chat, stop, viewer, delegation | `ServicesTypeOK`, `DeliveredOnlyNews`, `NoSilentDrift`, `QuestionSound`, `ActedAsApproved`, `FailClosed`, `SeenInOrder`, `StreamsSettle`, `EventsSettle`, `EventTaskIsRepaired`, `AnswerArrives`, `FinishedStaysFinished`, `TurnsEnd` | 147,789 |
| `platform` | parts calls, bridge, remote, crowd, shared, tunnel, host | `PlatformTypeOK`, `McpSound`, `RemoteSound`, `TunnelSound`, `HostSound`, `RequestsEnd` | 170,033 |
| `pause_latch`, `checkpoint_lost`, `waiter_gap`, `double_launch`, `update_undone` | as small as shows it | one property each, violated: section 5 | |

* `tasks` asks whether the tables that each repository method writes by hand stay
  consistent, when every method may be called at any time and recovery may run at any
  point. The journal alone (its newest state event, its length, its terminal events)
  always tells what the row says; a lease exists exactly while there is a running
  attempt; a finished Task is frozen; a decided approval and a finished step stay as
  they are. `ImplementsLifecycle` is the refinement: every transaction is a move of
  `TaskLifecycle`, whose only rule about several Tasks is that one starts when its
  session is free. The global limit binds in the instance `many`; the limit per
  principal, which is the same code with another filter, is covered for all values by
  the proof.
* `execution` lets leases lapse under live executions, so that a stale and a new
  execution of one Task run side by side over two slots, and lets the process
  crash anywhere. The effect of a step (`effects`) is counted where the registry's
  commit runs, not where the database says so. `EffectOnce` is the claim the tool
  step table exists for.
* `refinement` checks the composed process against `DurableTask`'s own `Spec`: the
  memory of the executor never makes a write the aggregate does not allow. It also
  checks that a confirmed action ran only under an approval that is in the table.
* `progress` checks liveness. Without approvals, because a human's answer cannot be
  assumed. `WorkGoesOn`: a claimable Task is claimed, a launched execution ends.
  `NoLostWakeup` is the safety half: while there is a slot, the worker does not sleep on a
  claimable Task. The code has exceptions, which `Overlooked` names (section 5); with one Task
  and no reviewer, as here, there is none.
* `deliveries` lets every step of a delivery fail, or succeed and be forgotten, and each
  side die, while schedules are paused or deleted, tokens registered and disabled, and
  routes removed. `OccurrencesAccounted` relates schedule and occurrences, bounds the
  attempts and says that a delivered occurrence has its linked execution.
  `NothingFallsThrough` is the same for the tables of Core and Hub. `ConfigurationSound`
  says that a draft undoes nobody else's edit, that what is applied was checked, and that
  it is in force when the lock is free. `GenerationsSound` is about the turns it is brought
  into force under: a turn runs on the generation its policy was resolved for, an Agent has
  one active and one draining generation, and what has drained is not used again.
  `DeliveriesEnd` joins what must end: `OccurrenceSettles` for occurrences, `ExchangesArrive` for
  notifications and webhooks, `TurnsServed` for turns. With it go `DeliversAsPromised`, the
  refinement of `BoundedDelivery`, and `OccurrenceIsAttended`: an occurrence that is not settled
  is due, or a lease or a backoff runs that will make it due.
* `services` is about the coroutines of Core around the aggregate. `SeenInOrder` and
  `StreamsSettle` are the promise of event streams: in order, without gap, and to an end.
  `DeliveredOnlyNews` and `EventsSettle` are that of triggers, `NoSilentDrift` and
  `EventTaskIsRepaired` that of product Tasks, `QuestionSound` and `AnswerArrives` of
  interactions, `ActedAsApproved`, `FinishedStaysFinished` and `TurnsEnd` of
  conversations, `FailClosed` of delegation. The properties about what must happen contain, beside
  the leads-to, as an action property, that no step leaves anything where nobody would see to it:
  `EndIsHeard` (a stream that waits while its Task is finished is still to be told),
  `EventIsAttended`, `AnswerIsTold` (who waits for an answer that counted has somebody about to
  set the future), `CancelIsHeard` and `EndIsNoticed`. `EventsSettle` also has `SettledStays` and the
  refinement of `BoundedDelivery` (`EventsAsPromised`).
* `platform` is about what joins a host to others. Every property is a conjunction
  of promises the modules name: `McpSound` has the two rules of the lock, the rule
  that `close()` can reach every owner and that no call uses a closed session;
  `RemoteSound` that an invocation runs once and its caller gets the whole record;
  `TunnelSound` that frames reach whom they are for; `HostSound` that an update is whole
  or undone. `RequestsEnd` says that nobody who asked another process is left waiting.

Several properties are conditional on something the code lets happen: `EventsSettle`
on the Task not staying busy, `AnswerArrives` on `Overtaken`, `TurnsEnd` on `odd`,
`ExchangesArrive` on `Blocked`, `TurnsServed` on `Gridlock`, `TwoGenerations` on `removed`, `NobodyStranded` on `dropped`, `ClientIsServed` on `stale`,
`AppliedInForce` on `raised` and `failed`. Each of these conditions is a defect or limit that section 5
describes; the property says that nothing else goes wrong.

Every property is shown to be able to fail by a mutant: the definitions named
`X_Y` next to a definition `X` are the changed forms (a dropped guard, a missing
reset, an off-by-one), and `PROJECT.json` pairs them with the properties they break.


### Bounds

`MaxAttempts` bounds the claims of one Task and `MaxEvents` the journal length up
to which a Task may loop (resume, recover, append); beyond it a Task can still
finish. Two attempts are the least with which a stale execution meets a newer
one, three let it happen twice. One Task is enough where the hazard is between
a Task's own execution, commands and recovery; three Tasks, two sessions and two
principals are the least that tell the session rule from the limits. `Staged`
holds the Tasks created by a delegation. `Happens` names what the environment does
in an instance of `TaskExecution` (commands, overlap of commands, crashes, late
heartbeats, timeouts, failing checkpoints), so that each run explores its question
within minutes; between the runs every member occurs. `cancel` is left out of
`progress`: a cancelled Task is never claimed again, and its latch takes the same
path as that of a pause.

| Module | Instance | Why it is enough |
|---|---|---|
| `ScheduleDelivery` | `MaxTime` 3, anchor 1, interval 2 or one-time, 2 occurrences, 2 attempts, 1 crash | claims on time, late claims and an instant missed altogether; ordering needs two occurrences, a retry two attempts |
| `EventStream` | queue of 1, client buffer of 2, pages of 2, 3 events, 2 subscriptions, 1 fault | every queue overflows and a replay has more than a page |
| `TriggerDelivery` | 1 Resource with 2 contents, one of which spills, 2 attempts, 1 change, 1 mishap | a baseline and one piece of news; deliveries of two events interleave in the dispatcher and with a start by hand |
| `ProductTask` | 2 commands, 2 failures | a step of the command and a step of its rollback fail; the second command meets what the first has left. `MaxProviders` 5 never binds |
| `Interactions`, `Conversation` | 2 clients, 1 death or restart | two answers race; a second death is a first one of another life |
| `Delegation` | 2 keys, one at a time, 1 break | a retry and a competing spawn; 2 breaks also hold (36,295 states) |
| `HubExchange` | 2 intents, 1 device with 2 tokens; 2 sources with 1 webhook each, an outbox of 1; 1 fault | order between two intents, a token replaced, a source that blocks another; 2 faults also hold for notifications |
| `Configuration` | 2 servers, 1 setting, 1 editor and the controller, 2 edits, 1 upset | two edits with different bases; a failure between two servers; 2 upsets also hold (185,907 states) |
| `AgentGenerations` | 2 turns, 1 place in a generation, 2 configurations, three Agents; one turn at a time has a review or a Child | a turn holds the only place while another one waits for it with the barrier; a second configuration meets the generation that the first one drains |
| `McpClient` | 2 calls (read-only and not), or 1 call and the bridge; 1 trouble | a reader against a writer; both calls and the bridge together (253,329 states) and 2 troubles also hold. `MaxOwners` 6 never binds |
| `RemoteModel` | 1 invocation with all transports and 2 outages; 2 invocations for a deployment of 1 | restart in mid-stream, then a late request; 3 outages (8,319 states) and two invocations on all transports (336,424) also hold |
| `RelayTunnel` | 2 visits on one ticket with a request each, or 1 visit with 2 requests; 2 links | the ticket's first session meets its second; three visits (2,360,798 states) and two visits with two requests each (1,374,359) also hold |
| `HostUpdate` | 2 releases, 2 roles, 1 lapse, one role with a service that may take its time to stop (`Slow`) | an update, another back, one rejected while a service still stops; 3 releases and two slow services also hold (2,704,179 states) |

Two bounds restrict what may happen together. In `deliveries` Core dies only while a schedule has
one occurrence at most (`OneOfBoth`); the proofs of `OccurrencesAccounted` and `FiresOnSchedule`
have no such bound. In its parts `review` and `child` a configuration changes one of the two Agents
in use at a time.

`CHECK_DEADLOCK FALSE` is set where the bounds, or a Task nobody acts on, let the system
stop. Only `tasks` uses symmetry. It is sound: the two Tasks it permutes have the same
session, owner and priority, and the refinement it checks has no fairness.

### Fairness

Nothing is assumed of clients, of the lease clock where it is not named, of crashes and
faults; liveness properties speak about behaviours in which what fails eventually stays up.

* `TaskExecution`: coroutines that can go on do (weak fairness of the worker, of the
  confirmation, commit and closing steps and of the signals that follow a command), a
  stopped Core is started again, and a model turn ends (strong fairness of `TurnEnds`: a turn
  is bounded by `max_iterations`, but tool calls take it out of the state in which it may
  finish).
* `ScheduleDelivery`, `TriggerDelivery`, `ProductTask`: the dispatcher and the bridge go on (they
  wait at most for an interval), leases and backoffs are finite. Nothing says that an
  execution ends.
* `EventStream`, `Interactions`, `Conversation`: the event loop runs what can run, and a
  cancelled agent ends its turn. Nobody is bound to commit, to subscribe, to answer.
* `HubExchange`: the loops of the Node (every 30 s) and the Hub (every 10 s) go on, pushes are
  answered, backoffs and the 15 s for which a webhook is handed out end.
* `AgentGenerations`: turns go on, and waits with a deadline end: that of a turn, of a review and
  of a parent for its Child. `publish()` inside a tool call has none. Nobody has to start a
  turn, to ask or to publish.
* `McpClient`: coroutines go on; a request is answered or times out.
* `RemoteModel`: a direct or P2P request and the stream of a provider time out; a Relay that
  does not break delivers, because the code gives that request no timeout of its own.
* `RelayTunnel`: event loops go on, requests are served, a lost connection is noticed by
  pings; nobody is bound to reconnect.
* `Delegation`, `Configuration` and `HostUpdate` have safety properties only.

## 4. Proofs

`DurableTask_proofs` proves, for every finite set of Tasks, every assignment of
sessions, principals and priorities, any sets of actions and steps and any limits
(`ConstantsAssumption` is all that is assumed):

| Theorem | Statement |
|---|---|
| `TypeCorrect` | `Spec => []TypeOK` |
| `JournalCorrect` | `Spec => []JournalMatchesTask` |
| `LeaseCorrect` | `Spec => []LeaseFollowsAttempt` |
| `LifecycleImplemented` | `Spec => ImplementsLifecycle` |
| `SessionsExclusive` | `Spec => []SessionExclusive` |
| `TerminalsFinal` | `Spec => TerminalIsFinal` |
| `DecisionsOnce` | `Spec => DecidedOnce` |
| `CapacityCorrect` | `Spec => []CapacityRespected` |

The argument. `TypeOK` is inductive. `JournalMatchesTask` and `LeaseFollowsAttempt` are
each inductive relative to it: the lemmas `AppendKeepsJournal` and
`ReleaseKeepsLease` say what the two shared helpers (`AppendEvent`,
`FinishActiveAttempt`) guarantee, and each action is one of their uses. `TerminalIsFinal`
does not follow from the types: `LeaseExpires` and the recovery pass look at the
lease, so the proof needs `LeaseFollowsAttempt`, by which a finished Task has none.
`LifecycleImplemented` takes each action to a move of `TaskLifecycle` or a stutter, with
the identity on `state` as the mapping; `SessionExclusive` is then shown from the
abstract moves (`MoveKeepsSessions`) rather than from the actions again.
`CapacityRespected` rests on `OnlyCreateAdds` (no other action adds an unfinished Task)
and on cardinality facts of the library. `CreationOrder` (Tasks are numbered as they were
created, no two alike) gives that `claim_next()` finds a Task whenever one may be claimed.

`ScheduleDelivery_proofs` proves, from `DeliveryAssumption`, for every anchor, interval and
number of occurrences, attempts and crashes:

| Theorem | Statement |
|---|---|
| `DeliveryTypeCorrect` | `DeliverySpec => []DeliveryTypeOK` |
| `FiresCorrect` | `DeliverySpec => FiresOnSchedule` |
| `AccountsCorrect` | `DeliverySpec => []OccurrencesAccounted` |
| `OccurrencesArePromised` | `DeliverySpec => DeliversAsPromised`, the specification of `BoundedDelivery` |
| `OccurrencesAreAttended` | `DeliverySpec => []OccurrenceIsAttended` |

`FiresCorrect` is arithmetic: `FirstInstant` counts whole intervals, and the lemmas show that
the instant it gives is later than its argument and that none lies between.
`OccurrencesAccounted` is not inductive. A waiting occurrence is claimed again without a
test, so `AttemptsInv` adds that it has an attempt left; a mark needs what the call in
flight has established by the time it links and marks (`LinkInv`); and two occurrences of one
instant are excluded because a schedule that may still fire has a next instant later
than all its occurrences (`AccountInv`). The refinement maps every transaction to one move of
`BoundedDelivery` or a stutter. It needs that what the dispatcher has in hand is an occurrence it
claimed and nobody took from it, even after its lease has lapsed, unless the schedule was deleted
(`HandInv`). That nothing is left unattended is the one lemma that whoever writes `claimed` or
`retry_wait` starts a lease or a backoff in the same statement (`TimedInv`).

`Delegation_proofs` proves, from `DelegationAssumption`, for any number of keys, children and
breaks:

| Theorem | Statement |
|---|---|
| `DelegationTypeCorrect` | `DelegationSpec => []DelegationTypeOK` |
| `FailsClosed` | `DelegationSpec => []FailClosed` |

`FailClosed` speaks about children that may run, and most steps act on children that may
not yet. `DInv` therefore adds to the types what the database promises of every child
(`LinkInv`: a link comes after the policy and with the artifacts, and a child without a link
is staged or over unless a client touched it), what each place of the spawn has
established (`SpawnInv`), and, for the limit on parallel children, that fewer than the limit
were linked when the spawn under way began (`LimitInv`): nothing but a spawn adds a link.
`SpawnStepsKeep` is the lemma that the steps of a spawn keep the first two.

`TaskExecution_proofs` proves, from the assumptions of both modules, for any Tasks, attempts,
actions, steps, slots and whatever `Happens`:

| Theorem | Statement |
|---|---|
| `ExecTypeCorrect` | `ExecSpec => []ExecTypeOK` |
| `EffectsOnce` | `ExecSpec => []EffectOnce` |
| `EffectsApproved` | `ExecSpec => []EffectApproved` |
| `ExecutionImplements` | `ExecSpec => Spec`, the specification of `DurableTask` |
| `AggregateHolds` | what `DurableTask_proofs` proves, of `ExecSpec` |
| `WakeupsKept` | `ExecSpec => []NoLostWakeup` |

The refinement is nearly syntactic, since most steps of the process are one transaction and
some memory, except in one place: an answered approval puts its Task back to `running` only if
a registered waiter of a live execution takes it (`ResumeStateFor`), and that is a move of the
aggregate only if the Task still has its lease. Hence `Detached` (a waiting Task without a lease
has no execution), `WaitersWait` (a waiter is an execution that waits for that action),
`Unclaimed` and `DownIsEmpty`. `EffectOnce` needs that an execution about to run a step has
recorded it and not run it (`Recorded`), and that no two executions of a Task, stale and new, are
there with one step (`OneRuns`); this follows from the aggregate, where a step is begun once
(`StepsOnce`). `EffectApproved` needs that a positive answer in the memory of an execution
(`YesIsApproved`) and a passed confirmation (`GoIsApproved`) rest on a stored approval, which is
never undone (`ApprovalsOnce`).

`WakeupsKept` is about two Tasks at least, of which one becomes claimable by a write to the other.
Its invariant adds to the executor's that a finished execution which still holds its slot has set
the wake event (`OverIsTold`), that only an automatic reviewer lets an execution resolve its own
approval (`AutoDecides`), and `CreationOrder`, by which the worker goes to sleep only when there is
nothing to claim. All steps the worker has no part in are `Behind` its back: no execution begins or
ends, and each row that is written while the wake event stays clear changes in one of the five
ways of `Silent`. That these five leave no claimable Task but an overlooked one is then shown
once, for all of them.

`AgentGenerations_proofs` proves, from `GenerationAssumption`, for any turns, places and
configurations:

| Theorem | Statement |
|---|---|
| `GenerationTypeCorrect` | `GenerationSpec => []GenerationTypeOK` |
| `GenerationsCorrect` | `GenerationSpec => []GenerationsSound` |

`PolicyOfGeneration` holds because of the barrier: from the moment its policy is resolved until it
has a place to run, a turn is the head of the queue, and its policy that of the active generation
(`BarrierInv`), also while it creates its session on a lease of its own, while a replacement needs the same head. That what has drained is idle needs that
a draining generation accepts nobody (`DrainInv`). The lemma `LeavingQueue` says that cancelling
one that waits does not dethrone the head.

`Deliveries_proofs` proves, from `HubAssumption` and `ConfigurationAssumption`, for any numbers of
intents, devices, tokens, sources, webhooks, servers, settings, editors, edits and faults:

| Theorem | Statement |
|---|---|
| `HubTypeCorrect` | `HubSpec => []HubTypeOK` |
| `ExchangeLosesNothing` | `HubSpec => []NothingFallsThrough` |
| `ConfigurationTypeCorrect` | `ConfigurationSpec => []ConfigurationTypeOK` |
| `ConfigurationCorrect` | `ConfigurationSpec => []ConfigurationSound` |

`NothingFallsThrough` needs that the intent the Node is about to mark is at the Hub (`MarkInv`), that
what it is about to acknowledge has reached Core (`FireInv`), and that an active device has a
token (`TokenInv`). `ConfigurationSound` needs that a draft differs from its base only in what was set
in it (`DraftInv`), that the version a publisher expects belongs to the very document the preflight
sees (`LockInv`), that `apply_status` tells whether the desired revision is the applied one
(`StatusInv`), and for every place of an apply which servers run, and from which revision
(`ForceInv`).

`Services_proofs` proves, from the assumptions of each of the five modules, for any numbers of
clients, Resources, contents, attempts, events, capacities, commands and failures:

| Theorem | Statement |
|---|---|
| `InteractionInvariant`, `QuestionsCorrect` | `InteractionSpec => []InteractionInv`, `=> []QuestionSound` |
| `AnswersAreTold` | `InteractionSpec => []AnswerIsTold` |
| `ConversationInvariant`, `ActsAsApproved`, `TurnsStayOver` | `ConversationSpec => []ConversationInv`, `=> []ActedAsApproved`, `=> FinishedStaysFinished` |
| `CancelsAreHeard`, `EndsAreNoticed` | `ConversationSpec => []CancelIsHeard`, `=> []EndIsNoticed` |
| `TriggerInvariant`, `OnlyNewsDelivered`, `EventsStaySettled` | `TriggerSpec => []TriggerInv`, `=> []DeliveredOnlyNews`, `=> SettledStays` |
| `EventsArePromised`, `EventsAreAttended` | `TriggerSpec => EventsAsPromised`, the specification of `BoundedDelivery`; `=> []EventIsAttended` |
| `StreamInvariant`, `JournalSeenInOrder` | `StreamSpec => []StreamInv`, `=> SeenInOrder` |
| `EndsAreHeard` | `StreamSpec => []EndIsHeard` |
| `ProductInvariant`, `NothingDrifts` | `ProductSpec => []ProductInv`, `=> []NoSilentDrift` |

* Interactions: a set future names the client the row names, and an asker that was told of
  its withdrawal has an expired row (`RowInv`, `WaitInv`). An answer that counted came before the
  waiter was registered, or was overtaken by another, or is about to find it (`ToldInv`).
* Conversation: `CallInv` says who is where in the life of the one tool call and that a turn
  which is over is not executed, except by a checkpoint that has read it before; `ApprovedInv`, that as long as no write followed an outdated
  read every yes on its way, in a future or in a client's hands, is that of the record. `HearInv`
  is about what is on its way to those who wait: `cancel()` sets the cancellation before it looks
  for the approval, so one that was asked for in time is found or was answered, and whoever
  closed the row is about to wake its execution; a notification under way ends with the turn. The
  callers of a notification are told apart by name, so no approver has the name of one
  (`ConversationAssumption`).
* Triggers: events live and die with their trigger (`OwnerInv`), what the dispatcher has in hand
  was claimed and what it marks is linked (`DispatchInv`), and what waits has an attempt left
  (`AttemptInv`). The refinement needs besides that what the dispatcher has in hand stays claimed
  until it lets go of it and that a claim has counted (`GraspInv`), so that a deferral may take
  it back; `TimedInv` is that of schedules.
* Streams: nobody is ahead of the journal (`BehindInv`); and what is buffered goes on where the
  client is, the stream goes on where the buffer ends, and an error is the last thing in a
  buffer (`OrderInv`). The second is what overflow, replay, reconnection and late publications
  have to re-establish, each in its own way. `HeardInv` follows the terminal event: while the
  stream listens, it is unpublished, in the queue, or what is being sent, or the queue holds the
  error that makes the stream replay.
* Product Tasks: `ControlInv` says which steps a command takes and undoes, `RecordInv` what it has
  read before each. `Shape` draws, for every such step, what definition, binding and providers
  look like as long as no rollback has failed, nothing died and no bridge runs (`Calm`).
  `Coherent` at the end of a command is then its last picture. TLC had checked `ProductInv` on
  1.6 million states of a larger instance before the proof was tried.

`Platform_proofs` proves, from the assumptions of its four modules, for any releases, roles,
invocations, limits, calls, owners, visits, sessions, requests, links and troubles:

| Theorem | Statement |
|---|---|
| `HostInvariant`, `UpdatesAreWhole` | `HostSpec => []HostInv`, `=> []HostSound` |
| `RemoteInvariant`, `RemoteIsSound` | `RemoteSpec => []RemoteInv`, `=> []RemoteSound` |
| `McpInvariant`, `McpIsSound` | `McpSpec => []McpInv`, `=> []McpSound` |
| `TunnelInvariant`, `TunnelIsSound` | `TunnelSpec => []TunnelInv`, `=> []TunnelSound` |

* Host: what every place of an update finds in the release store compared with the one it
  began with (`StoreAt`), that its services are down while the pointer may move, or are stopping when
  a release is rejected (`AtRest`), that none it has waited for is stopping (`Settled`), and that
  services whose health is awaited run the bundle (`NewRuns`).
* Remote models: `RowInv` ties a row to its log, its coroutine and the calls of the provider; a
  chunk list under way, in a request or at the caller, is a prefix of the log, and all of it
  unless its end was torn off (`PostInv`); the semaphore's places and their holders add up
  (`SlotInv`).
* MCP: the lock knows exactly the calls that are where they need it (`HoldInv`); unless a call was
  cancelled, every sleeper has somebody left to wake him, through the wake-ups that are already
  under way (`QueueInv`); the session is that of the connection on the stack (`SessionInv`); owners
  are numbered in the order of their starts and a call that waits for one knows it (`OwnerInv`);
  and the server runs a call once per attempt (`RunInv`). Checked on 2.04 million states.
* Relay: the Node has one link at a time, and a lost one carries nothing (`LinkInv`). A session
  whose client has left is followed by its reset in the queue of its link (`ResetInv`). For a
  client with a ticket of its own: each of its frames is under way once and is news to the
  Node (`AskInv`); the answer that is sealed has the next number, since the sender holds the
  send lock (`SealInv`); and either the Node has not heard of the visit and nothing comes back,
  or it has it on one link, on which the frames from the one the client expects to the last
  one sent stand in line, or had it on a link that is lost (`LiveInv`). The lemmas about `Line`
  say what taking the head, adding at the end and foreign frames do to such a line.

Each of the three `_proofs` modules for the composites also shows that the composite is what it
claims to be: a step of one part is a step of its component, and the others stutter.

| Theorem | Statement |
|---|---|
| `DeliveriesCompose`, `DeliveriesTypeCorrect` | `DeliveriesSpec` implies the specifications of its four components, `=> []DeliveriesTypeOK` |
| `ServicesCompose`, `ServicesTypeCorrect` | the same for the six components of `ServicesSpec` |
| `PlatformComposes`, `PlatformTypeCorrect` | the same for the four components of `PlatformSpec` |

They assume that the sets from which the composites name a member have one (`Turn`, `Approver`,
`Invocation` are not empty, and 1, 2, 3 are visits), as in every instance. The fairness is that of the
components, so that what TLC finds of liveness in a composite it finds of behaviours of the
components themselves.

Only model-checked: what needs fairness, which the prover does not handle, that is the
leads-to part of `WorkGoesOn`, `DeliveriesEnd`, `StreamsSettle`, `EventsSettle`,
`EventTaskIsRepaired`, `AnswerArrives`, `TurnsEnd` and `RequestsEnd`. What such a property
rests on is proved: that nobody waits where nothing is left to end the wait. For
`WorkGoesOn` it is `NoLostWakeup`; for the others the conjuncts of section 3, `NothingFallsThrough`
(`ExchangesArrive`), `NoSilentDrift` and the parts of `McpSound`, `RemoteSound` and `TunnelSound`
about who can still be reached. What is left to TLC is that the steps which remain enabled are
taken. The refinements of `BoundedDelivery`, and the safety conjuncts of these properties, are
theorems of their own. All other properties of the passing runs are theorems. Bounds such
as `MaxAttempts`, `MaxFires` and `MaxBreaks` are arbitrary naturals in them. What the parts of a
composite leave out (such as a second turn with a review) is not left out in the theorems about its
components.

## 5. Disagreements between code and documents

Runs that end in a violation, with the finding in `PROJECT.json`:

* `pause_latch`: a pause sets the same latch as a cancellation. The heartbeat
  ends with the latch, the lease lapses, the recovery pass pauses the Task and
  overwrites the phase; after a resume the old execution reads the latch and
  cancels the Task.
* `checkpoint_lost`: when `finish_tool_step` fails, the error is raised inside the
  tool call and becomes a failed tool result; the turn completes and the step
  stays `committing`.
* `waiter_gap`: `confirm()` registers its waiter after the approval request is
  committed; a cancel in between refuses no waiter, and the execution waits for
  ever.
* `double_launch`: `execute_definition` lists the executions of a product Task and
  creates and links a new one later; a delivery and a start by hand that both list
  first are both let through. A crash between creating and linking hides the first
  execution in the same way.
* `update_undone`: `ConfigurationController` makes its document from the applied
  revision and its draft from the desired one; a call that waits for an apply undoes it.

Others met while modelling, visible in the models but without a run of their own.

Agents:

* A turn that publishes a configuration in a tool call waits for `_generation_barrier`, which
  another turn may hold while it waits for the place of the first (`execution.py:201-220`,
  `composition.py:1498-1500`). No deadline cancels the call of the tool: neither turn ends, and no
  other begins (`Gridlock`).
* `AgentManager` says it owns "one active and at most one bounded draining generation per Agent"
  (`manager.py:50`). An Agent that was removed and added again has none of its draining
  generations remembered, and several may have leases (`removed`).
* A turn that has leased a generation which is replaced before `start_turn()` fails with
  `agent_unavailable`, though it holds a lease (`StartTurn`).

Tasks and schedules:

* `events()` returns without the terminal event when the Task finishes between the last
  page and the second read of its row, and a client that waits for that event subscribes
  for ever (`service.py:775`; design 211-213, 486).
* A repeated create request is refused as a conflict once the stored Task's phase
  has changed (`CreateOutcome`; the design says it returns the original Task).
* `request_pause` moves queued to paused and `resolve_approval` waiting to queued,
  neither of which is in `_TRANSITIONS`.
* The heartbeat ends at the latch, or at a renewal that finds the Task waiting, so
  a lease can lapse under a live execution.
* A graceful stop cancels the coroutine that waits for an approval, whose handler
  then denies the approval (`DenyOnStop`, `approval.py:158`).
* A cancellation accepted before a crash ends in a pause: `recover_interrupted`
  does not look at `cancel_requested` (`runtime_repository.py:1395`), and a resume
  clears it (`:930`). With both a pause and a cancellation requested the pause wins.
* `cancel` and `pause` do not wake the worker (`service.py:683`): after a restart,
  cancelling a waiting Task leaves the next Task of its session queued until something
  else wakes the loop. Nor does an automatic review wake it that puts back a Task whose own
  execution goes on. `Overlooked` says which Tasks this can happen to.
* The reviewer's annotation changes the stored reason, so the same request after
  a restart is a conflict (`ConfirmOutcome`).
* An occurrence whose Task was created can end `dead`: after a crash before the mark,
  the retry meets its own execution as an active one, or as a conflict once its
  phase has changed, until the attempts are used up.

Triggers and product Tasks:

* The retry of an event whose payload was spilled conflicts with the Task it has created.
* A trigger that is paused, or a read that fails, ends the reconciliation pass for all
  later Resources. When the read of a baseline fails, a later pass delivers that inventory
  as news. A claimed event of a paused trigger is still launched.
* `delete` whose unbind fails after the provider was deleted leaves a binding to nothing. A
  crash in `update` can leave a schedule bound to an event Task, which the repair does not
  mend. The bridge racing a delete leaves a trigger without a Task. The repair uses one
  request ID per Task and meets a conflict after the goal changed.
* `delete_session` checks for unfinished Tasks and acts later, against `create_turn`.

Conversation, interactions, delegation:

* `resolve_approval` reads the row before its transaction begins; a cancellation in
  between is overwritten (`conversation/repository.py:796-798` says the opposite).
* `checkpoint` reads the row before its transaction too. When `stop()` cuts it off, its thread
  goes on beside the checkpoint of the handler, and the later one of the two decides how the
  turn has ended, perhaps after the last notification (`OrphanWrites`).
* A notification with an outdated snapshot replaces the terminal signal in the one-place
  queue, and `updates()` never ends. An approval that is asked for after `cancel()` hangs the turn.
* `resolve()` of one client removes the waiter the answer of another needs; an answer
  before `begin()` has registered is not heard; one that is late by `expires_at` wakes
  nobody. The question of a cancelled agent turn stays open until the next start.
* The retry of a spawn after a rollback before the link always conflicts; after a failed
  activation it raises in `activate_staged`. A staged child that is paused and resumed may
  run without activation (`composition.py:1194-1198` claims it fails closed). A rollback
  whose cancel fails leaves a linked child whose artifacts are gone.

Hub and Node:

* A webhook whose trigger is paused or deleted raises in `fire_trigger` and ends every pull
  pass (`Blocked`).
* A permanent refusal of a push with an earlier token invalidates the token registered
  meanwhile (`hub/repository.py:591`; docs/knoa-product-backlog-solution-design-2026-08-23.md).
* Two passes push the same row, and a late refusal turns a delivered row back to retry.
* Provisioning a route again that was deleted returns the deleted one.
* A conflict of `source_sequence` makes `put_notification_intent` raise a `TypeError`; the Node's
  loop retries that intent for ever.

Configuration, MCP:

* An MCP server that fails to start in an apply stays registered: the previous one of its
  name, and those after it, are not restored (`composition.py:1405`;
  docs/knoa-configuration-control-plane-design.md:106).
* An apply that raises after the switch is recorded as failed while it is in force (`:1470`).
  A crash while applying leaves the status `applying`; the convergence at start-up drops a
  desired revision that was not applied.
* A write whose connection broke after the server ran it is repeated
  (docs/knoa-standard-mcp-host-design.md:671 wants the retry to stop; `TimeoutIsFinal` holds
  for time-outs only).
* A cancelled waiting writer does not wake the readers behind it
  (docs/knoa-architecture-review-and-optimization-plan.md:228). `_ensure_alive` restarts the
  owner under the read lock, and for the bridge under none (`:230`). A call that is cancelled
  while it awaits `ready` goes on waiting with the lock in its hands; one cancelled in `_stop_owner`
  leaves the client without an owner for good. A failed start forgets the owner of another
  call. `close()` during a restart starts a server nobody stops
  (docs/knoa-standard-mcp-host-design.md:216). An old owner that closes late closes the new
  one's stack. `_close_owned` clears the subscriptions, so that listening again is dead code.

Remote models, Relay, host:

* The caller's cancellation is never sent to the target, and an abandoned request that
  arrives late runs the provider for nobody. Relay requests and the exchange of P2P offers
  have no timeout (docs/knoa-cross-platform-runtime-migration-plan.md:236). The semaphore keeps
  the first `max_remote_concurrency`. Two failing writes leave a row running until the next
  start, and later requests get partial chunks.
* A Node that is back before the Hub noticed its loss leaves its clients registered without
  sessions: their frames are dropped and they are not closed. The second connection of a
  ticket fails to register, and its `finally` unregisters the first.
* Nobody empties `.incoming-lifecycle` (`host_lifecycle.py:322`), which `extract_archive` refuses when
  it is not empty, so that the second bundle update fails (docs/knoa-release-bundle-design.md:95).
  The model lets an external hand clear it.
* The services of a release whose health fails are told to stop and not waited for
  (`host_lifecycle.py:342-344`), unlike before the installation: the pointer moves while they may
  run, and the start that follows fails on Windows if they still do, so that they end stopped
  with the update neither made nor taken back. So it is for a role that is updated right after
  its activation failed.
* A failing start after an installation is not rejected, and a failing reject leaves the
  services stopped. Installing the current release again, whose health fails, rejects it to
  the older one or to none. A killed updater or broker leaves the pointer on a release
  that was not checked, and a service that is started runs it. An activation cut off
  before it is recorded leaves a service on the old release across an update.

## 6. Not modelled

`PROJECT.json` gives the reason for every component. The models cover about a tenth of the
Python, Rust and TypeScript of the repository by lines; most of the rest is request
translation, presentation, examples, model I/O and adapters to services, which hold no
state of their own or change one row at a time. Within the modelled parts these are left
out:

* Tasks: schema migrations, traces, read queries; text, sizes and validation of fields; the
  deletion of runtime Tasks; the content of a model turn, which is a nondeterministic
  sequence of tool proposals; preflight, which may refuse a launch.
* Schedules: several schedules that compete for the dispatcher (`claim_due` takes the
  earliest), cron expressions, clock steps backwards.
* Triggers: signatures, and the sources inside the process, which call `receive()`.
* Conversation: sessions, titles, paging, compaction.
* Hub: accounts, enrollment, projections, deployments, hosted services, the fleet.
* Configuration: pruning of history, `diff()`, a change of the schema.
* Agents: a configuration that brings an Agent back to the digest it had (a generation stands for
  its digest, so that a Child with a policy from before is refused; the code accepts it); how a
  policy is resolved, health checks of candidates, `set_default` and `set_enabled`
  outside a configuration.
* MCP: elicitation (its handler is set before the lock is taken,
  docs/knoa-architecture-review-and-optimization-plan.md:231), translation of schemas and
  results, package installation.
* Remote models: tickets, health checks. Relay: cryptography, rate limits.
* Host: source installations, ports and process trees, signatures and unpacking. The Python
  release store, which makes the release to fall back to equal the current one when that is
  installed again, is not the one the broker uses.
* The identity, pairing and grants of the gateway; the artifact store; channels.

## 7. Plan

Done: everything in section 2, and a theorem for every safety property of a passing run. What
would add most next, in this order:

1. `HubExchange` as an implementation of `BoundedDelivery`. Its pushes and webhooks have no bound on
   attempts and a delivered push can turn back to retry (section 5), so that the abstract
   specification needs a weaker form first.
2. `Recurrence`: the cron search as a recursive function against a reference definition over
   a small calendar.
3. Gateway identity and pairing; the artifact store with its lifetimes; the fleet.
