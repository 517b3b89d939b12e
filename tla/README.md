# NapCatQQ Desktop: specifications and proofs

TLA+ models of the part of NapCatQQ Desktop that is hard to test: the tasks that
start, stop and watch bot processes, the daemons that SnowLuma bots share, the queue of
installations, the login pollers, the servers, and the files all of them keep their state
in, through crashes and restarts. TLC checks them on small instances and TLAPS proves the main invariants for all instances. Every
definition is translated from the Rust source; `PROJECT.json` maps each one to its lines.
Paths below are relative to the repository; `crates/` holds the Rust workspace.

## 1. Inventory

NapCatQQ Desktop manages a few QQ bots. A Tauri shell (`src-tauri`) with a React UI
(`src-ui`) calls an asynchronous runtime (`crates/ncd-runtime`), whose tasks run on a
multi-threaded tokio scheduler and talk through actors, shared tables behind locks, and a
broadcast event bus.

| component | state it keeps | operations | talks to | what makes it correct |
|---|---|---|---|---|
| bot actor (`bot_actor.rs`) | snapshot (state, revision, generation, pending restart, error), cancellation token, mailbox | nine commands, `snapshot()`, `cancellation_token()` | mailbox in, one-shot reply and watch channel out | tokens die with their run; flags agree with the state; read your writes; every call returns |
| native deployment (`ncd-deploy/.../native.rs`) | table bot -> pid, generation, stop mark; log buffers | launch, stop, observe; exit watchers, log readers | operating system; event sink | no phantom record, no forgotten process, a mark never outlives its stop |
| bot manager (`bot_manager/mod.rs`, `listeners.rs`) | actors, pollers, WebUI endpoints | start, stop, restart, upsert (with backend switch), delete, bootstrap, shutdown; three event listeners | actor commands, backend calls, event bus | the settled state is the truth; one pipeline per run; no bot hangs in Starting |
| bot registry (`bot_manager/mod.rs`) | saved bots, derived files, table of actors, bots bootstrap skipped | upsert, delete, bootstrap, shutdown_all | config store, actors | a bot that nothing works on has all its parts or none; the limit of bots holds |
| NapCat login poller (`login_poller/`) | login and online observations, counters | poll, refresh credentials, notify, restart the bot | WebUI over HTTP, `restart_bot`, notifier | an outage the poller confirmed is told; news alternate |
| deployment tasks (`deploy/tasks.rs`) | tasks, queue, resource owners, download slots | submit, cancel, delete, clear, finish, dispatch | runners, event bus | resources belong to running tasks, dependencies first, nobody forgotten |
| component actions (`commands/components`, `ncd-component`, `runner.rs`) | QQ and NapCat files of a server | ensure, force, update, uninstall | deployment tasks, SSH files | an installation that says it succeeded is there |
| remote QQ entry (`remote_coordinator.rs`) | lock per server, `main` of QQ's package.json | ensure for QQ, ensure for NapCat, launch | SSH files | a bot runs the entry it set |
| SnowLuma daemon (`snowluma/daemon.rs`, called by `runtime_backend.rs`) | daemon state, reference count, child, pid, client, dead flag | ensure_running, release, shutdown; starter, exit watcher | node process, HTTP client, crash event to the manager | a busy state has an owner, the count is the number of users, no node is forgotten, users keep their node |
| remote SnowLuma stack (`remote_snowluma/`) | reference count, tunnels and their count, endpoints | ensure_running, release, attach after a restart | SSH, remote processes | the count is the number of users, a running bot has its stack |
| server manager (`ncd-server`) | servers.json, live hosts, connect locks, cool-downs, passwords | add, update, delete, key set-up, test, connect, refresh, probe | SSH, keyring | one connect at a time, every cached host is watched |
| config store (`ncd-config`) | JSON files, `.bak` siblings, backup directories, the repository's cache | transactions, save, migrate, import, prune | file system | a save that returned Ok is kept; a rollback is complete |
| data root relocation (`data/relocate.rs`, `data_root_migrate.rs`) | pointer, staging tree, retired marker, gate | move, cancel, delete the retired root, restart | file system, saves | the next start has everything that was acknowledged |
| data root layout (`data/consolidate.rs`) | old and new paths, marker, zips, archives | consolidate at start | file system | no data without a whole copy |
| event bus (`ncd-traits/events.rs`) | broadcast channel of 1024 | publish, subscribe | everyone | subscribers see events in order |
| Docker, remote sessions, downloads, updates, metrics, notifications, watch daemon, templates, logs | files, HTTP, containers | | | mostly I/O |

How they interact: an operation of the manager sends a command to the bot's actor, awaits
its reply, calls the deployment, awaits the operating system, and sends the actor the
outcome. The deployment's watcher publishes `BotProcessExited`; two listeners of the
manager consume it independently, one to move the actor, one to dispose of the login
poller and the WebUI endpoint. `NapCatWebuiAvailable`, found in the process's output,
makes the second listener register the endpoint and spawn a poller, which may itself call
`restart_bot`. Bots on a server go through the server manager's live connection, share one
SnowLuma stack and one QQ tree there, and component actions of the task queue write that
same tree. Configurations, profiles and components all live in the data root, which can be
moved while the application runs.

Hard behaviours: everything between two awaits can be overtaken (a stop during a
launch, an exit during a stop, an event of the previous process after the relaunch); events
carry no generation; a step may fail after its predecessor took effect; pids are reused; a
cancelled task goes on until it looks at its token; files are loaded, changed and written
back without a lock; the application may die between any two file operations. The complete list, with the line where
each one bites and the properties that would catch it, is under `hazards` in
`PROJECT.json`.

## 2. Modules

| module | models | extends / uses |
|---|---|---|
| `BotActorState` | the command handlers, as operators on a snapshot | |
| `BotActor` | mailbox, worker, watch channel, callers | `BotActorState` |
| `AtomicActor` | what a bot's actor promises its callers, in one step per command | `BotActorState` |
| `BotActorProofs` | theorems about `BotActor` | `BotActor` |
| `NativeDeployment` | process table, launches, stops, watchers | |
| `NativeDeploymentProofs` | theorems about `NativeDeployment` | `NativeDeployment` |
| `BotManager` | the lifecycle of one local NapCat bot: manager, listeners, actor and deployment composed | `BotActorState`, an instance of `NativeDeployment` |
| `BotManagerProofs` | theorems about `BotManager` | `BotManager`, an instance of `NativeDeploymentProofs` |
| `MCBotManager` | symmetry for the safety run | `BotManager` |
| `DeploymentTasks` | the queue of installations | |
| `DeploymentTasksProofs` | theorems about `DeploymentTasks` | `DeploymentTasks` |
| `MCDeploymentTasks` | shapes of requests for the runs | `DeploymentTasks` |
| `SnowLumaDaemon` | the shared node process of all SnowLuma bots and its callers | |
| `BotRegistry` | which bots exist: save, start, stop, delete, bootstrap, shutdown_all | `BotActorState` |
| `RegistryProofs` | theorems about `BotRegistry` | `BotRegistry` |
| `LoginPoller` | the pollers of one bot, its notifier and automatic restart | |
| `BackendProofs` | theorems about `SnowLumaDaemon` and `LoginPoller` | the two modules |
| `ConfigStore` | configuration files under transactions, failures and crashes | |
| `DataRoot` | moving the data root beside saves, with crashes | |
| `DataLayout` | consolidation of an old layout over starts that fail or die | |
| `StorageProofs` | theorems about `ConfigStore`, `DataRoot` and `DataLayout` | the three modules |
| `ServerManager` | server profiles, live connections, connect locks, passwords | |
| `RemoteStack` | the SnowLuma stack the bots of a server share | |
| `QqTree` | the QQ tree that installations and both flavours of bots write | |
| `RemoteProofs` | theorems about `ServerManager`, `RemoteStack` and `QqTree` | the three modules |
| `Backends` | `SnowLumaDaemon` or `LoginPoller`, for one run | the two modules |
| `Services` | seven of these services, one at a time, for one run | the seven modules |

`Mutant...` definitions are plausible slips of one definition each. They are used by no
specification; replacing the definition by its slip makes TLC report the property that
`PROJECT.json` pairs it with.

### BotActorState, BotActor

A handler is a function of the snapshot and of the set of cancelled generations, and
returns both with `advanced`, `unchanged` or `invalid` (`Ok(true)`, `Ok(false)`, `Err`). A
cancellation token is named by the generation that created it, which is what
`reset_token` counts. `last_error` is a Boolean. The worker handles a letter in three steps a reader on
another thread can tell apart: `Receive` (handler and token), `Publish` (watch channel),
`Reply`; an `Err` skips `Publish`, as in `run_actor`. `Exit` is the end of `run_actor`
after `Shutdown`: queued letters are dropped and their callers get `MailboxClosed`.

`AtomicActor` has no mailbox, worker or watch channel: a call begins, is served by one
handler, and returns only when everybody can see what it did; after a shutdown nothing is
served. `BotActor` implements it (`IsAtomicActor`): its `Receive` is the abstract `Serve`, and
the abstract shown snapshot is what the watch channel holds. `BotManager` and
`BotRegistry` rely on this when they tell an actor something in one step.

### NativeDeployment

One action per critical section or awaited call. `LaunchSpawn` is `host.spawn` with the
generation counter, `LaunchInsert` the insertion with the start of reader and watcher.
`StopMark`, `StopKill`/`StopKillFails` and `StopSettle` are the three parts of `stop`: the lock
is not held while taskkill runs. `WatcherClears` is the watcher's critical section, reached
when `wait()` returns (`WatcherSeesExit`) or fails (`WaitFails`); `WatcherPublishes` comes
after the lock. The operating system is external: a process may end at any time
(`ProcessExits`), and a pid is free again when its process is dead and no launch holds its handle
(`PidTaken`; the watcher's handle is not counted, its `wait()` may have returned before it gets the
lock). `dropped` is a history variable: records that went while their process lived. Left
out: `HostError::Timeout` (a bot is launched as `long_running`, without a timeout), repeated
WebUI lines of one process, the log buffers.

### BotManager

An operation is a program counter of its own (`op`), and each of its awaited calls is a
step. Actor commands are atomic steps (`Tell`), which `AtomicActor` justifies. Process steps are the actions of `NativeDeployment`. Every listener has its own
queue of the bus. `faults` is a history variable that records what went wrong so far; the
properties excuse only what they name.

`start_bot` -> `StartRequest`/`StartRefused`, then the pipeline `start_runtime_from_starting`:
`ReadToken`, `Plan`, `CheckCancel`, `Spawn`, `Insert`, `Recheck` (twice), `FinishStart`, with
`StartError` and `MarkStartCrashed` for failures. `stop_bot` -> `Request`, `Status`,
`BackendStop`, `BackendKills`, `BackendStopped`, `Confirm`/`StopFailed`, `DisposePoller`,
`DisposeEndpoint`, `After`. `restart_bot` -> `Look`, `Request` or `Queue`, the same backend
steps, disposal before confirmation, `After`. A backend switch confirms without
disposal and goes on to `start_bot`. `handle_process_exited` is `ListenerTakes` (reads the
snapshot) and `ListenerTells` (awaits the actor); `handle_webui_available` is
`LoginTakesWebui` and `LoginSpawnsPoller`.

The backend a switch changes to is SnowLuma. `SnowLumaDaemon` is not composed with this
module: here its start either succeeds or fails, and what is called after a switch is left out.
Until `ReadToken`, `op[t].token` is the generation of the run the pipeline began, which the code
does not keep: `"other_token"` is the fault of reading a later one.

### DeploymentTasks

One action per critical section: `Submit`, `CancelQueued`, `CancelRunning`,
`DeleteTerminal`, `ClearTerminal`, `Finish`, and `Dispatch`, one turn of `take_ready_tasks`.
A dispatch loop belongs to the frontend command or finished task that runs it, and loops
interleave. What a loop has taken is Running but executes only when its loop ends
(`SpawnTaken`). What is history and not state is named so at its declaration. A runner returns
`ok` or not; it does not panic (`panic = "abort"` in the release profile).

### SnowLumaDaemon

The `inner` mutex protects `state`, `ref_count`, `node_child`, `node_pid` and
`webui_client`; each critical section is one action, and everything between two of them can
be overtaken. A *run* is one passage of `ensure_running` through its starter branch; a handle, a
pid or a client is named by the run whose node it belongs to.

`ensure_running` -> `EnsureRunning` (join, begin a run, or be refused), then for the starter
`Spawn`/`SpawnFails`, `Connect`, `Login`, `BecomeReady`, or `KillInnerChild`, `RaiseDeadFlag`,
`RollbackToStopped`; for the others `WaitForReady`; `Load` is `load_process` with the record.
`start` hands every error to `abort_start`, `stop` takes the record first, and both end in
`Release`. A release that reaches zero, or `Shutdown`, claims Stopping in the same critical
section and goes on with `TakeHandles`, `StopNode`, `SettleStopped`
(`finish_shutdown_from_stopping`). `watch_exit` is `WatchExit`/`WaitFails`,
`WatcherRaisesFlag` and, after the 150 ms it flushes logs, `WatcherSettles`, which reports
the crash that `Cascade` carries to the bots. The manager runs one call per bot at a time.

No task checks that the run it works for is still the current one. `faults` is a history
variable with two names. `"astray"` is set where a task writes the fields, or kills, for a
run that is over, and where `try_wait` fails; `"miscounted"` where a reference is released, or a
client used, by a bot that holds none, and where a bot is counted twice. `holders` is the set
of bots whose reference the count stands for. What the properties promise without excuse is
`TypeOK`, `BusyStateHasOwner` and `ChildIsWatched`; the others hold until the fault they name, so
each lists the only ways it can break. Assumed: a kill ends its process, a pid is not
reused while the daemon remembers it.

### BotRegistry

`saved`, `derived`, `table` and `actors` are the four places a bot lives in. A request is a
program counter; `SaveLook`, `SavePersist`, `SaveRender`, `SaveActor` are `upsert_bot_config`,
`DeleteLook` to `DeleteRemove` are `delete_bot`, `ShutdownBegin`/`Stop`/`Clear` are `shutdown_all`;
launch and stop are as coarse as the registry sees them. Actors keep their numbers, since a request holds
its handle after the table has forgotten it. `mixed`, `broken` and `crowded` are history: the
bots two requests worked on at once, those a request failed half-way for, and whether
somebody took room between the look at `MAX_BOTS` and the insertion. `RegistryIsConsistent` says
that a bot outside these is whole or gone, and that only crowding exceeds the limit.

### LoginPoller

A poller asks the login check and the online check at a time and applies both answers when it
has them (`LoginAnswer`, `OnlineAnswer`, `AfterLogin`, `AfterOnline`, `AfterOffline`); each answer is
true when it is given. `todo` holds the notices and the restart a poll ends with. `Dispose` only
cancels: a poll under way is finished. `debounced` and `news` are the notifier. `OutageIsReported`: a
poller that knew of a login session when it last found the account online, and now decides that it is
offline, tells the user and restarts the bot as its configuration says.

### ConfigStore, DataRoot, DataLayout

The content of a file is the set of changes it contains, so that a lost change is a missing
element. `ConfigStore` has one action per file operation of a transaction: `Open` (a backup
directory named after the second, and pruning), `CopyOld`, `MoveAside` (old file to `.bak`), `Install`
(new file into place), `Delete`, or `ReplaceFails`/`DeleteFails` followed by `Undo`. `Boot...` is the
start-up migration. `Crash` takes every transaction away and leaves the disk. `DataRoot` does the same to a
move: `CopyEntry`, `Verify`, `Promote`, `Retire`, `WritePointer`, with a saver that looked at the gate
earlier. In `DataLayout` a copy that was cut off is `part`, which every check of the code takes
for the whole.

### ServerManager, RemoteStack, QqTree

A client of `ServerManager` is a list of steps still to do (`Program`): `Load`, `Change`,
`WriteBack` are the three parts of every edit of servers.json; `Lock`, `AutoAttempt`, `Connect`, `Handshake`, `Unlock` are
`ensure_connected`. `torn` is a file a writer has truncated. `RemoteStack` has one place per awaited
step of `ensure_running`, `release`, `stop_bot` and the attachment after a restart; `Reopen` is that restart, which
forgets every count and leaves the stack. `QqTree` writes file by file; `SetEntry`, `VerifyNapcat` happen under
the lock of the server, `LaunchQq` after it. `damaged` is history: an action failed on its way,
or two wrote at a time.

## 3. Runs

A passing run may combine modules. `Services` and `Backends` are sums, not products: their
initial state picks one module, and the others keep their initial state. The modules of a sum share no
variable and no property relates two of them, so every behaviour of a product, projected on one
module, is a behaviour of the sum up to stuttering, and nothing is lost.

| run | question | bounds |
|---|---|---|
| `BotActor` | tokens, flags, the refinement, replies, shutdown | 2 callers, mailbox of 1 (so that senders block), 5 commands of all 9 kinds: enough for start, restart, a queued restart, its confirmation and a shutdown |
| `NativeDeployment` | the process table under races | 2 bots, 2 tasks, 2 pids, 2 launches: two launches and stops of one bot overlap, a pid is reused, a record is overwritten |
| `ManagerLifecycle` | settled states, orphans, one pipeline, progress | 2 tasks, 3 operations, 2 processes; starts and stops overlap each other, restarts and switches run one at a time, all against exits and the listener |
| `ManagerLogin` | poller and endpoint after everything has settled | 1 task, 3 operations, 2 announcing processes; symmetry of pids |
| `DeploymentTasks` | resources, dependencies, progress of the queue | 4 tasks of two shapes (a chain with a duplicate; three downloads for two slots), 1 frontend command at a time beside the loops of finished tasks |
| `SnowLumaDaemon` (module `Backends`) | owners of busy states, reference count, orphans, users keep their node; outages and recoveries | daemon: 2 bots and the desktop's exit, 2 runs: a failed or stopped run overlaps the next one, a waiter joins either, a watcher polls the child of the other run; symmetry of bots (sound: there is no liveness property and the invariants do not tell them apart); pollers: 2 of them, 3 changes of the account, 4 polls: two that confirm an outage, one before and one after |
| `Services` | what a crash, a failure or a second task does to files, bots, servers, stacks and trees | see below |
| `ManagerSwitch`, `ManagerCancelledStart`, `ManagerRefusedStop`, `DownloadLimit`, `SnowLumaRelease` | what comments or constants of the source say, and the code does not do: see section 5 | as small as the counterexample allows |

Bounds of `Services`. Configuration: 2 writers, 2 transactions, 2 seconds (so that two share a
directory or do not), 1 backup kept (so that pruning meets a directory in use), 1 crash, 1
failure. Registry: 2 bots under a limit of 1, 2 requesters, 3 requests, 2 actors per bot, a second
bootstrap: delete, save and start of one bot meet, and the limit is crossed. Data root: 3 roots, 2 moves, a saver with 2
changes, 1 exit, 1 failure: a move away and on, or back. Layout: 4 interruptions, enough to fail or die
at every kind of step and twice at some. Servers: 1 server, 2 clients, 2 operations, a
write that fails, a restart; every race there is between two operations on one server. Stack: 2 bots, 3 starts, a
restart of the desktop. Tree: 2 bots (each of either flavour), 2 actions, 2 launches, 1 failure. Bots, roots
and tasks are symmetric; there is no liveness property in the run.

Runs end when their budget of calls is used up, so deadlock is not checked; progress is
stated by the liveness properties instead.

Fairness is weak and belongs to what the scheduler runs: the actor's worker and blocked
senders, a task that is in the middle of an operation (no lock is held across an await),
watchers once their process is gone, listeners, dispatch loops. Nobody is obliged to make a
call, and no process to exit. `SnowLumaDaemon` states such fairness too, but no liveness is checked
there: without symmetry its 4.5 million states are beyond the time of a run. That a busy
state ends is covered by its safety form, `BusyStateHasOwner`. In `DeploymentTasks` runners are
assumed to return: their downloads and commands have timeouts of their own. The services state
no fairness: their properties are about what is there when nobody works on it.

What is excused. `SettledStateIsTrue` speaks of states where nothing is under way, and
excuses by name an exit that was read while Starting (`listeners.rs:178` ignores it on
purpose), a stop that failed after a stale exit event, a restart given up because its
stop failed, a stranded switch, a stop that was refused after its kill because a start had
confirmed, a stop that confirmed the end of a later run than its own, and a start that inserted its process after a stop had ended its run.
`SettledLoginIsTrue` excuses events that arrived late or
never (the two subscriptions of the login listener are not ordered, and events have no
generation), a refused `confirm_stopped`, and the switch. The services' properties name theirs
in the comment above each. Each excuse is itself a hazard of
the code, listed there or below in section 5.

## 4. Proofs

Eight modules hold theorems. They are proved for every value of the constants that satisfies the
assumptions of the model modules: budgets and capacities are natural numbers, callers, tasks, pids, servers,
transactions' writers and roots any sets, and names that stand for nobody, or for the program itself (`NoTask`, `NoRoot`,
`NoClient`, `App`, `Boot`, `"closer"`, the `"none"` of an empty process slot), are not names of somebody else. The identifiers of bots in `BotRegistry` are finitely many, as `MAX_BOTS` counts them. No assumption is about
behaviour. `theorems` in `PROJECT.json` lists the results; this section says along which invariants they are proved.
In each module an invariant `IInv` (or `...Inv`) is shown to hold initially and to be kept by every action,
with one lemma per action.

**`BotActorProofs`.** `Sound` relates the snapshot to the cancelled tokens (`OnlyActiveRunHasToken` and
`FlagsMatchState` with the bounds that make them inductive); one lemma per handler shows that
it keeps `Sound`, never lowers the revision and drops a queued restart only as
`QueuedRestartRuns` allows. `PublishedBeforeReply` adds that the watch channel lags only
between a handler and its publication, from which `ReplyIsPublished` follows. `MailInv` is
`WaitersAreQueuedOnce` by positions of the mailbox. The refinement `ImplementsAtomicActor` needs
`LettersMatch` besides (a letter in the mailbox carries the command its caller waits for); then a step of the worker is
one abstract step or none.

**`NativeDeploymentProofs`.** The four safety properties are not inductive alone. `IInv` adds `Counted` (a
generation is used once), `CallsAreCurrent` (a call in flight knows the pid and bot of its
generation; without it a kill could be aimed at nothing), `InsertsAreFresh` (no two launches share a
generation) and `PidsAreReusedLater` (of two processes with one pid the earlier is dead, which
is what makes the pid test of `stop` an excuse and not a hole).

**`BotManagerProofs`.** The process table is used through an instance of `NativeDeploymentProofs`: each action of the manager is
a step of the table or leaves it alone (`DrivesTheDeployment`), so that what is proved of the table holds
here without another proof. `TokensAreOrdered` says that of all tokens only the current one may be alive, and only while the
bot is Starting or Running. `OneClaim` strengthens `OneLaunchAtATime`: a stop that saw Starting and still holds the
bot, a restart or a switch on its way to a start, and a task in the pipeline all have a *claim* on their run, and
there is one claim on each. It is not an invariant where restarts overlap: TLC finds two restarts that
both go on to launch. `LaunchesAreSingle` and `OrphansExplained` therefore assume `"restart" \notin Overlapping`, which is how
`ManagerLifecycle` runs too; restarts may still follow anything and meet every exit and listener.
`CleanInv` holds until one of the faults that `OrphanNeedsFault` names has happened: the record is of the
latest launch, a stop that ended a run finds it ended, and a bot that is Stopped, Crashed or about to launch has no living process.

`SettledStateHolds` (`SettledStateIsTrue`, with `"restart" \notin Overlapping` too) rests on `SettleInv`, which says of every state *who*
will bring the bot to rest: `StoppingEnds` (while the bot is Stopping some task is on its way to `confirm_stopped`),
`StartingIsOwned` (while it is Starting somebody brings it up, or a switch strays), `PendingIsOwned` (a queued restart is that of
a restart or switch under way), `GoneIsNoticed` (a bot that runs or is about to has its record, or its watcher is publishing, or the exit is in the
listener's hands, or a task will look at the record or stop the bot), `KilledSoon` (a recorded process of a bot that is stopped has
somebody who will kill it). `SteadyInv` is the part of `CleanInv` that survives failed kills, and gives the last excuse of the Stopped
clause. When everything is quiet nobody is left to be this owner, and the property is what remains. A step of a task is
compared with these parts once (`SettleMove`), every other step changes none of them (`LooksOn`).

`SettledLoginHolds` (`SettledLoginIsTrue`, with `Overlapping = {}`: one operation at a time, by any number of tasks, while
watchers, log readers and both listeners interleave with it freely) rests on `LoginInv`. `GoneIsDisposed` says of the poller and of the
endpoint that its process is recorded or dropped, or that its exit is about to be published, or waits for the login listener, or that a
stop is on its way to `dispose_poller`; a record that goes by itself while a stop's mark is on it is therefore the
stop's business, and a stop that then fails is the `"exit_swallowed"` the property excuses. `NewsIsTold` says of a recorded process that announced
its WebUI that the line is unread, or that the endpoint is its own and the poller is, or is about to be. `StopsItsOwn` (a stop past
`backend.stop` leaves no record) keeps `dispose_poller` off a process that runs, and `RecordIsLatest` makes an exit event that is handled beside a
record one of an earlier process, which is the excused `"late_dispose"`. With a start and a stop that overlap the property is false: a stop that is slow to
come to `dispose_poller` takes away what the next run has registered.

The search for `CleanInv` found that two properties were false just beyond the bounds of the run, with four operations: a
stop that is slow to confirm may confirm the end of the *next* run, whose process lives. The model now records this
(`"late_confirm"`), and `OrphanNeedsFault` and the Stopped clause of `SettledStateIsTrue` name it.

**`DeploymentTasksProofs`.** `ListIsQueued` (a task is in the list iff it is queued), `ListIsOrdered` (a task
stands behind what it depends on), `DroppedHasSucceeded` (a dependency that was crossed out has succeeded) and
`SlotsAreUsed` (no more slots are counted than there are downloads) carry the four safety
properties. `WaitingHasReason`, that no wakeup is lost, follows because every action keeps the reason of every task that
waits, or leaves a dispatch loop due. What the dispatch loop does to the list is a recursive function; that `Without` keeps the order
and the elements is proved by the least counterexample, which is how induction can be had here.

**`BackendProofs`.** Daemon: `TypeOK`, `BusyStateHasOwner` and `ChildIsWatched` are inductive as soon as a starter is
known to have a run (`StarterHasRun`). The others need to know which run a call works for:
`RunsHaveBegun` (a call's run is not in the future) and `ClaimedRunIsOver` (once a stop is claimed,
its run is neither Starting nor Ready again unless somebody went astray); without the
latter `TakeHandles` could clear the client of a Ready daemon, and `ReadyHasClient` would not be
preserved. `CountIsHolders` follows `Cardinality(holders)` through joins and releases, and with it
`HolderIsServedSoon` shows that a release that claims the stop was the last holder's. The set of holders
is finite because it grows one bot at a time; the set of bots need not be.
`OrphanNeedsFault`, `QuietMeansStopped` and `DeadNodeIsNoticed` need to know where the handle of a living node is at every
moment: `HandleIsTaken` (a handle that is gone from the daemon is with the one task that will kill it),
`FlagIsDown` (the dead flag is raised only for the current node after its end), `ReadyRun` and `NodeIsMinded` (the node of a
Ready daemon is its current run's and some watcher polls it), `HolderIsAtWork` (a bot that holds a reference runs or has a call).

Poller (`PollerInv`): `Believes` says what a poller's view commits it to: while it holds the bot online no notice is
outstanding, and an account it found online with a session has the session still or was kicked out of it. `Tells` says that it has something to
tell exactly while it is telling, and `Announces`, that before anything was heard an outstanding notice is the next thing to be told and no
recovery is. What a step may do to the pollers and to the news is one relation (`Proper`), proved of every action;
`OutageIsReported` and `NewsAlternates` follow.

**`RemoteProofs`.** Stack: `HoldersAreCounted` (nobody holds a reference the daemon has not counted; a lost reference leaves the count
too high) and `UsersAreServed`, which needs `StopIsAlone`: while the stack is
stopped nobody raises, attaches to or holds it, unless a start met the stop. Tree: `EntryStands` follows the
entry from `SetEntry` to the launch; `PartialIsCopied` says that a half-written core belongs to a copy under way.
Servers: what a client has still to do is a sequence of steps, and all the proofs need of it is which step may come
after which (`MayFollow`, `Shape`; `Programs` checks each program once). `LockIsHeld` ties the handshake to the connect lock, `OneRewrite` says
that of two rewrites of servers.json at most one is between its load and its write unless `clobbered`; `TargetIsThere`,
`MarkedIsGone` and `HostIsMended` say for a profile and for a cached host who will still bring them in line.

**`StorageProofs`.** Data root (`RootInv`): `CopyFollows` says that the target has each change the source had when its entry was
copied, `OnlyWhileUp` and `LeavesOnce` that a root is left once and only by a running application. Layout (`LayoutInv`):
`FileIsZipped` (no configuration file is touched before a whole zip of it exists), `TreeStays` (unless starts were interrupted
twice, an installation is whole at its old place, at its new one, or in the newest archive), `MarkerMeansMigrated`.
Configuration files (`FilesInv`): `Follows` says where a transaction of each kind can be and `WhoWrites` who may have one, with
one save of the list at a time; `ListIsKept` says where the acknowledged bots are: in `bot.json`, or, while a save has moved that file away, in its
newest sibling. After a torn crash they are in `bot.json` and in as many of its newest siblings as lists were installed since (`TornIsRecovered`, with `Behind` and
`NewestOf`), and `KeepBaks` of these are kept. For the rollback: two transactions that touch one file know of each other
(`RivalsClash`); without such a clash a file is what the transaction has made of it and otherwise as it was before (`AsBefore`), and so are the copies in the
directory of its second unless another transaction used that too (`CopiesAreBefore`).

**`RegistryProofs`.** `RegistryInv`: for a bot
whose requests have not overlapped or failed half-way, one request at a time steers it (`OneSteers`), that request knows its present actor
(`KnowsActor`), and actor and files are as far as the request is (`ActorFollows`, `FilesFollow`, `ClosingFollows`); `RoomIsKept` counts the
table against `MAX_BOTS`.

Only model-checked: `ServicesTypeOK`, the type of the sum of
the modules; each of its conjuncts is proved of that module's own specification. Out of the prover's reach, and so left to TLC:
liveness (`EveryCallReturns`, `DeadRecordIsCleared`, `StartingEnds`, `EveryTaskEnds`).

## 5. Where the code and its own words differ

1. `ManagerSwitch`: a backend switch of a running bot does not start the new backend
   (`mod.rs:1325` says it does). The restart it queued begins with its own
   `confirm_stopped`; `start_bot` then finds the bot Starting, returns, and the bot hangs there.
2. `ManagerCancelledStart`: a start cancelled by a stop after the launch reports a crash
   (`mod.rs:1840` says it leaves silently): the second look at the process forgets the token.
3. `ManagerRefusedStop`: a stop that follows a failed stop kills the process but returns
   before `dispose_poller` (`listeners.rs:241` says the endpoint goes with the process).
4. `DownloadLimit`: a finished download deleted from the list releases its slot twice, so
   more than the two downloads of `tasks.rs:16` run at a time.
5. `SnowLumaRelease`: a failed start releases a reference that its rollback has already
   cleared. If another bot has started the daemon meanwhile, that bot's reference goes and its
   node is killed, though `docs/releases/v3.1.5.md:10` says the node ends with the last bot.

Other things the models show, which no line of the repository denies. They are excused by name
in the properties, or lie outside of them.

- Manager. A restart that sees Stopping only queues its wish (`mod.rs:938`); if the stop is confirmed
  meanwhile, the actor goes to Starting and nobody runs the pipeline. A stop beside a start may kill
  the process after the start's second look; its confirmation is refused and the bot
  shows Running without a process. Two overlapping restarts can both launch.
- Registry. A request that looked its actor up before a deletion goes on with the closed actor; a save during a
  deletion brings back part of the bot; two new bots saved together exceed `MAX_BOTS`.
- Login poller. An online check that says yes after a login check that found no session makes the
  poller forget the kick, and the outage after it goes unreported. A disposed poller finishes its poll and may
  restart a bot that the user has just stopped. After an automatic restart the new poller never tells of the recovery.
- Configuration. A crash between the two renames of a save leaves no `bot.json`, and the next start
  shows no bots (a `.bak` is left). A lost migration report makes the migration run again over newer files. Transactions of
  one second share a backup directory, and pruning may delete one that is in use.
- Data root. What is written behind the copy is lost. A second move from a root that was left already copies almost nothing. A
  crash during the copy leaves a target that is not empty and refuses the next try.
- Servers. servers.json is truncated and written without a lock: of two edits one is lost, and an edit that
  reads the truncated file drops all other profiles. A failed manual test leaves the old connection
  cached under state Failed; a refresh in the cool-down leaves Connected without a connection. `add_server` stores the
  password before it looks for a duplicate; deleting a server drops its connect lock while it is held.
- SnowLuma stack of a server. Some failures of a start, and a stop that is skipped, keep their reference; an attachment counts
  at most one bot, so that stopping one of two attached bots stops the stack under the other.
- QQ tree. Actions on QQ and on NapCat may write the tree at the same time; QQ is launched
  after the server's lock is released, so a start of the other flavour can change the entry first; a
  failed NapCat start leaves `main` naming a loader that is missing.

## 6. Not modelled, and the plan

Not modelled because it is I/O, rendering or presentation: hosts, Docker, package formats,
downloads, updates, metrics, notification channels, the watch daemon, templates, logging, shell and UI; the
SnowLuma status poller and WebUI client, which probe and decode. `PROJECT.json` says for each
component what is left out. They are the larger part of the repository's lines. Of the parts that are modelled,
these are out of reach: the capacity of the event bus (1024 events), and a manager with overlapping restarts
(see above: its settled state is false in more ways than a property could list).

Worth modelling next: `BotManager` with a Docker or remote backend and its transport errors; the SnowLuma QQ
zombies; plans of several steps in the deployment runner.

Proofs to add: `SettledLoginIsTrue` for operations that overlap, once its excuses name the stop that disposes late.
