--------------------------- MODULE SnowLumaDaemon ---------------------------
(***************************************************************************)
(* SnowLumaDaemon of ncd-backend-snowluma/src/snowluma/daemon.rs with its  *)
(* callers in runtime_backend.rs: the one node process that all local      *)
(* SnowLuma bots share and count their references to.                      *)
(*                                                                         *)
(* Only the fields under the `inner' mutex change atomically.  A starter,  *)
(* the waiters behind it, a release or shutdown that stops the node and    *)
(* the exit watcher of each node all give the mutex up between their       *)
(* steps, so each of them may find that the run it works for is over.  A   *)
(* run is one passage of ensure_running through its starter branch.        *)
(* `faults' is a history of the places where the code goes on regardless.  *)
(*                                                                         *)
(* Left out: ports, passwords, log buffers, messages, the QQ process of a  *)
(* cold start.  A kill is assumed to end the process it is aimed at, and a *)
(* node keeps its pid to itself.                                           *)
(***************************************************************************)
EXTENDS Integers, FiniteSets

CONSTANTS Bots,     (* the local SnowLuma bots                              *)
          App,      (* the desktop's exit, which calls shutdown             *)
          MaxRuns   (* bound: runs of the daemon in one behaviour           *)

ASSUME CallersAssumption == App \notin Bots
ASSUME RunsAssumption == MaxRuns \in Nat

Run == 1 .. MaxRuns
Callers == Bots \cup {App}

VARIABLES state, ref_count,      (* DaemonInner                             *)
          node_child, node_pid,  (* DaemonInner: the run of the node, or 0  *)
          webui_client,          (* DaemonInner: the run it speaks to, or 0 *)
          dead_flag,
          node,     (* run -> its node process in the operating system      *)
          watcher,  (* run -> the watch_exit task spawned with its node     *)
          call,     (* caller -> the call it is in                          *)
          record,   (* bots with a SnowLumaProcessRecord                    *)
          crashed,  (* bots whose actor a crash of the daemon has crashed   *)
          alarm,    (* a Crashed event is on its way to the bot manager     *)
          run,      (* history: runs begun                                  *)
          holders,  (* history: bots whose reference ref_count counts       *)
          faults    (* history: steps taken for a run that was over         *)

fields == <<state, ref_count, node_child, node_pid, webui_client>>
bots == <<record, crashed, alarm>>
vars == <<fields, dead_flag, node, watcher, call, bots, run, holders, faults>>

DaemonState == {"Stopped", "Starting", "Ready", "Stopping", "Crashed"}

StarterPc == {"spawn", "connect", "login", "ready", "kill", "killed", "rollback"}
FinishPc == {"take", "stop_node", "settle"}
RestPc == {"idle", "exited"}
Pc == StarterPc \cup FinishPc \cup RestPc \cup {"wait", "load", "release"}

Init ==
    /\ state = "Stopped" /\ ref_count = 0
    /\ node_child = 0 /\ node_pid = 0 /\ webui_client = 0
    /\ dead_flag = FALSE
    /\ node = [r \in Run |-> "none"]
    /\ watcher = [r \in Run |-> "none"]
    /\ call = [c \in Callers |-> [pc |-> "idle", run |-> 0, node |-> 0]]
    /\ record = {} /\ crashed = {} /\ alarm = FALSE
    /\ run = 0 /\ holders = {} /\ faults = {}

-----------------------------------------------------------------------------
At(c, pc) == call[c].pc = pc
Goto(c, pc) == call' = [call EXCEPT ![c].pc = pc]
Idle(c) == call' = [call EXCEPT ![c] = [pc |-> "idle", run |-> 0, node |-> 0]]

Abort(c) == call' = [call EXCEPT ![c] = [pc |-> "release", run |-> 0, node |-> 0]]

Fault(name, occurs) == faults' = IF occurs THEN faults \cup {name} ELSE faults

\* The run c works for is no longer the one the fields are about.
Overtaken(c) == run # call[c].run

\* What a kill is aimed at: the child's handle, else the pid.
Target == IF node_child # 0 THEN node_child ELSE node_pid
Killed(target) ==
    [r \in Run |-> IF r = target /\ node[r] = "alive" THEN "dead" ELSE node[r]]

\* rollback_to_stopped and finish_shutdown_from_stopping end in this.
\* A handle in node_child is dropped, which does not kill its process.
Clear ==
    /\ state' = "Stopped"
    /\ ref_count' = 0
    /\ node_child' = 0 /\ node_pid' = 0 /\ webui_client' = 0
    /\ holders' = {}

-----------------------------------------------------------------------------
(* ensure_running, called by SnowLumaRuntimeBackend::start.                *)

GotClient(b) ==
    IF webui_client = 0 THEN Abort(b)
    ELSE call' = [call EXCEPT ![b] = [pc |-> "load", run |-> 0, node |-> webui_client]]

\* The decision under the mutex.  An error goes to abort_start, which
\* releases, whether or not the call was counted.
EnsureRunning(b) ==
    /\ At(b, "idle")
    /\ b \in record => b \in crashed
    /\ crashed' = crashed \ {b}
    /\ \/ /\ state \in {"Ready", "Starting"}
          /\ ref_count' = ref_count + 1
          /\ holders' = holders \cup {b}
          /\ Fault("miscounted", b \in holders)
          /\ IF state = "Starting" THEN Goto(b, "wait") ELSE GotClient(b)
          /\ UNCHANGED <<state, node_child, node_pid, webui_client, dead_flag, run>>
       \/ /\ state \in {"Stopped", "Crashed"}
          /\ run < MaxRuns
          /\ run' = run + 1
          /\ state' = "Starting"
          /\ ref_count' = 1
          /\ holders' = {b}
          /\ dead_flag' = FALSE
          /\ IF state = "Crashed"
             THEN node_child' = 0 /\ node_pid' = 0 /\ webui_client' = 0
             ELSE UNCHANGED <<node_child, node_pid, webui_client>>
          /\ call' = [call EXCEPT ![b] = [pc |-> "spawn", run |-> run + 1, node |-> 0]]
          /\ UNCHANGED faults
       \/ /\ state = "Stopping"
          /\ Abort(b)
          /\ UNCHANGED <<fields, dead_flag, run, holders, faults>>
    /\ UNCHANGED <<node, watcher, record, alarm>>

\* Rendering and spawning; then the handle is stored and watch_exit spawned,
\* whatever has become of the run meanwhile.
Spawn(b) ==
    /\ At(b, "spawn")
    /\ LET r == call[b].run
       IN /\ node' = [node EXCEPT ![r] = "alive"]
          /\ watcher' = [watcher EXCEPT ![r] = "poll"]
          /\ node_child' = r /\ node_pid' = r
    /\ Goto(b, "connect")
    /\ Fault("astray", Overtaken(b) \/ state # "Starting")
    /\ UNCHANGED <<state, ref_count, webui_client, dead_flag, bots, run, holders>>

SpawnFails(b) ==
    /\ At(b, "spawn")
    /\ Goto(b, "rollback")
    /\ UNCHANGED <<fields, dead_flag, node, watcher, bots, run, holders, faults>>

\* create and wait_ready, with its second attempt on the port of the log.  A
\* raised dead_flag makes wait_ready return, and the starter roll back at once.
Connect(b) ==
    /\ At(b, "connect")
    /\ \/ ~dead_flag /\ node[call[b].run] = "alive" /\ Goto(b, "login")
       \/ Goto(b, "kill")
       \/ dead_flag /\ Goto(b, "rollback")
    /\ UNCHANGED <<fields, dead_flag, node, watcher, bots, run, holders, faults>>

Login(b) ==
    /\ At(b, "login")
    /\ \/ node[call[b].run] = "alive" /\ Goto(b, "ready")
       \/ Goto(b, "kill")
    /\ UNCHANGED <<fields, dead_flag, node, watcher, bots, run, holders, faults>>

MutantBecomeReady(b) ==
    /\ At(b, "ready")
    /\ state' = "Ready"
    /\ call' = [call EXCEPT ![b] = [pc |-> "load", run |-> 0, node |-> call[b].run]]
    /\ Fault("astray", Overtaken(b) \/ state # "Starting")
    /\ UNCHANGED <<ref_count, node_child, node_pid, webui_client, dead_flag, node, watcher, bots,
                   run, holders>>

BecomeReady(b) ==
    /\ At(b, "ready")
    /\ state' = "Ready"
    /\ webui_client' = call[b].run
    /\ call' = [call EXCEPT ![b] = [pc |-> "load", run |-> 0, node |-> call[b].run]]
    /\ Fault("astray", Overtaken(b) \/ state # "Starting")
    /\ UNCHANGED <<ref_count, node_child, node_pid, dead_flag, node, watcher, bots, run,
                   holders>>

\* kill_inner_child takes whatever child the fields hold.
KillInnerChild(b) ==
    /\ At(b, "kill")
    /\ node_child' = 0
    /\ node' = Killed(Target)
    /\ Goto(b, IF Target = 0 THEN "rollback" ELSE "killed")
    /\ Fault("astray", Target \notin {0, call[b].run})
    /\ UNCHANGED <<state, ref_count, node_pid, webui_client, dead_flag, watcher, bots, run, holders>>

RaiseDeadFlag(b) ==
    /\ At(b, "killed")
    /\ dead_flag' = TRUE
    /\ Goto(b, "rollback")
    /\ Fault("astray", Overtaken(b))
    /\ UNCHANGED <<fields, node, watcher, bots, run, holders>>

MutantRollback(b) ==
    /\ At(b, "rollback")
    /\ Abort(b)
    /\ UNCHANGED <<fields, dead_flag, node, watcher, bots, run, holders, faults>>

RollbackToStopped(b) ==
    /\ At(b, "rollback")
    /\ Clear
    /\ Abort(b)
    /\ Fault("astray", Overtaken(b))
    /\ UNCHANGED <<dead_flag, node, watcher, bots, run>>

\* One look of wait_for_ready at the state.  While it is Starting the waiter
\* looks again, until its time is up: StartTimeout.
WaitForReady(b) ==
    /\ At(b, "wait")
    /\ IF state = "Ready" /\ webui_client # 0
       THEN /\ GotClient(b)
            /\ Fault("miscounted", b \notin holders)
       ELSE /\ Abort(b)
            /\ UNCHANGED faults
    /\ UNCHANGED <<fields, dead_flag, node, watcher, bots, run, holders>>

\* load_process, then the process record, replacing one that is there.
Load(b) ==
    /\ At(b, "load")
    /\ \/ /\ node[call[b].node] = "alive"
          /\ record' = record \cup {b}
          /\ Idle(b)
       \/ Abort(b) /\ UNCHANGED record
    /\ UNCHANGED <<fields, dead_flag, node, watcher, crashed, alarm, run, holders, faults>>

-----------------------------------------------------------------------------
(* release, called by abort_start and stop; shutdown.                      *)

\* SnowLumaRuntimeBackend::stop takes the record first.
Stop(b) ==
    /\ At(b, "idle")
    /\ b \in record
    /\ record' = record \ {b}
    /\ Abort(b)
    /\ UNCHANGED <<fields, dead_flag, node, watcher, crashed, alarm, run, holders, faults>>

Claim(c) ==
    /\ state' = "Stopping"
    /\ call' = [call EXCEPT ![c] = [pc |-> "take", run |-> run, node |-> 0]]

MutantRelease(b) ==
    /\ At(b, "release")
    /\ ref_count' = ref_count
    /\ holders' = holders \ {b}
    /\ IF ref_count <= 1 /\ state \in {"Ready", "Starting"}
       THEN Claim(b)
       ELSE Idle(b) /\ UNCHANGED state
    /\ Fault("miscounted", b \notin holders /\ ref_count > 0)
    /\ crashed' = crashed \ ({b} \ record)
    /\ UNCHANGED <<node_child, node_pid, webui_client, dead_flag, node, watcher, record, alarm, run>>

MutantReleaseAlways(b) ==
    /\ At(b, "release")
    /\ ref_count' = IF ref_count > 0 THEN ref_count - 1 ELSE 0
    /\ holders' = holders \ {b}
    /\ IF state \in {"Ready", "Starting"}
       THEN Claim(b)
       ELSE Idle(b) /\ UNCHANGED state
    /\ Fault("miscounted", b \notin holders /\ ref_count > 0)
    /\ crashed' = crashed \ ({b} \ record)
    /\ UNCHANGED <<node_child, node_pid, webui_client, dead_flag, node, watcher, record, alarm, run>>

Release(b) ==
    /\ At(b, "release")
    /\ ref_count' = IF ref_count > 0 THEN ref_count - 1 ELSE 0
    /\ holders' = holders \ {b}
    /\ IF ref_count' = 0 /\ state \in {"Ready", "Starting"}
       THEN Claim(b)
       ELSE Idle(b) /\ UNCHANGED state
    /\ Fault("miscounted", b \notin holders /\ ref_count > 0)
    /\ crashed' = crashed \ ({b} \ record)
    /\ UNCHANGED <<node_child, node_pid, webui_client, dead_flag, node, watcher, record, alarm, run>>

\* The exit of the desktop: shutdown_all, stop_local_bots_for_exit.
Shutdown ==
    /\ At(App, "idle")
    /\ state \in {"Ready", "Starting"}
    /\ Claim(App)
    /\ UNCHANGED <<ref_count, node_child, node_pid, webui_client, dead_flag, node, watcher,
                   bots, run, holders, faults>>

\* finish_shutdown_from_stopping: take the handles ...
TakeHandles(c) ==
    /\ At(c, "take")
    /\ call' = [call EXCEPT ![c].pc = "stop_node", ![c].node = Target]
    /\ node_child' = 0 /\ webui_client' = 0
    /\ Fault("astray", Overtaken(c))
    /\ UNCHANGED <<state, ref_count, node_pid, dead_flag, node, watcher, bots, run, holders>>

MutantStopNode(c) ==
    /\ At(c, "stop_node")
    /\ dead_flag' = TRUE
    /\ Goto(c, "settle")
    /\ Fault("astray", Overtaken(c))
    /\ UNCHANGED <<fields, node, watcher, bots, run, holders>>

\* ... log out and kill the node, with the mutex free ...
StopNode(c) ==
    /\ At(c, "stop_node")
    /\ node' = Killed(call[c].node)
    /\ dead_flag' = TRUE
    /\ Goto(c, "settle")
    /\ Fault("astray", Overtaken(c))
    /\ UNCHANGED <<fields, watcher, bots, run, holders>>

\* ... and clear the fields.
SettleStopped(c) ==
    /\ At(c, "settle")
    /\ Clear
    /\ IF c = App THEN Goto(c, "exited") ELSE Idle(c)
    /\ Fault("astray", Overtaken(c))
    /\ UNCHANGED <<dead_flag, node, watcher, bots, run>>

-----------------------------------------------------------------------------
(* The node, its watcher, and the manager's listener.                      *)

NodeDies(r) ==
    /\ node[r] = "alive"
    /\ node' = Killed(r)
    /\ UNCHANGED <<fields, dead_flag, watcher, call, bots, run, holders, faults>>

MutantWatchExit(r) ==
    /\ watcher[r] = "poll"
    /\ watcher' = [watcher EXCEPT ![r] = IF node_child = 0 THEN "done" ELSE "exit"]
    /\ UNCHANGED <<fields, dead_flag, node, call, bots, run, holders, faults>>

\* One try_wait of watch_exit, on the child the fields hold now: there is none,
\* or it has ended and its handle is taken.
WatchExit(r) ==
    /\ watcher[r] = "poll"
    /\ \/ /\ node_child = 0
          /\ watcher' = [watcher EXCEPT ![r] = "done"]
          /\ UNCHANGED node_child
       \/ /\ node_child # 0 /\ node[node_child] = "dead"
          /\ watcher' = [watcher EXCEPT ![r] = "exit"]
          /\ node_child' = 0
    /\ UNCHANGED <<state, ref_count, node_pid, webui_client, dead_flag, node, call, bots,
                   run, holders, faults>>

\* try_wait itself fails: the handle is taken from a node that may be alive.
WaitFails(r) ==
    /\ watcher[r] = "poll"
    /\ node_child # 0
    /\ watcher' = [watcher EXCEPT ![r] = "exit"]
    /\ node_child' = 0
    /\ Fault("astray", TRUE)
    /\ UNCHANGED <<state, ref_count, node_pid, webui_client, dead_flag, node, call, bots,
                   run, holders>>

WatcherRaisesFlag(r) ==
    /\ watcher[r] = "exit"
    /\ dead_flag' = TRUE
    /\ watcher' = [watcher EXCEPT ![r] = "flush"]
    /\ Fault("astray", run # r)
    /\ UNCHANGED <<fields, node, call, bots, run, holders>>

MutantWatcherSettles(r) ==
    /\ watcher[r] = "flush"
    /\ watcher' = [watcher EXCEPT ![r] = "done"]
    /\ node_pid' = 0
    /\ UNCHANGED <<state, ref_count, node_child, webui_client, dead_flag, node, call, bots,
                   run, holders, faults>>

\* After 150 ms of flushing logs: the state of whatever run there is by then.
WatcherSettles(r) ==
    /\ watcher[r] = "flush"
    /\ watcher' = [watcher EXCEPT ![r] = "done"]
    /\ node_pid' = 0
    /\ IF state \in {"Stopping", "Stopped"}
       THEN state' = "Stopped" /\ UNCHANGED alarm
       ELSE state' = "Crashed" /\ alarm' = TRUE
    /\ Fault("astray", run # r)
    /\ UNCHANGED <<ref_count, node_child, webui_client, dead_flag, node, call, record, crashed,
                   run, holders>>

\* run_snowluma_listener: every bot starting or running is marked Crashed.
Cascade ==
    /\ alarm
    /\ alarm' = FALSE
    /\ crashed' = crashed \cup record
                    \cup {b \in Bots : call[b].pc \in StarterPc \cup {"wait", "load"}}
    /\ UNCHANGED <<fields, dead_flag, node, watcher, call, record, run, holders, faults>>

-----------------------------------------------------------------------------
StarterStep(b) ==
    \/ Spawn(b) \/ SpawnFails(b) \/ Connect(b) \/ Login(b) \/ BecomeReady(b)
    \/ KillInnerChild(b) \/ RaiseDeadFlag(b) \/ RollbackToStopped(b)
    \/ WaitForReady(b) \/ Load(b) \/ Release(b)
FinishStep(c) == TakeHandles(c) \/ StopNode(c) \/ SettleStopped(c)
WatcherStep(r) == WatchExit(r) \/ WatcherRaisesFlag(r) \/ WatcherSettles(r)

Next ==
    \/ \E b \in Bots : EnsureRunning(b) \/ Stop(b) \/ StarterStep(b)
    \/ Shutdown
    \/ \E c \in Callers : FinishStep(c)
    \/ \E r \in Run : NodeDies(r) \/ WatcherStep(r) \/ WaitFails(r)
    \/ Cascade

\* Calls and watchers are tasks of the runtime, which runs them to their end;
\* no start, stop, shutdown or death of a node need ever happen.
Fairness ==
    /\ \A b \in Bots : WF_vars(StarterStep(b))
    /\ \A c \in Callers : WF_vars(FinishStep(c))
    /\ \A r \in Run : WF_vars(WatcherStep(r))

Spec == Init /\ [][Next]_vars /\ Fairness

-----------------------------------------------------------------------------
(* What is checked.                                                        *)

\* Every field holds values of its kind; above all the count never falls below zero.
TypeOK ==
    /\ state \in DaemonState
    /\ ref_count \in Nat
    /\ node_child \in 0 .. MaxRuns /\ node_pid \in 0 .. MaxRuns
    /\ webui_client \in 0 .. MaxRuns /\ run \in 0 .. MaxRuns
    /\ dead_flag \in BOOLEAN /\ alarm \in BOOLEAN
    /\ node \in [Run -> {"none", "alive", "dead"}]
    /\ watcher \in [Run -> {"none", "poll", "exit", "flush", "done"}]
    /\ call \in [Callers -> [pc : Pc, run : 0 .. MaxRuns, node : 0 .. MaxRuns]]
    /\ record \subseteq Bots /\ crashed \subseteq Bots /\ holders \subseteq Bots
    /\ faults \subseteq {"astray", "miscounted"}

\* Nobody waits for a task that is gone: while the daemon is Starting a starter is
\* on its way, while it is Stopping a release or shutdown is, in any interleaving.
BusyStateHasOwner ==
    /\ state = "Starting" => \E b \in Bots : call[b].pc \in StarterPc
    /\ state = "Stopping" => \E c \in Callers : call[c].pc \in FinishPc

\* A node whose handle is kept has a watch_exit that polls it, though a watcher
\* may poll, and take, the child of another run than its own.
ChildIsWatched ==
    node_child # 0 => \E r \in Run : watcher[r] = "poll"

\* ref_count is the number of bots that hold a reference, as long as no release was
\* made without one and nobody worked on for a run that was over.
CountIsHolders ==
    (state \in {"Starting", "Ready"} /\ faults = {}) => ref_count = Cardinality(holders)

\* A Ready daemon has its client (the "invariant" of the error text of ensure_running)
\* unless a starter or a stop worked on after its run was over.
ReadyHasClient ==
    (state = "Ready" /\ webui_client = 0) => "astray" \in faults

\* A node process that is alive can still be reached: its handle is kept or a stop is
\* about to kill it; otherwise somebody worked on for a run that was over.
OrphanNeedsFault ==
    \A r \in Run : node[r] = "alive" =>
        \/ node_child = r
        \/ \E c \in Callers : At(c, "stop_node") /\ call[c].node = r
        \/ "astray" \in faults

\* A bot that holds its reference has its daemon: Ready, or crashed under it, until
\* the desktop exits.  This is what release claims Stopping under the same lock for.
HolderIsServed ==
    \A b \in record \cap holders :
        \/ ~At(b, "idle")
        \/ state \in {"Ready", "Crashed"}
        \/ call[App].pc # "idle"
        \/ faults # {}

\* When no bot runs and nobody is at work, the node is gone.
QuietMeansStopped ==
    (/\ \A c \in Callers : call[c].pc \in RestPc
     /\ record = {}
     /\ faults = {})
        => /\ state \in {"Stopped", "Crashed"}
           /\ \A r \in Run : node[r] # "alive"

\* A Ready daemon whose node has died is being looked after: its handle waits for a
\* watcher, or a watcher that took it has yet to report the exit.
DeadNodeIsNoticed ==
    (state = "Ready" /\ webui_client # 0 /\ node[webui_client] = "dead")
        => \/ node_child = webui_client
           \/ \E r \in Run : watcher[r] \in {"exit", "flush"}
           \/ "astray" \in faults

\* What docs/releases/v3.1.5.md:10 says: the node is ended only when all local
\* SnowLuma bots have been stopped.  So, before any shutdown, a release never claims
\* the stop of the node while a bot holds its reference and runs on it.
OnlyLastBotStopsNode ==
    [][\A b \in Bots :
         (At(b, "release") /\ call'[b].pc = "take" /\ At(App, "idle"))
             => \A other \in (record \cap holders) \ crashed : other = b]_vars
=============================================================================
