-------------------------- MODULE NativeDeployment --------------------------
(***************************************************************************)
(* NativeDeployment of ncd-deploy/src/deployments/native.rs: the table of  *)
(* bot processes started on the local host, and the three kinds of tasks   *)
(* that race on it.                                                        *)
(*                                                                         *)
(*   - a launch spawns the process (await), then inserts its record and    *)
(*     starts its log reader and its exit watcher;                         *)
(*   - a stop marks the record under the lock, releases the lock while     *)
(*     taskkill runs (await), then settles the record;                     *)
(*   - an exit watcher waits for one process, removes its record if the    *)
(*     record is still the one it watches, and publishes the exit unless a *)
(*     stop was asked for.                                                 *)
(*                                                                         *)
(* A process instance is named by its generation.  The operating system    *)
(* may give the pid of a dead process to a new one.  Log text is left out; *)
(* the one line that matters is the one announcing the NapCat WebUI.       *)
(***************************************************************************)
EXTENDS Integers

CONSTANTS Bots,
          Tasks,        (* callers of launch and stop                       *)
          Pids,         (* process ids the operating system hands out       *)
          MaxLaunches   (* bound: processes spawned in one behaviour        *)

ASSUME LaunchesAssumption == MaxLaunches \in Nat

Generation == 1 .. MaxLaunches

VARIABLES processes,  (* bot -> record of its process, the shared table     *)
          generation, (* next value of the generation counter               *)
          proc,       (* generation -> the process in the operating system  *)
          watcher,    (* generation -> state of its exit watcher            *)
          call,       (* task -> the launch or stop it is executing         *)
          published,  (* generation -> kinds of events published about it   *)
          dropped     (* history: generations whose record was removed or   *)
                      (* replaced without their process having exited       *)

vars == <<processes, generation, proc, watcher, call, published, dropped>>

NoRecord == [pid |-> "none", generation |-> 0, stop_requested |-> FALSE]
ManagedProcess == [pid : Pids, generation : Generation, stop_requested : BOOLEAN]

NoProcess == [bot |-> "none", pid |-> "none", alive |-> FALSE]
Process == [bot : Bots, pid : Pids, alive : BOOLEAN]

Outcome == {"none", "ok", "err"}
IdleCall(result) == [pc |-> "idle", bot |-> "none", gen |-> 0,
                     pid |-> "none", result |-> result]
LaunchCall == [pc : {"insert"}, bot : Bots, gen : Generation,
               pid : Pids, result : {"none"}]
StopCall == [pc : {"kill", "settle"}, bot : Bots, gen : Generation,
             pid : Pids, result : Outcome]

EventKind == {"webui_available", "process_exited"}

Init ==
    /\ processes = [b \in Bots |-> NoRecord]
    /\ generation = 1
    /\ proc = [g \in Generation |-> NoProcess]
    /\ watcher = [g \in Generation |-> "none"]
    /\ call = [t \in Tasks |-> IdleCall("none")]
    /\ published = [g \in Generation |-> {}]
    /\ dropped = {}

-----------------------------------------------------------------------------
Idle(t) == call[t].pc = "idle"

\* A pid is taken while its process lives or its launch still holds the handle.
\* The watcher's handle is not counted: wait() may have returned before the
\* watcher gets the lock.
PidTaken(p) ==
    \/ \E g \in Generation : proc[g].pid = p /\ proc[g].alive
    \/ \E t \in Tasks : call[t].pc = "insert" /\ call[t].pid = p

\* host.spawn(cmd).await
LaunchSpawn(t, b, p) ==
    /\ Idle(t)
    /\ generation \in Generation
    /\ ~PidTaken(p)
    /\ proc' = [proc EXCEPT ![generation] = [bot |-> b, pid |-> p, alive |-> TRUE]]
    /\ generation' = generation + 1
    /\ call' = [call EXCEPT ![t] = [pc |-> "insert", bot |-> b, gen |-> generation,
                                    pid |-> p, result |-> "none"]]
    /\ UNCHANGED <<processes, watcher, published, dropped>>

\* The spawn fails: LaunchFailed.
LaunchFails(t) ==
    /\ Idle(t)
    /\ call' = [call EXCEPT ![t] = IdleCall("err")]
    /\ UNCHANGED <<processes, generation, proc, watcher, published, dropped>>

\* processes.insert replaces whatever record is there.
LaunchInsert(t) ==
    /\ call[t].pc = "insert"
    /\ LET b == call[t].bot
       IN /\ processes' = [processes EXCEPT ![b] =
                             [pid |-> call[t].pid, generation |-> call[t].gen,
                              stop_requested |-> FALSE]]
          /\ dropped' = IF processes[b] = NoRecord THEN dropped
                        ELSE dropped \cup {processes[b].generation}
    /\ watcher' = [watcher EXCEPT ![call[t].gen] = "waiting"]
    /\ call' = [call EXCEPT ![t] = IdleCall("ok")]
    /\ UNCHANGED <<generation, proc, published>>

-----------------------------------------------------------------------------
Ended(process) == [process EXCEPT !.alive = FALSE]

\* The process ends by itself.
ProcessExits(g) ==
    /\ proc[g].alive
    /\ proc' = [proc EXCEPT ![g] = Ended(@)]
    /\ UNCHANGED <<processes, generation, watcher, call, published, dropped>>

\* The reader of the process's output meets the line with the WebUI's address.
\* Output stays readable after the process is gone.
LogReaderSeesWebui(g) ==
    /\ watcher[g] # "none"
    /\ "webui_available" \notin published[g]
    /\ published' = [published EXCEPT ![g] = @ \cup {"webui_available"}]
    /\ UNCHANGED <<processes, generation, proc, watcher, call, dropped>>

Watches(g, record) == record.pid = proc[g].pid /\ record.generation = g

MutantWatcherTakesAnyRecord(g) ==
    /\ watcher[g] = "waiting"
    /\ LET b == proc[g].bot
           record == processes[b]
       IN IF record # NoRecord
          THEN /\ processes' = [processes EXCEPT ![b] = NoRecord]
               /\ watcher' = [watcher EXCEPT
                                ![g] = IF record.stop_requested THEN "done" ELSE "publishing"]
          ELSE /\ watcher' = [watcher EXCEPT ![g] = "done"]
               /\ UNCHANGED processes

MutantWatcherLeavesStopped(g) ==
    /\ watcher[g] = "waiting"
    /\ LET b == proc[g].bot
           record == processes[b]
       IN IF Watches(g, record) /\ ~record.stop_requested
          THEN /\ processes' = [processes EXCEPT ![b] = NoRecord]
               /\ watcher' = [watcher EXCEPT ![g] = "publishing"]
          ELSE /\ watcher' = [watcher EXCEPT ![g] = "done"]
               /\ UNCHANGED processes

\* What the watcher does under the lock once wait() has returned.
WatcherClears(g) ==
    /\ watcher[g] = "waiting"
    /\ LET b == proc[g].bot
           record == processes[b]
       IN IF Watches(g, record)
          THEN /\ processes' = [processes EXCEPT ![b] = NoRecord]
               /\ watcher' = [watcher EXCEPT
                                ![g] = IF record.stop_requested THEN "done" ELSE "publishing"]
          ELSE /\ watcher' = [watcher EXCEPT ![g] = "done"]
               /\ UNCHANGED processes

\* wait() returns the exit status.
WatcherSeesExit(g) ==
    /\ ~proc[g].alive
    /\ WatcherClears(g)
    /\ UNCHANGED <<generation, proc, call, published, dropped>>

\* wait() returns an I/O error: handled like an exit, although the process may
\* live on.
WaitFails(g) ==
    /\ proc[g].alive
    /\ WatcherClears(g)
    /\ dropped' = dropped \cup {g}
    /\ UNCHANGED <<generation, proc, call, published>>

\* publish_bot_process_exited, outside the lock.
WatcherPublishes(g) ==
    /\ watcher[g] = "publishing"
    /\ watcher' = [watcher EXCEPT ![g] = "done"]
    /\ published' = [published EXCEPT ![g] = @ \cup {"process_exited"}]
    /\ UNCHANGED <<processes, generation, proc, call, dropped>>

-----------------------------------------------------------------------------
\* stop of a bot that has no record: Ok at once.
StopNothing(t, b) ==
    /\ Idle(t)
    /\ processes[b] = NoRecord
    /\ call' = [call EXCEPT ![t] = IdleCall("ok")]
    /\ UNCHANGED <<processes, generation, proc, watcher, published, dropped>>

\* stop marks the record and remembers its pid.
StopMark(t, b) ==
    /\ Idle(t)
    /\ processes[b] # NoRecord
    /\ processes' = [processes EXCEPT ![b].stop_requested = TRUE]
    /\ call' = [call EXCEPT ![t] =
                  [pc |-> "kill", bot |-> b, gen |-> processes[b].generation,
                   pid |-> processes[b].pid, result |-> "none"]]
    /\ UNCHANGED <<generation, proc, watcher, published, dropped>>

\* taskkill ends whichever process has the pid now; "no such process" (exit
\* code 128) counts as success.
StopKill(t) ==
    /\ call[t].pc = "kill"
    /\ proc' = [g \in Generation |->
                  IF proc[g].pid = call[t].pid THEN Ended(proc[g]) ELSE proc[g]]
    /\ call' = [call EXCEPT ![t].pc = "settle", ![t].result = "ok"]
    /\ UNCHANGED <<processes, generation, watcher, published, dropped>>

MutantStopKillFails(t) ==
    /\ call[t].pc = "kill"
    /\ call' = [call EXCEPT ![t].pc = "settle", ![t].result = "ok"]
    /\ UNCHANGED <<processes, generation, proc, watcher, published, dropped>>

\* taskkill cannot be run or reports another failure.
StopKillFails(t) ==
    /\ call[t].pc = "kill"
    /\ call' = [call EXCEPT ![t].pc = "settle", ![t].result = "err"]
    /\ UNCHANGED <<processes, generation, proc, watcher, published, dropped>>

\* A killed process's record goes; a failed stop takes its mark back.
MutantSettled(record, c) ==
    IF record.pid # c.pid THEN record
    ELSE IF c.result = "ok" /\ record.stop_requested THEN NoRecord ELSE record

Settled(record, c) ==
    IF record.pid # c.pid THEN record
    ELSE IF c.result = "err" THEN [record EXCEPT !.stop_requested = FALSE]
    ELSE IF record.stop_requested THEN NoRecord ELSE record

StopSettle(t) ==
    /\ call[t].pc = "settle"
    /\ processes' = [processes EXCEPT ![call[t].bot] = Settled(@, call[t])]
    /\ call' = [call EXCEPT ![t] = IdleCall(call[t].result)]
    /\ UNCHANGED <<generation, proc, watcher, published, dropped>>

-----------------------------------------------------------------------------
TaskBegins(t) ==
    \/ \E b \in Bots, p \in Pids : LaunchSpawn(t, b, p)
    \/ LaunchFails(t)
    \/ \E b \in Bots : StopNothing(t, b) \/ StopMark(t, b)

TaskProceeds(t) ==
    LaunchInsert(t) \/ StopKill(t) \/ StopKillFails(t) \/ StopSettle(t)

WatcherStep(g) == WatcherSeesExit(g) \/ WatcherPublishes(g)

Next ==
    \/ \E t \in Tasks : TaskBegins(t) \/ TaskProceeds(t)
    \/ \E g \in Generation :
          ProcessExits(g) \/ LogReaderSeesWebui(g) \/ WatcherStep(g) \/ WaitFails(g)

\* A task that holds a call goes on with it (the process table's lock is held
\* across no await), and a watcher is woken by its process's exit.
Fairness ==
    /\ \A t \in Tasks : WF_vars(TaskProceeds(t))
    /\ \A g \in Generation : WF_vars(WatcherStep(g))

Spec == Init /\ [][Next]_vars /\ Fairness

-----------------------------------------------------------------------------
(* Properties.                                                             *)

\* Type invariant of the process table and of the tasks on it.
TypeOK ==
    /\ processes \in [Bots -> ManagedProcess \cup {NoRecord}]
    /\ generation \in 1 .. MaxLaunches + 1
    /\ proc \in [Generation -> Process \cup {NoProcess}]
    /\ watcher \in [Generation -> {"none", "waiting", "publishing", "done"}]
    /\ call \in [Tasks -> LaunchCall \cup StopCall
                            \cup {IdleCall(r) : r \in Outcome}]
    /\ published \in [Generation -> SUBSET EventKind]
    /\ dropped \in SUBSET Generation

\* The generation a bot's record belongs to is g.
Recorded(g) == \E b \in Bots : processes[b].generation = g

\* No phantom: every record in the table names a spawned process of that bot
\* whose exit watcher is still waiting, so observe() cannot answer Running for
\* ever after the process is gone.
EveryRecordIsWatched ==
    \A b \in Bots :
        processes[b] # NoRecord =>
            LET g == processes[b].generation
            IN /\ watcher[g] = "waiting"
               /\ proc[g].bot = b
               /\ proc[g].pid = processes[b].pid

\* A stop mark never outlives the stop that set it: while a record carries
\* stop_requested some stop of that bot and pid is still under way.  A mark left
\* behind by a failed stop would swallow the exit event of a later crash.
StopFlagHasOwner ==
    \A b \in Bots :
        processes[b].stop_requested =>
            \E t \in Tasks : /\ call[t].pc \in {"kill", "settle"}
                             /\ call[t].bot = b
                             /\ call[t].pid = processes[b].pid

\* No process is forgotten: a living process whose launch is complete is in the
\* table, unless its record was overwritten by a later launch, its wait failed,
\* or its pid had belonged to an earlier process (stop settles by pid alone, so
\* a slow stop of the earlier process can take the newcomer's record).
OrphansExplained ==
    \A g \in Generation :
        (proc[g].alive /\ watcher[g] # "none" /\ ~Recorded(g)) =>
            \/ g \in dropped
            \/ \E h \in 1 .. g - 1 : proc[h].pid = proc[g].pid

\* A stop whose kill succeeded has ended the very process it marked, whatever
\* exited, was relaunched or took over the pid in the meantime.
StopOkMeansDead ==
    \A t \in Tasks :
        (call[t].pc = "settle" /\ call[t].result = "ok") => ~proc[call[t].gen].alive

\* The record of a dead process always goes: the bot becomes startable again.
DeadRecordIsCleared ==
    \A g \in Generation :
        (watcher[g] # "none" /\ ~proc[g].alive) ~> ~Recorded(g)

=============================================================================
