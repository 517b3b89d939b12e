--------------------------- MODULE DeploymentTasks ---------------------------
(***************************************************************************)
(* DeploymentTaskManager of ncd-runtime/src/deploy/tasks.rs: the queue of  *)
(* installations.  Tasks wait in one list for the tasks they depend on and *)
(* for their resources; whoever changes the state afterwards runs a        *)
(* dispatch loop, which takes ready tasks one lock section at a time and   *)
(* spawns their runners when nothing more is ready.  Several loops may     *)
(* interleave.                                                             *)
(*                                                                         *)
(* Resources are named by their key (resource_key); the download slot is   *)
(* counted instead of owned.  Progress, titles and times are left out, and *)
(* WaitingInput, which nothing sets.  A runner that panics ends the whole  *)
(* program (the release profile aborts), so a runner returns or goes on.   *)
(***************************************************************************)
EXTENDS Integers, Sequences, FiniteSets

CONSTANTS Callers,       (* frontend commands running at the same time      *)
          Tasks,         (* ids of the tasks, each submitted at most once   *)
          Exclusive,     (* keys of the resources that have one owner       *)
          Keys,          (* dedupe keys                                     *)
          Requests,      (* for every task, what it may ask for             *)
          MaxDownloads   (* DEFAULT_MAX_DOWNLOAD_TASKS, 2 in the code       *)

NoTask == 0
NoKey == "no key"

DeploymentTaskRequest ==
    [resources : SUBSET Exclusive, download : BOOLEAN, depends_on : SUBSET Tasks,
     dedupe_key : Keys \cup {NoKey}, cancellable : BOOLEAN]

ASSUME RequestsAssumption == Requests \subseteq [Tasks -> DeploymentTaskRequest]
ASSUME LimitAssumption == MaxDownloads \in Nat \ {0}
ASSUME NamesAssumption == Tasks \subseteq Nat \ {NoTask} /\ NoKey \notin Keys /\ Callers \cap Tasks = {}

VARIABLES request,       (* what each task asks for, fixed at the start     *)
          status,        (* of each task; "new" and "removed": not in tasks *)
          depends_on,    (* dependencies a submitted task still waits for   *)
          cancelled,     (* tasks whose cancellation token was cancelled    *)
          pending,       (* queued tasks in the order they came             *)
          owners,        (* resource_owners                                 *)
          slots,         (* download_slots_used                             *)
          taken,         (* dispatch loop -> tasks taken and not yet spawned *)
          dispatching,   (* dispatch loops under way                        *)
          succeeded,     (* history: tasks that ended in Success            *)
          over_released  (* history: a slot was released by a task that     *)
                         (* did not hold one                                *)

vars == <<request, status, depends_on, cancelled, pending, owners, slots, taken,
          dispatching, succeeded, over_released>>

\* Who runs a dispatch loop: a frontend command, or a task that has finished.
Dispatchers == Callers \cup Tasks

Terminal == {"success", "failed", "cancelled"}
Status == {"new", "queued", "running", "removed"} \cup Terminal

Init ==
    /\ request \in Requests
    /\ status = [t \in Tasks |-> "new"]
    /\ depends_on = [t \in Tasks |-> {}]
    /\ cancelled = {}
    /\ pending = <<>>
    /\ owners = [k \in Exclusive |-> NoTask]
    /\ slots = 0
    /\ taken = [d \in Dispatchers |-> {}]
    /\ dispatching = {}
    /\ succeeded = {}
    /\ over_released = FALSE

-----------------------------------------------------------------------------
\* The list without some tasks, in its order (Vec::retain).
Without(queue, ts) ==
    LET kept[i \in 0 .. Len(queue)] ==
            IF i = 0 THEN <<>>
            ELSE IF queue[i] \in ts THEN kept[i - 1] ELSE Append(kept[i - 1], queue[i])
    IN kept[Len(queue)]

Free(c) == c \notin dispatching

\* dispatch_ready_tasks begins; its loop is Dispatch below.
BeginDispatch(d) == dispatching' = dispatching \cup {d}

Active(t) == status[t] \in {"queued", "running"}

\* An active task with the same key answers instead of a new one.
Duplicate(t) ==
    \E u \in Tasks : /\ Active(u) /\ request[u].dedupe_key = request[t].dedupe_key
                     /\ request[t].dedupe_key # NoKey

\* submit; the ids a task depends on come from earlier submissions.
Submit(c, t) ==
    /\ Free(c)
    /\ status[t] = "new" /\ ~Duplicate(t)
    /\ \A d \in request[t].depends_on : status[d] # "new"
    /\ status' = [status EXCEPT ![t] = "queued"]
    /\ depends_on' = [depends_on EXCEPT ![t] = request[t].depends_on]
    /\ pending' = Append(pending, t)
    /\ BeginDispatch(c)
    /\ UNCHANGED <<request, cancelled, owners, slots, taken, succeeded, over_released>>

\* cancel of a task that has not started.
CancelQueued(c, t) ==
    /\ Free(c)
    /\ status[t] = "queued"
    /\ cancelled' = cancelled \cup {t}
    /\ status' = [status EXCEPT ![t] = "cancelled"]
    /\ pending' = Without(pending, {t})
    /\ BeginDispatch(c)
    /\ UNCHANGED <<request, depends_on, owners, slots, taken, succeeded, over_released>>

\* cancel of a running task only tells its runner.
CancelRunning(t) ==
    /\ status[t] = "running" /\ request[t].cancellable
    /\ cancelled' = cancelled \cup {t}
    /\ UNCHANGED <<request, status, depends_on, pending, owners, slots, taken,
                   dispatching, succeeded, over_released>>

-----------------------------------------------------------------------------
(* Resources.                                                              *)

MutantRelease(ts) == [k \in Exclusive |->
    IF \E t \in ts : k \in request[t].resources THEN NoTask ELSE owners[k]]

\* release_resources of some tasks: an exclusive resource only from its owner,
\* a download slot from anyone, but not below zero.
Release(ts) == [k \in Exclusive |-> IF owners[k] \in ts THEN NoTask ELSE owners[k]]

SlotsWithout(ts) ==
    LET released == Cardinality({t \in ts : request[t].download})
    IN IF released > slots THEN 0 ELSE slots - released

ResourcesAvailable(t) ==
    /\ request[t].download => slots < MaxDownloads
    /\ \A k \in request[t].resources : owners[k] = NoTask

-----------------------------------------------------------------------------
(* Removal from the list.                                                  *)

MutantDropDependencies(ts) ==
    depends_on' = [t \in Tasks |-> depends_on[t] \ ts]

\* drop_satisfied_dependencies: what depended on removed successes need not wait.
DropDependencies(ts) ==
    depends_on' = [t \in Tasks |-> depends_on[t] \ {d \in ts : status[d] = "success"}]

\* remove_task releases the resources once more; a success starts a dispatch.
Remove(c, ts) ==
    /\ status' = [t \in Tasks |-> IF t \in ts THEN "removed" ELSE status[t]]
    /\ owners' = Release(ts)
    /\ slots' = SlotsWithout(ts)
    /\ over_released' = (over_released \/ SlotsWithout(ts) # slots)
    /\ DropDependencies(ts)
    /\ IF \E t \in ts : status[t] = "success" THEN BeginDispatch(c) ELSE UNCHANGED dispatching
    /\ UNCHANGED <<request, cancelled, pending, taken, succeeded>>

DeleteTerminal(c, t) ==
    /\ Free(c)
    /\ status[t] \in Terminal
    /\ Remove(c, {t})

ClearTerminal(c) ==
    /\ Free(c)
    /\ \E t \in Tasks : status[t] \in Terminal
    /\ Remove(c, {t \in Tasks : status[t] \in Terminal})

-----------------------------------------------------------------------------
(* The dispatch loop.                                                      *)

\* A dependency is missing or ended badly.
DependencyFails(t, failed) ==
    \E d \in depends_on[t] : d \in failed \/ status[d] \in {"new", "removed", "failed", "cancelled"}

DependenciesSatisfied(t) == \A d \in depends_on[t] : status[d] = "success"

\* fail_tasks_with_failed_dependencies goes through the list once, and sees the
\* failures it has just decided.
FailedUpTo[i \in 0 .. Len(pending)] ==
    IF i = 0 THEN {}
    ELSE FailedUpTo[i - 1] \cup
         (IF DependencyFails(pending[i], FailedUpTo[i - 1]) THEN {pending[i]} ELSE {})

FailedByDependency == FailedUpTo[Len(pending)]

ReadyAt(queue, i) == DependenciesSatisfied(queue[i]) /\ ResourcesAvailable(queue[i])

\* take_next_ready_task: the first that can run, wherever it is in the list.
TakeNext(d, queue, i) ==
    /\ ReadyAt(queue, i)
    /\ \A j \in 1 .. i - 1 : ~ReadyAt(queue, j)
    /\ LET t == queue[i]
       IN /\ pending' = Without(queue, {t})
          /\ owners' = [k \in Exclusive |-> IF k \in request[t].resources THEN t ELSE owners[k]]
          /\ slots' = IF request[t].download THEN slots + 1 ELSE slots
          /\ taken' = [taken EXCEPT ![d] = @ \cup {t}]
          /\ status' = [u \in Tasks |-> IF u = t THEN "running"
                                        ELSE IF u \in FailedByDependency THEN "failed" ELSE status[u]]
    /\ UNCHANGED dispatching

\* Nothing more is ready: spawn_ready_tasks runs what was taken.
SpawnTaken(d, queue) ==
    /\ \A i \in DOMAIN queue : ~ReadyAt(queue, i)
    /\ pending' = queue
    /\ status' = [u \in Tasks |-> IF u \in FailedByDependency THEN "failed" ELSE status[u]]
    /\ taken' = [taken EXCEPT ![d] = {}]
    /\ dispatching' = dispatching \ {d}
    /\ UNCHANGED <<owners, slots>>

\* One turn of take_ready_tasks.
Dispatch(d) ==
    /\ d \in dispatching
    /\ LET queue == Without(pending, FailedByDependency)
       IN SpawnTaken(d, queue) \/ \E i \in DOMAIN queue : TakeNext(d, queue, i)
    /\ cancelled' = cancelled \cup FailedByDependency
    /\ UNCHANGED <<request, depends_on, succeeded, over_released>>

Executing(t) == status[t] = "running" /\ \A d \in Dispatchers : t \notin taken[d]

MutantFinish(t, ok) ==
    /\ Executing(t)
    /\ owners' = Release({t})
    /\ slots' = SlotsWithout({t})
    /\ status' = [status EXCEPT ![t] = IF t \in cancelled THEN "cancelled"
                                       ELSE IF ok THEN "success" ELSE "failed"]
    /\ succeeded' = IF status'[t] = "success" THEN succeeded \cup {t} ELSE succeeded
    /\ UNCHANGED <<request, depends_on, cancelled, pending, taken, dispatching, over_released>>

MutantFinishKeepsResources(t, ok) ==
    /\ Executing(t)
    /\ status' = [status EXCEPT ![t] = IF t \in cancelled THEN "cancelled"
                                       ELSE IF ok THEN "success" ELSE "failed"]
    /\ succeeded' = IF status'[t] = "success" THEN succeeded \cup {t} ELSE succeeded
    /\ BeginDispatch(t)
    /\ UNCHANGED <<request, depends_on, cancelled, pending, owners, slots, taken, over_released>>

\* The runner returns: finish, then a dispatch loop of its own.  Once cancelled,
\* a task ends as cancelled whatever its runner says.
Finish(t, ok) ==
    /\ Executing(t)
    /\ owners' = Release({t})
    /\ slots' = SlotsWithout({t})
    /\ status' = [status EXCEPT ![t] = IF t \in cancelled THEN "cancelled"
                                       ELSE IF ok THEN "success" ELSE "failed"]
    /\ succeeded' = IF status'[t] = "success" THEN succeeded \cup {t} ELSE succeeded
    /\ BeginDispatch(t)
    /\ UNCHANGED <<request, depends_on, cancelled, pending, taken, over_released>>

-----------------------------------------------------------------------------
Next ==
    \/ \E c \in Callers, t \in Tasks : Submit(c, t) \/ CancelQueued(c, t) \/ DeleteTerminal(c, t)
    \/ \E c \in Callers : ClearTerminal(c)
    \/ \E t \in Tasks : CancelRunning(t) \/ \E ok \in BOOLEAN : Finish(t, ok)
    \/ \E d \in Dispatchers : Dispatch(d)

\* A dispatch loop awaits nothing but the lock, which is never held across an
\* await; runners are assumed to return (downloads and commands have timeouts).
Fairness ==
    /\ \A d \in Dispatchers : WF_vars(Dispatch(d))
    /\ \A t \in Tasks : WF_vars(\E ok \in BOOLEAN : Finish(t, ok))

Spec == Init /\ [][Next]_vars /\ Fairness

-----------------------------------------------------------------------------
(* Properties.                                                             *)

\* Type invariant of the task manager's state.
TypeOK ==
    /\ request \in Requests
    /\ status \in [Tasks -> Status]
    /\ depends_on \in [Tasks -> SUBSET Tasks]
    /\ cancelled \in SUBSET Tasks
    /\ pending \in Seq(Tasks)
    /\ owners \in [Exclusive -> Tasks \cup {NoTask}]
    /\ slots \in 0 .. MaxDownloads
    /\ taken \in [Dispatchers -> SUBSET Tasks]
    /\ dispatching \in SUBSET Dispatchers
    /\ succeeded \in SUBSET Tasks
    /\ over_released \in BOOLEAN

Running == {t \in Tasks : status[t] = "running"}
Downloading == {t \in Running : request[t].download}

\* An exclusive resource belongs to exactly the running task that asked for it:
\* two installations never share one, and none stays locked after its task has
\* ended, was removed, or was removed while a later task holds the resource.
OwnersAreRunning ==
    \A k \in Exclusive : {t \in Running : k \in request[t].resources} = {owners[k]} \ {NoTask}

\* The slot counter is the number of running downloads, as long as no removal
\* has released a slot that its task did not hold any more.
SlotsAreCounted == over_released \/ slots = Cardinality(Downloading)

\* What is taken is what running tasks hold, resources and slots alike.
HoldingsAreRunning == OwnersAreRunning /\ SlotsAreCounted

\* No wakeup is lost: when no dispatch loop is under way, whoever waits in the
\* list waits for an unfinished task, or for something a running task holds.
WaitingHasReason ==
    dispatching = {} =>
        \A t \in Tasks : status[t] = "queued" =>
            \/ \E d \in depends_on[t] : Active(d)
            \/ \E k \in request[t].resources : \E u \in Running : k \in request[u].resources
            \/ request[t].download /\ Cardinality(Downloading) >= MaxDownloads

\* A task starts only after everything it was submitted with has succeeded,
\* also when the successes were deleted from the list meanwhile.
DependenciesComeFirst ==
    [][\A t \in Tasks : (status[t] # "running" /\ status'[t] = "running")
          => request[t].depends_on \subseteq succeeded]_vars

\* Every task that was submitted ends, or goes with the one it depended on.
EveryTaskEnds == \A t \in Tasks : status[t] = "queued" ~> status[t] \in Terminal \cup {"removed"}

\* DEFAULT_MAX_DOWNLOAD_TASKS of tasks.rs:16: no more downloads run at a time.
DownloadsAreLimited == Cardinality(Downloading) <= MaxDownloads

=============================================================================
