-------------------------- MODULE BotManagerProofs --------------------------
(***************************************************************************)
(* Proofs about the composed bot manager for any number of tasks, calls    *)
(* and launches.  What NativeDeploymentProofs shows of the process table   *)
(* is used here through an instance: a step of the manager is a step of    *)
(* the table or leaves it alone.                                           *)
(***************************************************************************)
EXTENDS BotManager, TLAPS

Table == INSTANCE NativeDeploymentProofs WITH Bots <- {Bot}

-----------------------------------------------------------------------------
(* The inductive invariant.                                                *)

\* The token of the current run.
Token == snapshot.token_generation

\* Every token but the current one is cancelled, and so is the current one
\* unless the bot is Starting or Running.  Token 0 belongs to no run.
TokensAreOrdered ==
    /\ cancelled \subseteq 1 .. Token
    /\ \A k \in 1 .. Token - 1 : k \in cancelled
    /\ snapshot.state \notin {"Starting", "Running"} => Token = 0 \/ Token \in cancelled
    /\ snapshot.state # "Stopped" => Token # 0

\* Past the stop of the process; what a stop_bot whose confirm_stopped began the
\* queued restart will do; a restart or a switch that has made its request.
Stopped(t) == op[t].pc \in {"dispose", "endpoint", "after"}
TakesOver(t) == op[t].kind = "stop" /\ op[t].seen = "Starting" /\ Stopped(t)
Restarts(t) == /\ op[t].kind \in {"restart", "switch"}
               /\ op[t].pc \in {"backend", "await", "confirm"} \/ Stopped(t)

\* An operation knows a token that exists, and is at a step of its kind.
TokenIsKnown(t) ==
    /\ op[t].token \in 0 .. Token
    /\ Launching(t) \/ TakesOver(t) \/ Restarts(t) => op[t].token # 0
    /\ (op[t].kind = "stop" /\ op[t].pc \in {"status", "backend", "await", "confirm"})
          => op[t].token = 0 \/ op[t].token \in cancelled

KindIsRight(t) ==
    /\ op[t].pc \in StopPc => op[t].kind \in {"stop", "restart", "switch"}
    /\ op[t].pc = "status" => op[t].kind = "stop" /\ op[t].seen # "Starting"
    /\ op[t].pc = "stop_failed" => op[t].kind = "stop" /\ "kill_failed" \in faults
    /\ Stopped(t) => op[t].kind \in {"stop", "restart"}
    /\ call[t].pc = "settle" /\ call[t].result = "err" => "kill_failed" \in faults

\* A restart runs alone, where it may not overlap other operations.
RestartIsAlone(t) ==
    op[t].kind = "restart" =>
        \A u \in Tasks : u = t \/ op[u] = Resting \/ "restart" \in Overlapping

OpsAreInStep == \A t \in Tasks : TokenIsKnown(t) /\ KindIsRight(t) /\ RestartIsAlone(t)

\* An exit that is on its way is that of a process whose watcher has ended.
ExitsAreOver ==
    /\ \A i \in 1 .. Len(exitBox) : watcher[exitBox[i]] = "done"
    /\ listener # Receiving => watcher[listener.gen] = "done"

\* Who may still run the start pipeline of the run it began.
Claims(t) ==
    \/ Launching(t)
    \/ TakesOver(t)
    \/ /\ op[t].kind \in {"restart", "switch"}
       /\ op[t].pc \in {"backend", "await", "dispose", "endpoint", "confirm"}
       /\ op[t].token \notin cancelled

OneClaim == \A t, u \in Tasks : Claims(t) /\ Claims(u) /\ op[t].token = op[u].token => t = u

\* Restarts do not overlap and no start took up another run's token; and nothing
\* that OrphanNeedsFault excuses has happened.
Apart == "restart" \notin Overlapping /\ "other_token" \notin faults
Clean == /\ Apart
         /\ faults \cap {"kill_failed", "stale_exit", "stale_start", "late_confirm"} = {}

Record == processes[Bot]
Lives == Record # Native!NoRecord /\ proc[Record.generation].alive
Inserted(g) == watcher[g] # "none"

\* Records are inserted in the order of their launches.
RecordIsLatest ==
    Record # Native!NoRecord => \A h \in Generation : Inserted(h) => h <= Record.generation
InsertIsLatest ==
    \A t \in Tasks : (op[t].pc = "insert" /\ op[t].token \notin cancelled)
        => \A h \in Generation : Inserted(h) => h <= call[t].gen

\* A bot that is not running has no living process; one that is Starting has one
\* only when its start has inserted it; and a Running bot's start is over.
Rechecks(t) == op[t].pc \in {"recheck", "recheck_again", "confirm_running"}

StoppedIsDead == snapshot.state \in {"Stopped", "Crashed"} => ~Lives
StartingIsDead ==
    (snapshot.state = "Starting" /\ Lives) => \E t \in Tasks : Rechecks(t) /\ op[t].token = Token
RunningIsTaken ==
    snapshot.state = "Running" => \A t \in Tasks : Claims(t) => op[t].token # Token

\* A stop that will confirm the end of the current run has killed its process, or
\* is about to.
Ends(t) == \/ op[t].pc \in {"await", "confirm"}
           \/ op[t].kind = "restart" /\ op[t].pc \in {"dispose", "endpoint"}
EndsItsRun ==
    \A t \in Tasks : (Ends(t) /\ op[t].token = Token /\ Token \in cancelled /\ Lives)
        => op[t].pc = "await" /\ call[t].gen = Record.generation

DroppedAreDead == \A g \in dropped : Inserted(g) /\ ~proc[g].alive

CleanInv == /\ RecordIsLatest /\ InsertIsLatest
            /\ StoppedIsDead /\ StartingIsDead /\ RunningIsTaken
            /\ EndsItsRun /\ DroppedAreDead

IInv == /\ TypeOK /\ Table!IInv
        /\ TokensAreOrdered /\ OpsAreInStep /\ ExitsAreOver
        /\ Apart => OneClaim
        /\ Clean => CleanInv

-----------------------------------------------------------------------------
(* The process table.                                                      *)

LEMMA SameTable ==
    /\ Native!vars = Table!vars /\ Native!Generation = Generation /\ Table!Generation = Generation
    /\ Native!NoRecord = Table!NoRecord /\ Native!NoProcess = Table!NoProcess
    /\ Native!TypeOK = Table!TypeOK
  BY DEF Native!vars, Table!vars, Native!Generation, Table!Generation, Generation,
         Native!NoRecord, Table!NoRecord, Native!NoProcess, Table!NoProcess,
         Native!TypeOK, Table!TypeOK, Native!ManagedProcess, Table!ManagedProcess,
         Native!Process, Table!Process, Native!Outcome, Table!Outcome,
         Native!IdleCall, Table!IdleCall, Native!LaunchCall, Table!LaunchCall,
         Native!StopCall, Table!StopCall, Native!EventKind, Table!EventKind

LEMMA SameTypes == Native!TypeOK <=> Table!TypeOK
  BY SameTable

\* A step of the manager is a step of the table, or leaves it alone.
TableStep ==
    \/ \E t \in Tasks :
          \/ \E p \in Pids : Native!LaunchSpawn(t, Bot, p)
          \/ Native!LaunchFails(t) \/ Native!LaunchInsert(t)
          \/ Native!StopNothing(t, Bot) \/ Native!StopMark(t, Bot)
          \/ Native!StopKill(t) \/ Native!StopKillFails(t) \/ Native!StopSettle(t)
    \/ \E g \in Generation :
          \/ Native!ProcessExits(g) \/ Native!LogReaderSeesWebui(g)
          \/ Native!WatcherSeesExit(g) \/ Native!WatcherPublishes(g)
    \/ UNCHANGED deployment

LEMMA NextIsTableStep == [Next]_vars => TableStep
  <1> SUFFICES ASSUME [Next]_vars PROVE TableStep
    OBVIOUS
  <1> USE DEF TableStep
  <1>1. ASSUME NEW t \in Tasks, NEW kind \in Operations, Call(t, kind) PROVE TableStep
    BY <1>1 DEF Call
  <1>2. ASSUME NEW t \in Tasks, StartStep(t) PROVE TableStep
    BY <1>2 DEF StartStep, StartRequest, StartRefused, ReadToken, Plan, CheckCancel, Spawn,
                Insert, Recheck, FinishStart, StartError, MarkStartCrashed
  <1>3. ASSUME NEW t \in Tasks, StopStep(t) PROVE TableStep
    BY <1>3 DEF StopStep, Look, Request, Queue, Status, BackendStop, BackendKills,
                BackendStopped, StopFailed, Confirm, DisposePoller, DisposeEndpoint, After
  <1>4. ASSUME NEW g \in Generation, ProcessExits(g) \/ PublishWebui(g) \/ WatcherStep(g)
        PROVE  TableStep
    BY <1>4 DEF ProcessExits, PublishWebui, WatcherStep, WatcherSeesExit, PublishExit
  <1>5. CASE ListenerStep \/ LoginStep
    BY <1>5 DEF ListenerStep, ListenerTakes, ListenerTells,
                LoginStep, LoginTakesWebui, LoginSpawnsPoller, LoginTakesExit
  <1>6. CASE UNCHANGED vars
    BY <1>6 DEF vars
  <1> QED
    BY <1>1, <1>2, <1>3, <1>4, <1>5, <1>6 DEF Next, TaskStep

LEMMA TableStepIsNext == TableStep => [Table!Next]_(Table!vars)
  <1> SUFFICES ASSUME TableStep PROVE [Table!Next]_(Table!vars)
    OBVIOUS
  <1> USE SameTable DEF Table!Next, Native!PidTaken, Table!PidTaken, Native!Idle, Table!Idle,
                        Native!IdleCall, Table!IdleCall, Native!Ended, Table!Ended
  <1>1. ASSUME NEW t \in Tasks, NEW p \in Pids, Native!LaunchSpawn(t, Bot, p) PROVE Table!Next
    <2>1. Table!LaunchSpawn(t, Bot, p)
      BY <1>1 DEF Native!LaunchSpawn, Table!LaunchSpawn
    <2> QED
      BY <2>1 DEF Table!TaskBegins
  <1>2. ASSUME NEW t \in Tasks,
               Native!LaunchFails(t) \/ Native!StopNothing(t, Bot) \/ Native!StopMark(t, Bot)
        PROVE  Table!Next
    <2>1. Table!LaunchFails(t) \/ Table!StopNothing(t, Bot) \/ Table!StopMark(t, Bot)
      BY <1>2 DEF Native!LaunchFails, Table!LaunchFails, Native!StopNothing, Table!StopNothing,
                  Native!StopMark, Table!StopMark
    <2> QED
      BY <2>1 DEF Table!TaskBegins
  <1>3. ASSUME NEW t \in Tasks, Native!LaunchInsert(t) \/ Native!StopKillFails(t)
        PROVE  Table!Next
    <2>1. Table!LaunchInsert(t) \/ Table!StopKillFails(t)
      BY <1>3 DEF Native!LaunchInsert, Table!LaunchInsert, Native!StopKillFails,
                  Table!StopKillFails
    <2> QED
      BY <2>1 DEF Table!TaskProceeds
  <1>4. ASSUME NEW t \in Tasks, Native!StopKill(t) PROVE Table!Next
    <2>1. Table!StopKill(t)
      BY <1>4 DEF Native!StopKill, Table!StopKill
    <2> QED
      BY <2>1 DEF Table!TaskProceeds
  <1>5. ASSUME NEW t \in Tasks, Native!StopSettle(t) PROVE Table!Next
    <2>1. Table!StopSettle(t)
      BY <1>5 DEF Native!StopSettle, Table!StopSettle, Native!Settled, Table!Settled
    <2> QED
      BY <2>1 DEF Table!TaskProceeds
  <1>6. ASSUME NEW g \in Generation,
               \/ Native!ProcessExits(g) \/ Native!LogReaderSeesWebui(g)
               \/ Native!WatcherSeesExit(g) \/ Native!WatcherPublishes(g)
        PROVE  Table!Next
    <2>1. \/ Table!ProcessExits(g) \/ Table!LogReaderSeesWebui(g)
          \/ Table!WatcherSeesExit(g) \/ Table!WatcherPublishes(g)
      BY <1>6 DEF Native!ProcessExits, Table!ProcessExits, Native!LogReaderSeesWebui,
                  Table!LogReaderSeesWebui, Native!WatcherSeesExit, Table!WatcherSeesExit,
                  Native!WatcherClears, Table!WatcherClears, Native!Watches, Table!Watches,
                  Native!WatcherPublishes, Table!WatcherPublishes
    <2> QED
      BY <2>1 DEF Table!WatcherStep
  <1>7. CASE UNCHANGED deployment
    BY <1>7 DEF deployment, Table!vars
  <1> QED
    BY <1>1, <1>2, <1>3, <1>4, <1>5, <1>6, <1>7 DEF TableStep

LEMMA InitTable == Init => Table!IInv
  <1>1. Init => Table!Init
    BY SameTable DEF Init, Native!Init, Table!Init, Native!IdleCall, Table!IdleCall
  <1> QED
    BY <1>1, Table!InitIInv, LaunchesAssumption

LEMMA NextTable == Table!IInv /\ [Next]_vars => Table!IInv'
  BY NextIsTableStep, TableStepIsNext, Table!NextIInv, LaunchesAssumption

-----------------------------------------------------------------------------
(* What the steps of the table do to the record, its process and the calls. *)

\* The record may go, and processes may end.
Shrinks ==
    /\ Record' # Native!NoRecord =>
          Record # Native!NoRecord /\ Record'.generation = Record.generation
    /\ \A g \in Generation : Inserted(g) /\ proc'[g].alive => proc[g].alive
    /\ \A g \in Generation : Inserted(g)' <=> Inserted(g)
    /\ \A g \in Generation : watcher[g] = "done" => watcher'[g] = "done"
    /\ dropped' = dropped

TableTypes ==
    /\ processes \in [{Bot} -> Native!ManagedProcess \cup {Native!NoRecord}]
    /\ generation \in Nat
    /\ proc \in [Generation -> Native!Process \cup {Native!NoProcess}]
    /\ watcher \in [Generation -> {"none", "waiting", "publishing", "done"}]
    /\ DOMAIN call = Tasks
    /\ dropped \subseteq Generation
    /\ Record = processes[Bot]
    /\ Generation \subseteq Nat /\ 0 \notin Generation

RecordFacts ==
    /\ Native!NoRecord.generation = 0
    /\ Record # Native!NoRecord =>
          Record.generation \in Generation /\ watcher[Record.generation] = "waiting"
    /\ \A g \in Generation : Inserted(g) => g < generation
    /\ \A g \in Generation : g >= generation => ~proc[g].alive

CallFacts(t) ==
    LET c == call[t]
    IN /\ c.pc \in {"idle", "insert", "kill", "settle"}
       /\ c.pc # "idle" => c.gen \in Generation /\ c.bot = Bot
       /\ c.pc = "settle" => c.result \in {"ok", "err"}
       /\ c.pc = "settle" /\ c.result = "ok" => ~proc[c.gen].alive
       /\ c.pc = "insert" => watcher[c.gen] = "none"

LEMMA TypeFacts == Table!IInv => TableTypes
  <1> SUFFICES ASSUME Table!TypeOK PROVE TableTypes
    BY DEF Table!IInv
  <1>1. Native!TypeOK
    BY SameTable
  <1>2. 1 .. MaxLaunches \subseteq Nat /\ 0 \notin 1 .. MaxLaunches /\ 1 .. MaxLaunches + 1 \subseteq Nat
    BY LaunchesAssumption
  <1> QED
    BY <1>1, <1>2, SameTable DEF Native!TypeOK, TableTypes, Generation, Record

LEMMA TableFacts ==
    Table!IInv => RecordFacts /\ \A t \in Tasks : CallFacts(t)
  <1> SUFFICES ASSUME Table!IInv PROVE RecordFacts /\ \A t \in Tasks : CallFacts(t)
    OBVIOUS
  <1>1. TableTypes
    BY TypeFacts
  <1>2. Native!NoRecord = [pid |-> "none", generation |-> 0, stop_requested |-> FALSE]
        /\ Native!NoRecord.generation = 0
    BY DEF Native!NoRecord
  <1>3. Native!NoProcess.alive = FALSE
    BY DEF Native!NoProcess
  <1>4. Record # Native!NoRecord =>
          Record.generation \in Generation /\ watcher[Record.generation] = "waiting"
    <2>1. Record # Native!NoRecord => Record \in Native!ManagedProcess
      BY <1>1 DEF TableTypes
    <2>2. Table!EveryRecordIsWatched
      BY DEF Table!IInv
    <2> QED
      BY <2>1, <2>2, SameTable DEF Table!EveryRecordIsWatched, Native!ManagedProcess, Record
  <1>5. /\ \A g \in Generation : Inserted(g) => g < generation
        /\ \A g \in Generation : g >= generation => ~proc[g].alive
    BY <1>3, SameTable DEF Table!IInv, Table!Counted, Inserted
  <1>6. ASSUME NEW t \in Tasks PROVE CallFacts(t)
    <2>1. call[t] \in Table!LaunchCall \cup Table!StopCall
                        \cup {Table!IdleCall(r) : r \in Table!Outcome}
      BY DEF Table!IInv, Table!TypeOK
    <2>2. call[t].pc \in {"idle", "insert", "kill", "settle"}
      BY <2>1 DEF Table!LaunchCall, Table!StopCall, Table!IdleCall
    <2>3. call[t].pc # "idle" => call[t].bot = Bot
      BY <2>1 DEF Table!LaunchCall, Table!StopCall, Table!IdleCall
    <2>4. /\ call[t].pc # "idle" => call[t].gen \in Generation
          /\ call[t].pc = "settle" => call[t].result \in {"ok", "err"}
      BY SameTable DEF Table!IInv, Table!CallsAreCurrent
    <2>5. call[t].pc = "settle" /\ call[t].result = "ok" => ~proc[call[t].gen].alive
      BY DEF Table!IInv, Table!StopOkMeansDead
    <2>6. call[t].pc = "insert" => watcher[call[t].gen] = "none"
      BY DEF Table!IInv, Table!InsertsAreFresh
    <2> QED
      BY <2>2, <2>3, <2>4, <2>5, <2>6 DEF CallFacts
  <1> QED
    BY <1>2, <1>4, <1>5, <1>6 DEF RecordFacts

\* Every step but an insert only shrinks what there is.
TableShrinks ==
    \/ \E t \in Tasks :
          \/ \E p \in Pids : Native!LaunchSpawn(t, Bot, p)
          \/ Native!LaunchFails(t)
          \/ Native!StopNothing(t, Bot) \/ Native!StopMark(t, Bot)
          \/ Native!StopKill(t) \/ Native!StopKillFails(t) \/ Native!StopSettle(t)
    \/ \E g \in Generation :
          \/ Native!ProcessExits(g) \/ Native!LogReaderSeesWebui(g)
          \/ Native!WatcherSeesExit(g) \/ Native!WatcherPublishes(g)
    \/ UNCHANGED deployment

LEMMA ShrinksStep == Table!IInv /\ TableShrinks => Shrinks
  <1> SUFFICES ASSUME Table!IInv, TableShrinks PROVE Shrinks
    OBVIOUS
  <1>1. TableTypes /\ RecordFacts /\ \A t \in Tasks : CallFacts(t)
    BY TypeFacts, TableFacts
  <1>2. ASSUME NEW g \in Generation PROVE Native!Ended(proc[g]).alive = FALSE
    <2>1. proc[g] \in Table!Process \cup {Table!NoProcess}
      BY DEF Table!IInv, Table!TypeOK, Table!Generation, Generation
    <2>2. Table!Ended(proc[g]).alive = FALSE
      BY <2>1, Table!EndedFacts, LaunchesAssumption
    <2> QED
      BY <2>2 DEF Native!Ended, Table!Ended
  <1> USE <1>1 DEF TableTypes, RecordFacts, Shrinks, Inserted, Record
  <1>3. ASSUME NEW t \in Tasks, NEW p \in Pids, Native!LaunchSpawn(t, Bot, p) PROVE Shrinks
    BY <1>3, SameTable DEF Native!LaunchSpawn
  <1>4. ASSUME NEW t \in Tasks,
               \/ Native!LaunchFails(t) \/ Native!StopNothing(t, Bot) \/ Native!StopKillFails(t)
        PROVE  Shrinks
    BY <1>4 DEF Native!LaunchFails, Native!StopNothing, Native!StopKillFails
  <1>5. ASSUME NEW t \in Tasks, Native!StopMark(t, Bot) PROVE Shrinks
    BY <1>5 DEF Native!StopMark, Native!ManagedProcess
  <1>6. ASSUME NEW t \in Tasks, Native!StopKill(t) PROVE Shrinks
    BY <1>2, <1>6, SameTable DEF Native!StopKill
  <1>7. ASSUME NEW t \in Tasks, Native!StopSettle(t) PROVE Shrinks
    <2>1. call[t].bot = Bot
      BY <1>7 DEF Native!StopSettle, CallFacts
    <2>2. Record' = Native!Settled(Record, call[t])
      BY <1>7, <2>1 DEF Native!StopSettle
    <2>3. Record \in Table!ManagedProcess \cup {Table!NoRecord}
      BY DEF Table!IInv, Table!TypeOK
    <2>4. Table!SettlesTo(Record, call[t], Table!Settled(Record, call[t]))
      BY <2>3, Table!SettledFacts, LaunchesAssumption
    <2>5. Native!Settled(Record, call[t]) = Table!Settled(Record, call[t])
      BY SameTable DEF Native!Settled, Table!Settled
    <2>6. Record' # Native!NoRecord =>
            Record # Native!NoRecord /\ Record'.generation = Record.generation
      BY <2>2, <2>4, <2>5, SameTable DEF Table!SettlesTo
    <2> QED
      BY <1>7, <2>6 DEF Native!StopSettle
  <1>8. ASSUME NEW g \in Generation, Native!ProcessExits(g) PROVE Shrinks
    BY <1>2, <1>8 DEF Native!ProcessExits
  <1>9. ASSUME NEW g \in Generation, Native!LogReaderSeesWebui(g) PROVE Shrinks
    BY <1>9 DEF Native!LogReaderSeesWebui
  <1>10. ASSUME NEW g \in Generation, Native!WatcherSeesExit(g) \/ Native!WatcherPublishes(g)
         PROVE  Shrinks
    BY <1>10 DEF Native!WatcherSeesExit, Native!WatcherClears, Native!WatcherPublishes
  <1>11. CASE UNCHANGED deployment
    BY <1>11 DEF deployment
  <1> QED
    BY <1>3, <1>4, <1>5, <1>6, <1>7, <1>8, <1>9, <1>10, <1>11 DEF TableShrinks

-----------------------------------------------------------------------------
(* The actor.                                                              *)

\* What a command may do to the state, the tokens and the caller's answer.
Stays(s, c, out) == /\ out.snapshot.state = s.state
                    /\ out.snapshot.token_generation = s.token_generation
                    /\ out.cancelled = c
Begins(s, c, out) == /\ out.snapshot.state = "Starting" /\ s.state \in {"Stopped", "Crashed", "Stopping"}
                     /\ out.snapshot.token_generation = s.token_generation + 1
                     /\ out.cancelled = c /\ out.result = "advanced"
Turns(s, c, out, from, to) == /\ s.state = from /\ out.snapshot.state = to
                              /\ out.snapshot.token_generation = s.token_generation
                              /\ out.cancelled = c /\ out.result = "advanced"
Cancels(s, c, out, to) == /\ out.snapshot.state = to
                          /\ out.snapshot.token_generation = s.token_generation
                          /\ out.cancelled = c \cup {s.token_generation}
                          /\ out.result = "advanced"

LEMMA AdvanceFacts ==
    ASSUME NEW s \in Snapshot, NEW to \in State, NEW pending \in BOOLEAN, NEW error \in BOOLEAN
    PROVE  LET t == Advance(s, to, pending, error)
           IN  t \in Snapshot /\ t.state = to /\ t.token_generation = s.token_generation
  <1> DEFINE n == s.revision + 1
             t == [s EXCEPT !.state = to, !.revision = n,
                            !.pending_restart = pending, !.last_error = error]
  <1>1. n \in Nat
    BY DEF Snapshot
  <1>2. Advance(s, to, pending, error) = t
    BY DEF Advance
  <1> HIDE DEF n
  <1>3. t \in Snapshot /\ t.state = to /\ t.token_generation = s.token_generation
    BY <1>1 DEF Snapshot
  <1> QED
    BY <1>2, <1>3

LEMMA BeginRunFacts ==
    ASSUME NEW s \in Snapshot
    PROVE  /\ BeginRun(s) \in Snapshot /\ BeginRun(s).state = "Starting"
           /\ BeginRun(s).token_generation = s.token_generation + 1
  <1> DEFINE u == ResetToken(s)
             no == FALSE
  <1>1. u \in Snapshot /\ u.token_generation = s.token_generation + 1
    BY DEF ResetToken, Snapshot
  <1>2. no \in BOOLEAN /\ "Starting" \in State /\ BeginRun(s) = Advance(u, "Starting", no, no)
    BY DEF BeginRun, State
  <1> HIDE DEF u, no
  <1> QED
    BY <1>1, <1>2, AdvanceFacts

LEMMA CrashFacts ==
    ASSUME NEW s \in Snapshot
    PROVE  LET t == Advance(NoteError(s), "Crashed", FALSE, TRUE)
           IN  t \in Snapshot /\ t.state = "Crashed" /\ t.token_generation = s.token_generation
  <1> DEFINE n == s.revision + 1
             no == FALSE
             yes == TRUE
             u == [s EXCEPT !.last_error = yes, !.revision = n]
             t == Advance(u, "Crashed", no, yes)
  <1>1. n \in Nat /\ yes \in BOOLEAN /\ no \in BOOLEAN /\ "Crashed" \in State
    BY DEF Snapshot, State
  <1>2. NoteError(s) = u
    BY DEF NoteError
  <1>3. Advance(NoteError(s), "Crashed", FALSE, TRUE) = t
    BY <1>2
  <1> HIDE DEF n, yes, no
  <1>4. u \in Snapshot /\ u.token_generation = s.token_generation
    BY <1>1 DEF Snapshot
  <1> HIDE DEF u
  <1>5. t \in Snapshot /\ t.state = "Crashed" /\ t.token_generation = s.token_generation
    BY <1>1, <1>4, AdvanceFacts
  <1> HIDE DEF t
  <1> QED
    BY <1>3, <1>5, Zenon

\* What each command of the manager does.
StartMoves(s, c, out) ==
    /\ out.snapshot \in Snapshot
    /\ \/ Begins(s, c, out) /\ s.state \in {"Stopped", "Crashed"}
       \/ Stays(s, c, out) /\ out.result # "advanced"
RunMoves(s, c, out) ==
    /\ out.snapshot \in Snapshot
    /\ \/ Turns(s, c, out, "Starting", "Running")
       \/ Stays(s, c, out) /\ out.result # "advanced" /\ s.state # "Starting"
StopMoves(s, c, out) ==
    /\ out.snapshot \in Snapshot
    /\ \/ Cancels(s, c, out, "Stopping") /\ s.state \in {"Running", "Starting"}
       \/ Stays(s, c, out) /\ s.state \notin {"Running", "Starting"}
RestartMoves(s, c, out) ==
    /\ out.snapshot \in Snapshot
    /\ \/ Begins(s, c, out) /\ s.state \in {"Stopped", "Crashed"}
       \/ Cancels(s, c, out, "Stopping") /\ s.state \in {"Running", "Starting"}
       \/ Stays(s, c, out) /\ s.state = "Stopping"
       \/ Stays(s, c, out) /\ s.state = "Repairing" /\ out.result = "invalid"
ConfirmMoves(s, c, out) ==
    /\ out.snapshot \in Snapshot
    /\ \/ Begins(s, c, out) /\ s.state = "Stopping"
       \/ Turns(s, c, out, "Stopping", "Stopped")
       \/ Stays(s, c, out) /\ s.state = "Stopped" /\ out.result = "unchanged"
       \/ Stays(s, c, out) /\ s.state \notin {"Stopping", "Stopped"} /\ out.result = "invalid"
CrashMoves(s, c, out) ==
    /\ out.snapshot \in Snapshot
    /\ \/ Cancels(s, c, out, "Crashed") /\ s.state # "Stopped"
       \/ Stays(s, c, out) /\ s.state = "Stopped"

LEMMA OutFacts ==
    ASSUME NEW s \in Snapshot, NEW c \in SUBSET Nat, NEW t, NEW d
    PROVE  /\ Advanced(t, d).snapshot = t /\ Advanced(t, d).cancelled = d
           /\ Advanced(t, d).result = "advanced"
           /\ Unmoved(t, d).snapshot = t /\ Unmoved(t, d).cancelled = d
           /\ Unmoved(t, d).result = "unchanged"
           /\ Refused(t, d).snapshot = t /\ Refused(t, d).cancelled = d
           /\ Refused(t, d).result = "invalid"
           /\ s.state \in {"Stopped", "Starting", "Running", "Stopping", "Crashed", "Repairing"}
           /\ s.token_generation \in Nat /\ s.pending_restart \in BOOLEAN
           /\ s.last_error \in BOOLEAN
           /\ CancelCurrentToken(s, c) = c \cup {s.token_generation}
  BY DEF Advanced, Unmoved, Refused, Snapshot, State, CancelCurrentToken

LEMMA StartMovesFacts ==
    ASSUME NEW s \in Snapshot, NEW c \in SUBSET Nat
    PROVE  StartMoves(s, c, Handle("request_start", s, c))
  <1>1. Handle("request_start", s, c) = RequestStart(s, c)
    BY DEF Handle
  <1> DEFINE b == BeginRun(s)
  <1>2. b \in Snapshot /\ b.state = "Starting" /\ b.token_generation = s.token_generation + 1
    BY BeginRunFacts
  <1>3. RequestStart(s, c) =
          IF s.state \in {"Stopped", "Crashed"} THEN Advanced(b, c)
          ELSE IF s.state \in {"Starting", "Running"} THEN Unmoved(s, c) ELSE Refused(s, c)
    BY DEF RequestStart
  <1> HIDE DEF b
  <1> DEFINE out == Handle("request_start", s, c)
  <1>4. /\ s.state \in {"Stopped", "Crashed"} => out = Advanced(b, c)
        /\ s.state \in {"Starting", "Running"} => out = Unmoved(s, c)
        /\ s.state \notin {"Stopped", "Crashed", "Starting", "Running"} => out = Refused(s, c)
    BY <1>1, <1>3
  <1> HIDE DEF out
  <1>5. ASSUME s.state \in {"Stopped", "Crashed"}
        PROVE  StartMoves(s, c, out)
    <2>1. out.snapshot = b /\ out.cancelled = c /\ out.result = "advanced"
      BY <1>4, <1>5, OutFacts
    <2> QED
      BY <1>2, <1>5, <2>1 DEF StartMoves, Begins
  <1>6. ASSUME s.state \notin {"Stopped", "Crashed"}
        PROVE  StartMoves(s, c, out)
    <2>1. out.snapshot = s /\ out.cancelled = c /\ out.result # "advanced"
      BY <1>4, <1>6, OutFacts
    <2> QED
      BY <2>1 DEF StartMoves, Stays
  <1>7. StartMoves(s, c, out)
    BY <1>5, <1>6
  <1> QED
    BY <1>7 DEF out

LEMMA RunMovesFacts ==
    ASSUME NEW s \in Snapshot, NEW c \in SUBSET Nat
    PROVE  RunMoves(s, c, Handle("confirm_running", s, c))
  <1> DEFINE no == FALSE
             t == Advance(s, "Running", s.pending_restart, no)
  <1>1. Handle("confirm_running", s, c) = ConfirmRunning(s, c)
    BY DEF Handle
  <1>2. s.pending_restart \in BOOLEAN /\ no \in BOOLEAN /\ "Running" \in State
    BY DEF Snapshot, State
  <1>3. ConfirmRunning(s, c) =
          IF s.state = "Starting" THEN Advanced(t, c)
          ELSE IF s.state = "Running" THEN Unmoved(s, c) ELSE Refused(s, c)
    BY DEF ConfirmRunning
  <1> HIDE DEF no
  <1>4. t \in Snapshot /\ t.state = "Running" /\ t.token_generation = s.token_generation
    BY <1>2, AdvanceFacts
  <1> HIDE DEF t
  <1> QED
    BY <1>1, <1>3, <1>4, OutFacts DEF RunMoves, Turns, Stays

LEMMA StopMovesFacts ==
    ASSUME NEW s \in Snapshot, NEW c \in SUBSET Nat
    PROVE  StopMoves(s, c, Handle("request_stop", s, c))
  <1> DEFINE no == FALSE
             t == Advance(s, "Stopping", no, s.last_error)
  <1>1. Handle("request_stop", s, c) = RequestStop(s, c)
    BY DEF Handle
  <1>2. s.last_error \in BOOLEAN /\ no \in BOOLEAN /\ "Stopping" \in State
    BY DEF Snapshot, State
  <1>3. RequestStop(s, c) =
          IF s.state \in {"Running", "Starting"} THEN Advanced(t, CancelCurrentToken(s, c))
          ELSE Unmoved(s, c)
    BY DEF RequestStop
  <1> HIDE DEF no
  <1>4. t \in Snapshot /\ t.state = "Stopping" /\ t.token_generation = s.token_generation
    BY <1>2, AdvanceFacts
  <1> HIDE DEF t
  <1> QED
    BY <1>1, <1>3, <1>4, OutFacts DEF StopMoves, Cancels, Stays

LEMMA RestartMovesFacts ==
    ASSUME NEW s \in Snapshot, NEW c \in SUBSET Nat
    PROVE  RestartMoves(s, c, Handle("request_restart", s, c))
  <1> DEFINE yes == TRUE
             t == Advance(s, "Stopping", yes, s.last_error)
             p == [s EXCEPT !.pending_restart = yes]
  <1>1. Handle("request_restart", s, c) = RequestRestart(s, c)
    BY DEF Handle
  <1>2. s.last_error \in BOOLEAN /\ yes \in BOOLEAN /\ "Stopping" \in State
    BY DEF Snapshot, State
  <1>3. RequestRestart(s, c) =
          IF s.state \in {"Running", "Starting"} THEN Advanced(t, CancelCurrentToken(s, c))
          ELSE IF s.state \in {"Stopped", "Crashed"} THEN Advanced(BeginRun(s), c)
          ELSE IF s.state = "Stopping" THEN Unmoved(p, c) ELSE Refused(s, c)
    BY DEF RequestRestart
  <1> HIDE DEF yes
  <1>4. t \in Snapshot /\ t.state = "Stopping" /\ t.token_generation = s.token_generation
    BY <1>2, AdvanceFacts
  <1>5. p \in Snapshot /\ p.state = s.state /\ p.token_generation = s.token_generation
    BY <1>2 DEF Snapshot
  <1> HIDE DEF t, p
  <1> QED
    BY <1>1, <1>3, <1>4, <1>5, OutFacts, BeginRunFacts DEF RestartMoves, Begins, Cancels, Stays

LEMMA ConfirmMovesFacts ==
    ASSUME NEW s \in Snapshot, NEW c \in SUBSET Nat
    PROVE  ConfirmMoves(s, c, Handle("confirm_stopped", s, c))
  <1> DEFINE no == FALSE
             t == Advance(s, "Stopped", no, no)
             b == BeginRun(s)
  <1>1. Handle("confirm_stopped", s, c) = ConfirmStopped(s, c)
    BY DEF Handle
  <1>2. no \in BOOLEAN /\ "Stopped" \in State
    BY DEF State
  <1>3. /\ s.state = "Stopping" => ConfirmStopped(s, c) \in {Advanced(b, c), Advanced(t, c)}
        /\ s.state # "Stopping" => ConfirmStopped(s, c) =
              IF s.state = "Stopped" THEN Unmoved(s, c) ELSE Refused(s, c)
    BY DEF ConfirmStopped
  <1> HIDE DEF no
  <1>4. t \in Snapshot /\ t.state = "Stopped" /\ t.token_generation = s.token_generation
    BY <1>2, AdvanceFacts
  <1>5. b \in Snapshot /\ b.state = "Starting" /\ b.token_generation = s.token_generation + 1
    BY BeginRunFacts
  <1> HIDE DEF t, b
  <1>6. CASE s.state = "Stopping"
    BY <1>1, <1>3, <1>4, <1>5, <1>6, OutFacts DEF ConfirmMoves, Begins, Turns
  <1>7. CASE s.state # "Stopping"
    BY <1>1, <1>3, <1>7, OutFacts DEF ConfirmMoves, Stays
  <1> QED
    BY <1>6, <1>7

LEMMA CrashMovesFacts ==
    ASSUME NEW s \in Snapshot, NEW c \in SUBSET Nat
    PROVE  CrashMoves(s, c, Handle("mark_crashed", s, c))
  <1> DEFINE t == Advance(NoteError(s), "Crashed", FALSE, TRUE)
  <1>1. Handle("mark_crashed", s, c) = MarkCrashed(s, c)
    BY DEF Handle
  <1>2. MarkCrashed(s, c) = IF s.state = "Stopped" THEN Refused(s, c)
                            ELSE Advanced(t, CancelCurrentToken(s, c))
    BY DEF MarkCrashed
  <1>3. t \in Snapshot /\ t.state = "Crashed" /\ t.token_generation = s.token_generation
    BY CrashFacts
  <1> HIDE DEF t
  <1> QED
    BY <1>1, <1>2, <1>3, OutFacts DEF CrashMoves, Cancels, Stays

-----------------------------------------------------------------------------
(* What each step does to the operations.                                  *)

\* t's operation goes to another step, or ends; the others stay where they are.
Moves(t, pc, token, seen) ==
    /\ op'[t].kind = op[t].kind /\ op'[t].pc = pc
    /\ op'[t].token = token /\ op'[t].seen = seen
    /\ op' \in [Tasks -> Operation \cup {Resting}]
    /\ \A u \in Tasks : u # t => op'[u] = op[u]
Rests(t) ==
    /\ op'[t] = Resting
    /\ op' \in [Tasks -> Operation \cup {Resting}]
    /\ \A u \in Tasks : u # t => op'[u] = op[u]

Goes(t, pc) == Moves(t, pc, op[t].token, op[t].seen)

LEMMA OpFacts ==
    ASSUME TypeOK, NEW t \in Tasks
    PROVE  /\ op[t].pc \in StartPc \cup StopPc => op[t] \in Operation
           /\ op[t].token \in Nat /\ op[t].seen \in State
           /\ op[t].pc \in StartPc \cup StopPc \cup {"rest"}
           /\ Resting.pc = "rest" /\ Resting.kind = "none" /\ Resting.token = 0
           /\ Resting.seen = "Stopped"
           /\ op[t] = Resting <=> op[t].pc = "rest"
           /\ snapshot \in Snapshot /\ cancelled \in SUBSET Nat
           /\ op \in [Tasks -> Operation \cup {Resting}] /\ Token \in Nat
  <1>1. /\ op[t] \in Operation \cup {Resting} /\ snapshot \in Snapshot
        /\ cancelled \in SUBSET Nat
        /\ op \in [Tasks -> Operation \cup {Resting}] /\ Token \in Nat
    BY DEF TypeOK, Snapshot, Token
  <1>2. /\ Resting.pc = "rest" /\ Resting.kind = "none" /\ Resting.token = 0
        /\ Resting.seen = "Stopped"
    BY DEF Resting
  <1>3. "rest" \notin StartPc \cup StopPc /\ "Stopped" \in State
    BY DEF StartPc, StopPc, State
  <1>4. op[t] \in Operation => /\ op[t].pc \in StartPc \cup StopPc
                               /\ op[t].token \in Nat /\ op[t].seen \in State
    BY DEF Operation
  <1> QED
    BY <1>1, <1>2, <1>3, <1>4

LEMMA MovesFacts ==
    ASSUME TypeOK, NEW t \in Tasks, op[t].pc \in StartPc \cup StopPc,
           NEW pc \in StartPc \cup StopPc, NEW token \in Nat, NEW seen \in State,
           \/ op' = [op EXCEPT ![t].pc = pc, ![t].token = token, ![t].seen = seen]
           \/ op' = [op EXCEPT ![t].pc = pc, ![t].seen = seen, ![t].token = token]
           \/ op' = [op EXCEPT ![t].pc = pc, ![t].token = token] /\ seen = op[t].seen
           \/ Goto(t, pc) /\ token = op[t].token /\ seen = op[t].seen
    PROVE  Moves(t, pc, token, seen)
  <1>1. op[t] \in Operation /\ op \in [Tasks -> Operation \cup {Resting}]
    BY OpFacts
  <1>2. op' = [op EXCEPT ![t] = [kind |-> op[t].kind, pc |-> pc, token |-> token, seen |-> seen]]
    BY <1>1 DEF Goto, Operation
  <1>3. [kind |-> op[t].kind, pc |-> pc, token |-> token, seen |-> seen] \in Operation
    BY <1>1 DEF Operation
  <1> QED
    BY <1>1, <1>2, <1>3 DEF Moves

LEMMA GoesFacts ==
    ASSUME TypeOK, NEW t \in Tasks, op[t].pc \in StartPc \cup StopPc,
           NEW pc \in StartPc \cup StopPc, Goto(t, pc)
    PROVE  Goes(t, pc)
  <1>1. op[t].token \in Nat /\ op[t].seen \in State
    BY OpFacts
  <1> QED
    BY <1>1, MovesFacts DEF Goes

LEMMA RestsFacts ==
    ASSUME TypeOK, NEW t \in Tasks, Return(t)
    PROVE  Rests(t)
  BY OpFacts DEF Return, Rests

\* What the actor does in a step.
ActorStays == /\ snapshot'.state = snapshot.state /\ Token' = Token /\ cancelled' = cancelled
ActorBegins == /\ snapshot'.state = "Starting"
               /\ snapshot.state \in {"Stopped", "Crashed", "Stopping"}
               /\ Token' = Token + 1 /\ cancelled' = cancelled
ActorTurns(from, to) == /\ snapshot.state = from /\ snapshot'.state = to
                        /\ Token' = Token /\ cancelled' = cancelled
ActorCancels(to) == /\ snapshot'.state = to
                    /\ Token' = Token /\ cancelled' = cancelled \cup {Token}

LEMMA StartTold ==
    ASSUME TypeOK, Tell("request_start")
    PROVE  /\ snapshot' \in Snapshot
           /\ \/ /\ ActorBegins /\ snapshot.state \in {"Stopped", "Crashed"}
                 /\ ResultOf("request_start") = "advanced"
              \/ ActorStays /\ ResultOf("request_start") # "advanced"
  <1>1. snapshot \in Snapshot /\ cancelled \in SUBSET Nat
    BY DEF TypeOK
  <1> DEFINE out == Handle("request_start", snapshot, cancelled)
  <1>2. StartMoves(snapshot, cancelled, out)
    BY <1>1, StartMovesFacts
  <1>3. snapshot' = out.snapshot /\ cancelled' = out.cancelled /\ ResultOf("request_start") = out.result
    BY DEF Tell, ResultOf
  <1> HIDE DEF out
  <1> QED
    BY <1>2, <1>3 DEF StartMoves, Begins, Stays, ActorBegins, ActorStays, Token

LEMMA RunTold ==
    ASSUME TypeOK, Tell("confirm_running")
    PROVE  /\ snapshot' \in Snapshot
           /\ \/ /\ ActorTurns("Starting", "Running")
                 /\ ResultOf("confirm_running") = "advanced"
              \/ /\ ActorStays /\ snapshot.state # "Starting"
                 /\ ResultOf("confirm_running") # "advanced"
  <1>1. snapshot \in Snapshot /\ cancelled \in SUBSET Nat
    BY DEF TypeOK
  <1> DEFINE out == Handle("confirm_running", snapshot, cancelled)
  <1>2. RunMoves(snapshot, cancelled, out)
    BY <1>1, RunMovesFacts
  <1>3. /\ snapshot' = out.snapshot /\ cancelled' = out.cancelled
        /\ ResultOf("confirm_running") = out.result
    BY DEF Tell, ResultOf
  <1> HIDE DEF out
  <1> QED
    BY <1>2, <1>3 DEF RunMoves, Turns, Stays, ActorTurns, ActorStays, Token

LEMMA StopTold ==
    ASSUME TypeOK, Tell("request_stop")
    PROVE  /\ snapshot' \in Snapshot
           /\ \/ ActorCancels("Stopping") /\ snapshot.state \in {"Running", "Starting"}
              \/ ActorStays /\ snapshot.state \notin {"Running", "Starting"}
  <1>1. snapshot \in Snapshot /\ cancelled \in SUBSET Nat
    BY DEF TypeOK
  <1> DEFINE out == Handle("request_stop", snapshot, cancelled)
  <1>2. StopMoves(snapshot, cancelled, out)
    BY <1>1, StopMovesFacts
  <1>3. snapshot' = out.snapshot /\ cancelled' = out.cancelled
    BY DEF Tell
  <1> HIDE DEF out
  <1> QED
    BY <1>2, <1>3 DEF StopMoves, Cancels, Stays, ActorCancels, ActorStays, Token

LEMMA RestartTold ==
    ASSUME TypeOK, Tell("request_restart")
    PROVE  /\ snapshot' \in Snapshot
           /\ \/ ActorBegins /\ snapshot.state \in {"Stopped", "Crashed"}
              \/ ActorCancels("Stopping") /\ snapshot.state \in {"Running", "Starting"}
              \/ ActorStays /\ snapshot.state = "Stopping"
              \/ ActorStays /\ ResultOf("request_restart") = "invalid"
  <1>1. snapshot \in Snapshot /\ cancelled \in SUBSET Nat
    BY DEF TypeOK
  <1> DEFINE out == Handle("request_restart", snapshot, cancelled)
  <1>2. RestartMoves(snapshot, cancelled, out)
    BY <1>1, RestartMovesFacts
  <1>3. /\ snapshot' = out.snapshot /\ cancelled' = out.cancelled
        /\ ResultOf("request_restart") = out.result
    BY DEF Tell, ResultOf
  <1> HIDE DEF out
  <1> QED
    BY <1>2, <1>3
    DEF RestartMoves, Begins, Cancels, Stays, ActorBegins, ActorCancels, ActorStays, Token

LEMMA ConfirmTold ==
    ASSUME TypeOK, Tell("confirm_stopped")
    PROVE  /\ snapshot' \in Snapshot
           /\ \/ /\ ActorBegins \/ ActorTurns("Stopping", "Stopped")
                 /\ snapshot.state = "Stopping" /\ ResultOf("confirm_stopped") = "advanced"
              \/ /\ ActorStays /\ snapshot.state = "Stopped"
                 /\ ResultOf("confirm_stopped") = "unchanged"
              \/ /\ ActorStays /\ snapshot.state \notin {"Stopping", "Stopped"}
                 /\ ResultOf("confirm_stopped") = "invalid"
  <1>1. snapshot \in Snapshot /\ cancelled \in SUBSET Nat
    BY DEF TypeOK
  <1> DEFINE out == Handle("confirm_stopped", snapshot, cancelled)
  <1>2. ConfirmMoves(snapshot, cancelled, out)
    BY <1>1, ConfirmMovesFacts
  <1>3. /\ snapshot' = out.snapshot /\ cancelled' = out.cancelled
        /\ ResultOf("confirm_stopped") = out.result
    BY DEF Tell, ResultOf
  <1> HIDE DEF out
  <1> QED
    BY <1>2, <1>3
    DEF ConfirmMoves, Begins, Turns, Stays, ActorBegins, ActorTurns, ActorStays, Token

LEMMA CrashTold ==
    ASSUME TypeOK, Tell("mark_crashed")
    PROVE  /\ snapshot' \in Snapshot
           /\ \/ ActorCancels("Crashed") /\ snapshot.state # "Stopped"
              \/ ActorStays /\ snapshot.state = "Stopped"
  <1>1. snapshot \in Snapshot /\ cancelled \in SUBSET Nat
    BY DEF TypeOK
  <1> DEFINE out == Handle("mark_crashed", snapshot, cancelled)
  <1>2. CrashMoves(snapshot, cancelled, out)
    BY <1>1, CrashMovesFacts
  <1>3. snapshot' = out.snapshot /\ cancelled' = out.cancelled
    BY DEF Tell
  <1> HIDE DEF out
  <1> QED
    BY <1>2, <1>3 DEF CrashMoves, Cancels, Stays, ActorCancels, ActorStays, Token

\* The steps of the start pipeline.
StartEffects(t) ==
    /\ StartRequest(t) =>
          /\ op[t].pc = "start" /\ snapshot' \in Snapshot
          /\ \/ /\ ActorBegins /\ snapshot.state \in {"Stopped", "Crashed"}
                /\ Moves(t, "read_token", Token', op[t].seen)
             \/ ActorStays /\ Rests(t)
    /\ StartRefused(t) => op[t].pc = "start" /\ Rests(t)
    /\ ReadToken(t) => /\ op[t].pc = "read_token" /\ Moves(t, "plan", Token, op[t].seen)
                       /\ op[t].token = Token \/ "other_token" \in faults'
    /\ Plan(t) => op[t].pc = "plan" /\ (Goes(t, "check_cancel") \/ Goes(t, "mark_crashed"))
    /\ CheckCancel(t) =>
          /\ op[t].pc = "check_cancel"
          /\ \/ Rests(t)
             \/ op[t].token \notin cancelled /\ (Goes(t, "spawn") \/ Goes(t, "mark_crashed"))
    /\ Spawn(t) =>
          /\ op[t].pc = "spawn"
          /\ \/ Goes(t, "confirm_running") /\ UNCHANGED deployment
             \/ Goes(t, "start_error") /\ UNCHANGED deployment
             \/ Goes(t, "start_error") /\ Native!LaunchFails(t)
             \/ Goes(t, "insert") /\ \E p \in Pids : Native!LaunchSpawn(t, Bot, p)
    /\ Insert(t) => op[t].pc = "insert" /\ Goes(t, "recheck") /\ Native!LaunchInsert(t)
    /\ Recheck(t) =>
          /\ op[t].pc \in {"recheck", "recheck_again"}
          /\ \/ Goes(t, "mark_crashed") /\ ~Observed
             \/ Goes(t, "recheck_again") /\ Observed
             \/ Goes(t, "confirm_running") /\ Observed
    /\ FinishStart(t) =>
          /\ op[t].pc = "confirm_running" /\ snapshot' \in Snapshot /\ Rests(t)
          /\ \/ /\ ActorTurns("Starting", "Running")
                /\ TokenCancelled(t) => "stale_start" \in faults'
             \/ ActorStays /\ snapshot.state # "Starting"
    /\ StartError(t) => op[t].pc = "start_error" /\ (Rests(t) \/ Goes(t, "mark_crashed"))
    /\ MarkStartCrashed(t) =>
          /\ op[t].pc = "mark_crashed" /\ snapshot' \in Snapshot /\ Rests(t)
          /\ TokenCancelled(t) => "stale_start" \in faults'
          /\ \/ ActorCancels("Crashed") /\ snapshot.state # "Stopped"
             \/ ActorStays /\ snapshot.state = "Stopped"

LEMMA StartStepEffects ==
    ASSUME TypeOK, NEW t \in Tasks PROVE StartEffects(t)
  <1>1. {"start", "read_token", "plan", "check_cancel", "spawn", "insert", "recheck",
         "recheck_again", "confirm_running", "start_error", "mark_crashed"} = StartPc
    BY DEF StartPc
  <1>2. op[t].seen \in State /\ op[t].token \in Nat /\ Token \in Nat
    BY OpFacts
  <1>3. ASSUME StartRequest(t)
        PROVE  /\ op[t].pc = "start" /\ snapshot' \in Snapshot
               /\ \/ /\ ActorBegins /\ snapshot.state \in {"Stopped", "Crashed"}
                     /\ Moves(t, "read_token", Token', op[t].seen)
                  \/ ActorStays /\ Rests(t)
    <2>1. op[t].pc = "start" /\ Tell("request_start")
      BY <1>3 DEF StartRequest, At
    <2>2. CASE ActorBegins /\ snapshot.state \in {"Stopped", "Crashed"}
               /\ ResultOf("request_start") = "advanced"
      <3>1. op' = [op EXCEPT ![t].pc = "read_token", ![t].token = Token']
        BY <1>3, <2>2 DEF StartRequest, BeginOrReturn, Token
      <3>2. Token' \in Nat
        BY <1>2, <2>2 DEF ActorBegins
      <3>3. Moves(t, "read_token", Token', op[t].seen)
        BY <1>1, <1>2, <2>1, <3>1, <3>2, MovesFacts
      <3> QED
        BY <2>1, <2>2, <3>3, StartTold
    <2>3. CASE ActorStays /\ ResultOf("request_start") # "advanced"
      BY <1>3, <2>1, <2>3, StartTold, RestsFacts DEF StartRequest, BeginOrReturn
    <2> QED
      BY <2>1, <2>2, <2>3, StartTold
  <1>4. StartRefused(t) => op[t].pc = "start" /\ Rests(t)
    BY RestsFacts DEF StartRefused, At
  <1>5. ReadToken(t) => /\ op[t].pc = "read_token" /\ Moves(t, "plan", Token, op[t].seen)
                        /\ op[t].token = Token \/ "other_token" \in faults'
    BY <1>1, <1>2, MovesFacts DEF ReadToken, At, Token
  <1>6. Plan(t) => op[t].pc = "plan" /\ (Goes(t, "check_cancel") \/ Goes(t, "mark_crashed"))
    BY <1>1, GoesFacts DEF Plan, At
  <1>7. CheckCancel(t) =>
          /\ op[t].pc = "check_cancel"
          /\ \/ Rests(t)
             \/ op[t].token \notin cancelled /\ (Goes(t, "spawn") \/ Goes(t, "mark_crashed"))
    BY <1>1, GoesFacts, RestsFacts DEF CheckCancel, At, TokenCancelled
  <1>8. Spawn(t) =>
          /\ op[t].pc = "spawn"
          /\ \/ Goes(t, "confirm_running") /\ UNCHANGED deployment
             \/ Goes(t, "start_error") /\ UNCHANGED deployment
             \/ Goes(t, "start_error") /\ Native!LaunchFails(t)
             \/ Goes(t, "insert") /\ \E p \in Pids : Native!LaunchSpawn(t, Bot, p)
    BY <1>1, GoesFacts DEF Spawn, At
  <1>9. Insert(t) => op[t].pc = "insert" /\ Goes(t, "recheck") /\ Native!LaunchInsert(t)
    BY <1>1, GoesFacts DEF Insert, At
  <1>10. Recheck(t) =>
          /\ op[t].pc \in {"recheck", "recheck_again"}
          /\ \/ Goes(t, "mark_crashed") /\ ~Observed
             \/ Goes(t, "recheck_again") /\ Observed
             \/ Goes(t, "confirm_running") /\ Observed
    BY <1>1, GoesFacts DEF Recheck, At
  <1>11. FinishStart(t) =>
          /\ op[t].pc = "confirm_running" /\ snapshot' \in Snapshot /\ Rests(t)
          /\ \/ /\ ActorTurns("Starting", "Running")
                /\ TokenCancelled(t) => "stale_start" \in faults'
             \/ ActorStays /\ snapshot.state # "Starting"
    BY RunTold, RestsFacts DEF FinishStart, At, Stale
  <1>12. StartError(t) => op[t].pc = "start_error" /\ (Rests(t) \/ Goes(t, "mark_crashed"))
    BY <1>1, GoesFacts, RestsFacts DEF StartError, At, GotoOrReturn
  <1>13. MarkStartCrashed(t) =>
          /\ op[t].pc = "mark_crashed" /\ snapshot' \in Snapshot /\ Rests(t)
          /\ TokenCancelled(t) => "stale_start" \in faults'
          /\ \/ ActorCancels("Crashed") /\ snapshot.state # "Stopped"
             \/ ActorStays /\ snapshot.state = "Stopped"
    BY CrashTold, RestsFacts DEF MarkStartCrashed, At, Stale
  <1> QED
    BY <1>3, <1>4, <1>5, <1>6, <1>7, <1>8, <1>9, <1>10, <1>11, <1>12, <1>13 DEF StartEffects

\* The steps of a stop, a restart and a switch.
StopEffects(t) ==
    /\ Look(t) =>
          /\ op[t].pc = "look"
          /\ \/ Rests(t) \/ Goes(t, "request")
             \/ op[t].kind # "switch" /\ (Goes(t, "start") \/ Goes(t, "queue"))
    /\ Request(t) =>
          /\ op[t].pc = "request" /\ snapshot' \in Snapshot
          /\ \/ /\ op[t].kind = "stop" /\ Moves(t, "status", Token', snapshot'.state)
                /\ \/ ActorCancels("Stopping") /\ snapshot.state \in {"Running", "Starting"}
                   \/ ActorStays /\ snapshot.state \notin {"Running", "Starting"}
             \/ /\ op[t].kind # "stop" /\ Moves(t, "backend", Token', op[t].seen)
                /\ \/ ActorBegins /\ snapshot.state \in {"Stopped", "Crashed"}
                   \/ ActorCancels("Stopping") /\ snapshot.state \in {"Running", "Starting"}
                   \/ ActorStays /\ snapshot.state = "Stopping"
             \/ ActorStays /\ Rests(t)
    /\ Queue(t) =>
          /\ op[t].pc = "queue" /\ snapshot' \in Snapshot /\ Rests(t)
          /\ \/ ActorBegins /\ snapshot.state \in {"Stopped", "Crashed"}
             \/ ActorCancels("Stopping") /\ snapshot.state \in {"Running", "Starting"}
             \/ ActorStays
    /\ Status(t) =>
          /\ op[t].pc = "status"
          /\ \/ Goes(t, "backend") /\ Observed
             \/ Goes(t, "confirm") /\ ~Observed /\ op[t].seen = "Stopping"
             \/ Goes(t, "dispose") /\ ~Observed /\ op[t].seen # "Stopping"
    /\ BackendStop(t) =>
          /\ op[t].pc = "backend"
          /\ \/ Goes(t, "await") /\ Native!StopMark(t, Bot)
             \/ Goes(t, AfterBackendStop(t)) /\ Native!StopNothing(t, Bot)
    /\ BackendKills(t) =>
          /\ op[t].pc = "await" /\ op' = op
          /\ \/ Native!StopKill(t)
             \/ Native!StopKillFails(t) /\ "kill_failed" \in faults'
    /\ BackendStopped(t) =>
          /\ op[t].pc = "await" /\ Native!StopSettle(t)
          /\ \/ Goes(t, AfterBackendStop(t)) /\ call[t].result = "ok"
             \/ Goes(t, "stop_failed") /\ call[t].result # "ok" /\ op[t].kind = "stop"
             \/ Rests(t) /\ call[t].result # "ok" /\ op[t].kind # "stop"
    /\ StopFailed(t) =>
          /\ op[t].pc = "stop_failed" /\ snapshot' \in Snapshot /\ Rests(t)
          /\ \/ ActorCancels("Crashed") /\ snapshot.state # "Stopped"
             \/ ActorStays /\ snapshot.state = "Stopped"
    /\ Confirm(t) =>
          /\ op[t].pc = "confirm" /\ snapshot' \in Snapshot
          /\ \/ /\ ActorBegins \/ ActorTurns("Stopping", "Stopped")
                /\ snapshot.state = "Stopping"
                /\ op[t].token # Token => "late_confirm" \in faults'
                /\ \/ op[t].kind = "stop" /\ Moves(t, "dispose", Token', snapshot'.state)
                   \/ op[t].kind = "restart" /\ Moves(t, "after", Token', op[t].seen)
                   \/ op[t].kind = "switch" /\ Goes(t, "start")
             \/ /\ ActorStays /\ snapshot.state = "Stopped" /\ snapshot'.state = "Stopped"
                /\ op[t].kind = "stop" /\ Moves(t, "dispose", Token', snapshot'.state)
             \/ /\ ActorStays /\ op[t].kind = "stop" /\ Rests(t)
                /\ "stop_refused" \in faults'
             \/ /\ ActorStays
                /\ \/ op[t].kind = "restart" /\ Moves(t, "after", Token', op[t].seen)
                   \/ op[t].kind = "switch" /\ Goes(t, "start")
    /\ DisposePoller(t) => op[t].pc = "dispose" /\ Goes(t, "endpoint")
    /\ DisposeEndpoint(t) =>
          /\ op[t].pc = "endpoint"
          /\ \/ op[t].kind = "restart" /\ Goes(t, "confirm")
             \/ op[t].kind # "restart" /\ Goes(t, "after")
    /\ After(t) =>
          /\ op[t].pc = "after"
          /\ \/ Rests(t)
             \/ /\ Goes(t, "read_token")
                /\ IF op[t].kind = "stop" THEN op[t].seen = "Starting"
                   ELSE snapshot.state = "Starting"

LEMMA StopStepEffects ==
    ASSUME TypeOK, NEW t \in Tasks, KindIsRight(t) PROVE StopEffects(t)
  <1>1. /\ {"look", "request", "queue", "status", "backend", "await", "stop_failed", "confirm",
            "dispose", "endpoint", "after"} = StopPc
        /\ {"start", "read_token"} \subseteq StartPc
    BY DEF StartPc, StopPc
  <1>2. op[t].seen \in State /\ op[t].token \in Nat /\ Token \in Nat
    BY OpFacts
  <1>3. Look(t) =>
          /\ op[t].pc = "look"
          /\ \/ Rests(t) \/ Goes(t, "request")
             \/ op[t].kind # "switch" /\ (Goes(t, "start") \/ Goes(t, "queue"))
    BY <1>1, GoesFacts, RestsFacts DEF Look, At, GotoOrReturn
  <1>4. ASSUME Request(t)
        PROVE  /\ op[t].pc = "request" /\ snapshot' \in Snapshot
               /\ \/ /\ op[t].kind = "stop" /\ Moves(t, "status", Token', snapshot'.state)
                     /\ \/ ActorCancels("Stopping") /\ snapshot.state \in {"Running", "Starting"}
                        \/ ActorStays /\ snapshot.state \notin {"Running", "Starting"}
                  \/ /\ op[t].kind # "stop" /\ Moves(t, "backend", Token', op[t].seen)
                     /\ \/ ActorBegins /\ snapshot.state \in {"Stopped", "Crashed"}
                        \/ ActorCancels("Stopping") /\ snapshot.state \in {"Running", "Starting"}
                        \/ ActorStays /\ snapshot.state = "Stopping"
                  \/ ActorStays /\ Rests(t)
    <2>1. op[t].pc = "request"
      BY <1>4 DEF Request, At
    <2>2. snapshot' \in Snapshot => Token' \in Nat /\ snapshot'.state \in State
      BY DEF Snapshot, Token
    <2>3. CASE op[t].kind = "stop"
      <3>1. /\ Tell("request_stop")
            /\ op' = [op EXCEPT ![t].pc = "status", ![t].seen = snapshot'.state,
                                ![t].token = Token']
        BY <1>4, <2>3 DEF Request, Token
      <3>2. Moves(t, "status", Token', snapshot'.state)
        BY <1>1, <2>1, <2>2, <3>1, StopTold, MovesFacts
      <3> QED
        BY <2>1, <2>3, <3>1, <3>2, StopTold
    <2>4. CASE op[t].kind # "stop"
      <3>1. Tell("request_restart")
        BY <1>4, <2>4 DEF Request
      <3>2. CASE ResultOf("request_restart") # "invalid"
        <4>1. op' = [op EXCEPT ![t].pc = "backend", ![t].token = Token']
          BY <1>4, <2>4, <3>2 DEF Request, Token
        <4>2. Moves(t, "backend", Token', op[t].seen)
          BY <1>1, <1>2, <2>1, <2>2, <3>1, <4>1, RestartTold, MovesFacts
        <4> QED
          BY <2>1, <2>4, <3>1, <3>2, <4>2, RestartTold
      <3>3. CASE ResultOf("request_restart") = "invalid"
        <4>1. Rests(t)
          BY <1>4, <2>4, <3>3, RestsFacts DEF Request
        <4>2. ActorStays
          <5>1. snapshot.state \notin {"Stopped", "Crashed", "Running", "Starting"} \/ ActorStays
            <6>1. snapshot \in Snapshot /\ cancelled \in SUBSET Nat
              BY DEF TypeOK
            <6>2. RestartMoves(snapshot, cancelled, Handle("request_restart", snapshot, cancelled))
              BY <6>1, RestartMovesFacts
            <6> QED
              BY <3>3, <6>2 DEF RestartMoves, Begins, Cancels, ResultOf
          <5> QED
            BY <3>1, <5>1, RestartTold
        <4> QED
          BY <2>1, <3>1, <4>1, <4>2, RestartTold
      <3> QED
        BY <3>2, <3>3
    <2> QED
      BY <2>3, <2>4
  <1>5. Queue(t) =>
          /\ op[t].pc = "queue" /\ snapshot' \in Snapshot /\ Rests(t)
          /\ \/ ActorBegins /\ snapshot.state \in {"Stopped", "Crashed"}
             \/ ActorCancels("Stopping") /\ snapshot.state \in {"Running", "Starting"}
             \/ ActorStays
    BY RestartTold, RestsFacts DEF Queue, At
  <1>6. Status(t) =>
          /\ op[t].pc = "status"
          /\ \/ Goes(t, "backend") /\ Observed
             \/ Goes(t, "confirm") /\ ~Observed /\ op[t].seen = "Stopping"
             \/ Goes(t, "dispose") /\ ~Observed /\ op[t].seen # "Stopping"
    BY <1>1, GoesFacts DEF Status, At
  <1>7. BackendStop(t) =>
          /\ op[t].pc = "backend"
          /\ \/ Goes(t, "await") /\ Native!StopMark(t, Bot)
             \/ Goes(t, AfterBackendStop(t)) /\ Native!StopNothing(t, Bot)
    BY <1>1, GoesFacts DEF BackendStop, At, AfterBackendStop
  <1>8. BackendKills(t) =>
          /\ op[t].pc = "await" /\ op' = op
          /\ \/ Native!StopKill(t)
             \/ Native!StopKillFails(t) /\ "kill_failed" \in faults'
    BY DEF BackendKills, At
  <1>9. ASSUME BackendStopped(t)
        PROVE  /\ op[t].pc = "await" /\ Native!StopSettle(t)
               /\ \/ Goes(t, AfterBackendStop(t)) /\ call[t].result = "ok"
                  \/ Goes(t, "stop_failed") /\ call[t].result # "ok" /\ op[t].kind = "stop"
                  \/ Rests(t) /\ call[t].result # "ok" /\ op[t].kind # "stop"
    <2>1. op[t].pc = "await" /\ Native!StopSettle(t)
      BY <1>9 DEF BackendStopped, At
    <2>2. CASE call[t].result = "ok"
      <3>1. Goto(t, AfterBackendStop(t))
        BY <1>9, <2>2 DEF BackendStopped
      <3> QED
        BY <1>1, <2>1, <2>2, <3>1, GoesFacts DEF AfterBackendStop
    <2>3. CASE call[t].result # "ok"
      <3>1. GotoOrReturn(t, op[t].kind = "stop", "stop_failed")
        BY <1>9, <2>3 DEF BackendStopped
      <3> QED
        BY <1>1, <2>1, <2>3, <3>1, GoesFacts, RestsFacts DEF GotoOrReturn
    <2> QED
      BY <2>2, <2>3
  <1>10. StopFailed(t) =>
          /\ op[t].pc = "stop_failed" /\ snapshot' \in Snapshot /\ Rests(t)
          /\ \/ ActorCancels("Crashed") /\ snapshot.state # "Stopped"
             \/ ActorStays /\ snapshot.state = "Stopped"
    BY CrashTold, RestsFacts DEF StopFailed, At
  <1>11. ASSUME Confirm(t)
         PROVE
          /\ op[t].pc = "confirm" /\ snapshot' \in Snapshot
          /\ \/ /\ ActorBegins \/ ActorTurns("Stopping", "Stopped")
                /\ snapshot.state = "Stopping"
                /\ op[t].token # Token => "late_confirm" \in faults'
                /\ \/ op[t].kind = "stop" /\ Moves(t, "dispose", Token', snapshot'.state)
                   \/ op[t].kind = "restart" /\ Moves(t, "after", Token', op[t].seen)
                   \/ op[t].kind = "switch" /\ Goes(t, "start")
             \/ /\ ActorStays /\ snapshot.state = "Stopped" /\ snapshot'.state = "Stopped"
                /\ op[t].kind = "stop" /\ Moves(t, "dispose", Token', snapshot'.state)
             \/ /\ ActorStays /\ op[t].kind = "stop" /\ Rests(t)
                /\ "stop_refused" \in faults'
             \/ /\ ActorStays
                /\ \/ op[t].kind = "restart" /\ Moves(t, "after", Token', op[t].seen)
                   \/ op[t].kind = "switch" /\ Goes(t, "start")
    <2>1. op[t].pc = "confirm" /\ Tell("confirm_stopped")
      BY <1>11 DEF Confirm, At
    <2>2. op[t].kind \in {"stop", "restart", "switch"}
      BY <1>1, <2>1 DEF KindIsRight
    <2>3. snapshot' \in Snapshot /\ Token' \in Nat /\ snapshot'.state \in State
      BY <2>1, ConfirmTold DEF Snapshot, Token
    <2>4. ResultOf("confirm_stopped") = "advanced" /\ op[t].token # Token => "late_confirm" \in faults'
      BY <1>11 DEF Confirm, Token
    <2>5. CASE op[t].kind = "stop" /\ ResultOf("confirm_stopped") # "invalid"
      <3>1. op' = [op EXCEPT ![t].pc = "dispose", ![t].seen = snapshot'.state, ![t].token = Token']
        BY <1>11, <2>5 DEF Confirm, Token
      <3>2. Moves(t, "dispose", Token', snapshot'.state)
        BY <1>1, <2>1, <2>3, <3>1, MovesFacts
      <3> QED
        BY <2>1, <2>3, <2>4, <2>5, <3>2, ConfirmTold DEF ActorStays
    <2>6. CASE op[t].kind = "stop" /\ ResultOf("confirm_stopped") = "invalid"
      <3>1. Return(t) /\ "stop_refused" \in faults'
        BY <1>11, <2>6 DEF Confirm
      <3>2. Rests(t)
        BY <3>1, RestsFacts
      <3> QED
        BY <2>1, <2>3, <2>6, <3>1, <3>2, ConfirmTold
    <2>7. CASE op[t].kind = "restart"
      <3>1. op' = [op EXCEPT ![t].pc = "after", ![t].token = Token']
        BY <1>11, <2>7 DEF Confirm, Token
      <3>2. Moves(t, "after", Token', op[t].seen)
        BY <1>1, <1>2, <2>1, <2>3, <3>1, MovesFacts
      <3> QED
        BY <2>1, <2>3, <2>4, <2>7, <3>2, ConfirmTold
    <2>8. CASE op[t].kind = "switch"
      <3>1. Goto(t, "start")
        BY <1>11, <2>8 DEF Confirm
      <3>2. Goes(t, "start")
        BY <1>1, <2>1, <3>1, GoesFacts
      <3> QED
        BY <2>1, <2>3, <2>4, <2>8, <3>2, ConfirmTold
    <2> QED
      BY <2>2, <2>5, <2>6, <2>7, <2>8
  <1>12. DisposePoller(t) => op[t].pc = "dispose" /\ Goes(t, "endpoint")
    BY <1>1, GoesFacts DEF DisposePoller, At
  <1>13. DisposeEndpoint(t) =>
          /\ op[t].pc = "endpoint"
          /\ \/ op[t].kind = "restart" /\ Goes(t, "confirm")
             \/ op[t].kind # "restart" /\ Goes(t, "after")
    BY <1>1, GoesFacts DEF DisposeEndpoint, At
  <1>14. ASSUME After(t)
         PROVE  /\ op[t].pc = "after"
                /\ \/ Rests(t)
                   \/ /\ Goes(t, "read_token")
                      /\ IF op[t].kind = "stop" THEN op[t].seen = "Starting"
                         ELSE snapshot.state = "Starting"
    <2> DEFINE state == IF op[t].kind = "stop" THEN op[t].seen ELSE snapshot.state
    <2>1. op[t].pc = "after" /\ GotoOrReturn(t, state = "Starting", "read_token")
      BY <1>14 DEF After, At
    <2>2. CASE state = "Starting"
      BY <1>1, <2>1, <2>2, GoesFacts DEF GotoOrReturn
    <2>3. CASE state # "Starting"
      BY <2>1, <2>3, RestsFacts DEF GotoOrReturn
    <2> QED
      BY <2>2, <2>3
  <1> QED
    BY <1>3, <1>4, <1>5, <1>6, <1>7, <1>8, <1>9, <1>10, <1>11, <1>12, <1>13, <1>14
    DEF StopEffects

-----------------------------------------------------------------------------
(* Frames and types.                                                       *)

\* What no step undoes, and what the steps of a task leave alone.
LEMMA FaultsGrow ==
    ASSUME TypeOK, [Next]_vars PROVE faults \subseteq faults' /\ faults' \subseteq Fault
  <1> USE DEF TypeOK, Fault
  <1>1. ASSUME NEW t \in Tasks, NEW kind \in Operations, Call(t, kind)
        PROVE  faults \subseteq faults' /\ faults' \subseteq Fault
    BY <1>1 DEF Call
  <1>2. ASSUME NEW t \in Tasks, StartStep(t)
        PROVE  faults \subseteq faults' /\ faults' \subseteq Fault
    BY <1>2 DEF StartStep, StartRequest, StartRefused, ReadToken, Plan, CheckCancel, Spawn,
                Insert, Recheck, FinishStart, StartError, MarkStartCrashed, Stranded, Stale
  <1>3. ASSUME NEW t \in Tasks, StopStep(t)
        PROVE  faults \subseteq faults' /\ faults' \subseteq Fault
    BY <1>3 DEF StopStep, Look, Request, Queue, Status, BackendStop, BackendKills,
                BackendStopped, StopFailed, Confirm, DisposePoller, DisposeEndpoint, After
  <1>4. ASSUME NEW g \in Generation, ProcessExits(g) \/ PublishWebui(g) \/ WatcherStep(g)
        PROVE  faults \subseteq faults' /\ faults' \subseteq Fault
    BY <1>4 DEF ProcessExits, PublishWebui, WatcherStep, WatcherSeesExit, PublishExit
  <1>5. ASSUME ListenerStep \/ LoginStep
        PROVE  faults \subseteq faults' /\ faults' \subseteq Fault
    BY <1>5 DEF ListenerStep, ListenerTakes, ListenerTells, LateWebui,
                LoginStep, LoginTakesWebui, LoginSpawnsPoller, LoginTakesExit
  <1>6. CASE UNCHANGED vars
    BY <1>6 DEF vars
  <1> QED
    BY <1>1, <1>2, <1>3, <1>4, <1>5, <1>6 DEF Next, TaskStep

LEMMA TaskFrame ==
    ASSUME TypeOK, NEW t \in Tasks, TaskStep(t)
    PROVE  UNCHANGED <<boxes, listener, loginTask, issued>>
           /\ poller' \in {0, poller} /\ endpoint' \in {0, endpoint}
  <1> USE DEF login
  <1>1. CASE StartStep(t)
    BY <1>1 DEF StartStep, StartRequest, StartRefused, ReadToken, Plan, CheckCancel, Spawn,
                Insert, Recheck, FinishStart, StartError, MarkStartCrashed
  <1>2. CASE StopStep(t)
    BY <1>2 DEF StopStep, Look, Request, Queue, Status, BackendStop, BackendKills,
                BackendStopped, StopFailed, Confirm, DisposePoller, DisposeEndpoint, After
  <1> QED
    BY <1>1, <1>2 DEF TaskStep

\* The task steps that talk to the actor, and those that do not.
LEMMA ActorFrame ==
    ASSUME NEW t \in Tasks,
           \/ StartRefused(t) \/ ReadToken(t) \/ Plan(t) \/ CheckCancel(t) \/ Spawn(t)
           \/ Insert(t) \/ Recheck(t) \/ StartError(t) \/ Look(t) \/ Status(t)
           \/ BackendStop(t) \/ BackendKills(t) \/ BackendStopped(t) \/ DisposePoller(t)
           \/ DisposeEndpoint(t) \/ After(t)
    PROVE  UNCHANGED actor
  BY DEF StartRefused, ReadToken, Plan, CheckCancel, Spawn, Insert, Recheck, StartError, Look,
         Status, BackendStop, BackendKills, BackendStopped, DisposePoller, DisposeEndpoint, After

LEMMA DeploymentFrame ==
    ASSUME NEW t \in Tasks,
           \/ StartRequest(t) \/ StartRefused(t) \/ ReadToken(t) \/ Plan(t) \/ CheckCancel(t)
           \/ Recheck(t) \/ FinishStart(t) \/ StartError(t) \/ MarkStartCrashed(t) \/ Look(t)
           \/ Request(t) \/ Queue(t) \/ Status(t) \/ StopFailed(t) \/ Confirm(t)
           \/ DisposePoller(t) \/ DisposeEndpoint(t) \/ After(t)
    PROVE  UNCHANGED deployment
  BY DEF StartRequest, StartRefused, ReadToken, Plan, CheckCancel, Recheck, FinishStart,
         StartError, MarkStartCrashed, Look, Request, Queue, Status, StopFailed, Confirm,
         DisposePoller, DisposeEndpoint, After

\* A command moves the actor in one of these ways.
ActorMoves ==
    \/ ActorStays \/ ActorBegins
    \/ ActorTurns("Starting", "Running") \/ ActorTurns("Stopping", "Stopped")
    \/ ActorCancels("Stopping") /\ snapshot.state \in {"Running", "Starting"}
    \/ ActorCancels("Crashed") /\ snapshot.state # "Stopped"

LEMMA ActorStep ==
    ASSUME TypeOK, OpsAreInStep, [Next]_vars
    PROVE  snapshot' \in Snapshot /\ ActorMoves
  <1> USE DEF ActorMoves
  <1>1. UNCHANGED actor => snapshot' \in Snapshot /\ ActorMoves
    BY DEF actor, ActorStays, Token, TypeOK
  <1>2. ASSUME NEW t \in Tasks, NEW kind \in Operations, Call(t, kind) PROVE UNCHANGED actor
    BY <1>2 DEF Call
  <1>3. ASSUME NEW t \in Tasks, StartStep(t) PROVE snapshot' \in Snapshot /\ ActorMoves
    BY <1>1, <1>3, StartStepEffects, ActorFrame DEF StartStep, StartEffects
  <1>4. ASSUME NEW t \in Tasks, StopStep(t) PROVE snapshot' \in Snapshot /\ ActorMoves
    BY <1>1, <1>4, StopStepEffects, ActorFrame DEF StopStep, StopEffects, OpsAreInStep
  <1>5. ASSUME NEW g \in Generation, ProcessExits(g) \/ PublishWebui(g) \/ WatcherStep(g)
        PROVE  UNCHANGED actor
    BY <1>5 DEF ProcessExits, PublishWebui, WatcherStep, WatcherSeesExit, PublishExit
  <1>6. CASE ListenerTells
    <2>1. listener.tells \in {"confirm_stopped", "mark_crashed"} /\ Tell(listener.tells)
      BY <1>6 DEF TypeOK, ListenerTells
    <2>2. Tell("confirm_stopped") \/ Tell("mark_crashed")
      BY <2>1
    <2> QED
      BY <2>2, ConfirmTold, CrashTold
  <1>7. CASE ListenerTakes \/ LoginStep
    BY <1>1, <1>7 DEF ListenerTakes, LoginStep, LoginTakesWebui, LoginSpawnsPoller,
                      LoginTakesExit
  <1>8. CASE UNCHANGED vars
    BY <1>1, <1>8 DEF vars
  <1> QED
    BY <1>1, <1>2, <1>3, <1>4, <1>5, <1>6, <1>7, <1>8 DEF Next, TaskStep, ListenerStep

LEMMA OpTypes ==
    ASSUME TypeOK, OpsAreInStep, [Next]_vars
    PROVE  op' \in [Tasks -> Operation \cup {Resting}] /\ issued' \in 0 .. MaxOps
  <1> DEFINE Goal == op' \in [Tasks -> Operation \cup {Resting}] /\ issued' \in 0 .. MaxOps
  <1> USE DEF TypeOK
  <1>1. ASSUME NEW t \in Tasks, NEW kind \in Operations, Call(t, kind) PROVE Goal
    <2>1. PICK pc \in {"start", "request", "look"} :
            op' = [op EXCEPT ![t] = [kind |-> kind, token |-> 0, seen |-> "Stopped", pc |-> pc]]
      BY <1>1 DEF Call
    <2>2. [kind |-> kind, token |-> 0, seen |-> "Stopped", pc |-> pc] \in Operation
      BY DEF Operation, StartPc, StopPc, State
    <2>3. issued' \in 0 .. MaxOps
      BY <1>1, OpsAssumption DEF Call
    <2> QED
      BY <2>1, <2>2, <2>3
  <1>2. ASSUME NEW t \in Tasks, StartStep(t) PROVE Goal
    <2>1. issued' = issued
      BY <1>2, TaskFrame DEF TaskStep
    <2> QED
      BY <1>2, <2>1, StartStepEffects DEF StartStep, StartEffects, Goes, Moves, Rests
  <1>3. ASSUME NEW t \in Tasks, StopStep(t) PROVE Goal
    <2>1. issued' = issued
      BY <1>3, TaskFrame DEF TaskStep
    <2> QED
      BY <1>3, <2>1, StopStepEffects DEF StopStep, StopEffects, Goes, Moves, Rests, OpsAreInStep
  <1>4. ASSUME NEW g \in Generation, ProcessExits(g) \/ PublishWebui(g) \/ WatcherStep(g)
        PROVE  Goal
    BY <1>4 DEF ProcessExits, PublishWebui, WatcherStep, WatcherSeesExit, PublishExit
  <1>5. CASE ListenerStep \/ LoginStep
    BY <1>5 DEF ListenerStep, ListenerTakes, ListenerTells, LoginStep, LoginTakesWebui,
                LoginSpawnsPoller, LoginTakesExit
  <1>6. CASE UNCHANGED vars
    BY <1>6 DEF vars
  <1> QED
    BY <1>1, <1>2, <1>3, <1>4, <1>5, <1>6 DEF Next, TaskStep

LEMMA BoxTypes ==
    ASSUME TypeOK, [Next]_vars
    PROVE  /\ \A box \in {exitBox, loginExitBox, webuiBox}' : box \in Seq(Generation)
           /\ listener' \in {Receiving} \cup
                            [tells : {"confirm_stopped", "mark_crashed"}, gen : Generation]
           /\ {loginTask, poller, endpoint}' \subseteq Generation \cup {0}
  <1> DEFINE Boxes == /\ exitBox' \in Seq(Generation) /\ loginExitBox' \in Seq(Generation)
                      /\ webuiBox' \in Seq(Generation)
             Listens == listener' \in {Receiving} \cup
                            [tells : {"confirm_stopped", "mark_crashed"}, gen : Generation]
             Logs == {loginTask', poller', endpoint'} \subseteq Generation \cup {0}
             Goal == Boxes /\ Listens /\ Logs
  <1>1. /\ exitBox \in Seq(Generation) /\ loginExitBox \in Seq(Generation)
        /\ webuiBox \in Seq(Generation)
        /\ listener \in {Receiving} \cup
                        [tells : {"confirm_stopped", "mark_crashed"}, gen : Generation]
        /\ loginTask \in Generation \cup {0} /\ poller \in Generation \cup {0}
        /\ endpoint \in Generation \cup {0}
    BY DEF TypeOK
  <1>2. ASSUME NEW t \in Tasks, NEW kind \in Operations, Call(t, kind) PROVE Goal
    BY <1>1, <1>2 DEF Call, boxes, login
  <1>3. ASSUME NEW t \in Tasks, TaskStep(t) PROVE Goal
    BY <1>1, <1>3, TaskFrame DEF boxes
  <1>4. ASSUME NEW g \in Generation, ProcessExits(g) \/ PublishWebui(g) \/ WatcherStep(g)
        PROVE  Goal
    <2>1. ASSUME ProcessExits(g) \/ WatcherSeesExit(g) PROVE Goal
      BY <1>1, <2>1 DEF ProcessExits, WatcherSeesExit, boxes, login
    <2>2. ASSUME PublishExit(g) PROVE Goal
      <3>1. /\ Append(exitBox, g) \in Seq(Generation) /\ <<>> \in Seq(Generation)
            /\ Append(loginExitBox, g) \in Seq(Generation)
        BY <1>1
      <3>2. Boxes
        BY <1>1, <2>2, <3>1 DEF PublishExit
      <3> QED
        BY <1>1, <2>2, <3>2 DEF PublishExit, login
    <2>3. ASSUME PublishWebui(g) PROVE Goal
      BY <1>1, <2>3 DEF PublishWebui, login
    <2> QED
      BY <1>4, <2>1, <2>2, <2>3 DEF WatcherStep
  <1>5. CASE ListenerTakes
    <2>1. exitBox # <<>> => Head(exitBox) \in Generation /\ Tail(exitBox) \in Seq(Generation)
      BY <1>1
    <2>2. Boxes /\ Logs
      BY <1>1, <1>5, <2>1 DEF ListenerTakes, login
    <2>3. Listens
      BY <1>5, <2>1 DEF ListenerTakes, Verdict
    <2> QED
      BY <2>2, <2>3
  <1>6. CASE ListenerTells
    BY <1>1, <1>6 DEF ListenerTells, boxes, login
  <1>7. CASE LoginStep
    <2>1. webuiBox # <<>> => Head(webuiBox) \in Generation /\ Tail(webuiBox) \in Seq(Generation)
      BY <1>1
    <2>2. loginExitBox # <<>> => Tail(loginExitBox) \in Seq(Generation)
      BY <1>1
    <2>3. ASSUME LoginTakesWebui PROVE Goal
      BY <1>1, <2>1, <2>3 DEF LoginTakesWebui
    <2>4. ASSUME LoginSpawnsPoller PROVE Goal
      BY <1>1, <2>4 DEF LoginSpawnsPoller, boxes
    <2>5. ASSUME LoginTakesExit PROVE Goal
      BY <1>1, <2>2, <2>5 DEF LoginTakesExit
    <2> QED
      BY <1>7, <2>3, <2>4, <2>5 DEF LoginStep
  <1>8. CASE UNCHANGED vars
    BY <1>1, <1>8 DEF vars, boxes, login
  <1>9. Goal
    BY <1>2, <1>3, <1>4, <1>5, <1>6, <1>7, <1>8 DEF Next, ListenerStep
  <1> QED
    BY <1>9

LEMMA NextTypeOK ==
    ASSUME TypeOK, Table!IInv, OpsAreInStep, [Next]_vars PROVE TypeOK'
  <1>1. Native!TypeOK'
    <2>1. Table!TypeOK'
      BY NextTable DEF Table!IInv
    <2>2. (Native!TypeOK <=> Table!TypeOK)'
      BY SameTypes, PTL
    <2> QED
      BY <2>1, <2>2
  <1>2. snapshot' \in Snapshot /\ ActorMoves
    BY ActorStep
  <1>3. cancelled' \subseteq Nat
    <2>1. cancelled \subseteq Nat /\ Token \in Nat
      BY DEF TypeOK, Token, Snapshot
    <2>2. cancelled' \in {cancelled, cancelled \cup {Token}}
      BY <1>2 DEF ActorMoves, ActorStays, ActorBegins, ActorTurns, ActorCancels
    <2> QED
      BY <2>1, <2>2
  <1> QED
    BY <1>1, <1>2, <1>3, OpTypes, BoxTypes, FaultsGrow DEF TypeOK

-----------------------------------------------------------------------------
(* Tokens, kinds and restarts.                                             *)

LEMMA NextTokensAreOrdered ==
    ASSUME TypeOK, TokensAreOrdered, snapshot' \in Snapshot, ActorMoves
    PROVE  TokensAreOrdered'
  <1>1. Token \in Nat /\ cancelled \subseteq Nat
    BY DEF TypeOK, Token, Snapshot
  <1>2. \/ Token' = Token /\ cancelled' \in {cancelled, cancelled \cup {Token}}
        \/ Token' = Token + 1 /\ cancelled' = cancelled
    BY DEF ActorMoves, ActorStays, ActorBegins, ActorTurns, ActorCancels
  <1>3. cancelled' # cancelled => Token # 0
    BY DEF ActorMoves, ActorStays, ActorBegins, ActorTurns, ActorCancels, TokensAreOrdered
  <1>4. cancelled' \subseteq 1 .. Token'
    <2>1. \A k \in cancelled : k \in Nat /\ 1 <= k /\ k <= Token
      BY <1>1 DEF TokensAreOrdered
    <2>2. ASSUME NEW k \in cancelled' PROVE k \in Nat /\ 1 <= k /\ k <= Token'
      <3>1. k \in cancelled \/ (k = Token /\ Token # 0 /\ Token' = Token)
        BY <1>2, <1>3
      <3>2. Token' = Token \/ Token' = Token + 1
        BY <1>2
      <3>3. CASE k \in cancelled
        BY <1>1, <2>1, <3>2, <3>3
      <3>4. CASE k = Token /\ Token # 0
        BY <1>1, <3>2, <3>4
      <3> QED
        BY <3>1, <3>3, <3>4
    <2>3. Token' \in Nat
      BY <1>1, <1>2
    <2> QED
      BY <2>2, <2>3
  <1>5. \A k \in 1 .. Token' - 1 : k \in cancelled'
    <2>1. Token' = Token + 1 => Token = 0 \/ Token \in cancelled
      BY <1>1 DEF ActorMoves, ActorStays, ActorBegins, ActorTurns, ActorCancels, TokensAreOrdered
    <2> QED
      BY <1>1, <1>2, <2>1 DEF TokensAreOrdered
  <1>6. snapshot'.state \notin {"Starting", "Running"} => Token' = 0 \/ Token' \in cancelled'
    BY <1>1 DEF ActorMoves, ActorStays, ActorBegins, ActorTurns, ActorCancels, TokensAreOrdered
  <1>7. snapshot'.state # "Stopped" => Token' # 0
    BY <1>1 DEF ActorMoves, ActorStays, ActorBegins, ActorTurns, ActorCancels, TokensAreOrdered
  <1> QED
    BY <1>4, <1>5, <1>6, <1>7 DEF TokensAreOrdered, Token

\* Tokens and cancellations only grow.
Grows == /\ Token \in Nat /\ Token' \in Nat /\ Token <= Token'
         /\ cancelled \subseteq cancelled' /\ faults \subseteq faults'
         /\ cancelled' \subseteq cancelled \cup {Token}

LEMMA GrowsStep ==
    ASSUME TypeOK, OpsAreInStep, [Next]_vars PROVE Grows
  <1>1. Token \in Nat
    BY DEF TypeOK, Token, Snapshot
  <1>2. faults \subseteq faults'
    BY FaultsGrow
  <1>3. Token' \in {Token, Token + 1} /\ cancelled' \in {cancelled, cancelled \cup {Token}}
    BY <1>1, ActorStep
    DEF ActorMoves, ActorStays, ActorBegins, ActorTurns, ActorCancels
  <1> QED
    BY <1>1, <1>2, <1>3 DEF Grows

\* The other tasks' operations and calls.
Others(t) == \A u \in Tasks : u # t => op'[u] = op[u] /\ call'[u] = call[u]

LEMMA OthersStay ==
    ASSUME TypeOK, Table!IInv, NEW t \in Tasks, OpsAreInStep, TaskStep(t)
    PROVE  Others(t)
  <1>1. \A u \in Tasks : u # t => call'[u] = call[u]
    <2>1. DOMAIN call = Tasks
      BY TypeFacts DEF TableTypes
    <2>2. UNCHANGED deployment => call' = call
      BY DEF deployment
    <2>3. CASE StartStep(t)
      BY <2>1, <2>2, <2>3, DeploymentFrame, StartStepEffects
      DEF StartStep, StartEffects, Native!LaunchFails, Native!LaunchSpawn, Native!LaunchInsert
    <2>4. CASE StopStep(t)
      BY <2>1, <2>2, <2>4, DeploymentFrame, StopStepEffects
      DEF StopStep, StopEffects, OpsAreInStep, Native!StopMark, Native!StopNothing,
          Native!StopKill, Native!StopKillFails, Native!StopSettle
    <2> QED
      BY <2>3, <2>4 DEF TaskStep
  <1>2. \A u \in Tasks : u # t => op'[u] = op[u]
    <2>1. CASE StartStep(t)
      BY <2>1, StartStepEffects DEF StartStep, StartEffects, Goes, Moves, Rests
    <2>2. CASE StopStep(t)
      BY <2>2, StopStepEffects DEF StopStep, StopEffects, OpsAreInStep, Goes, Moves, Rests
    <2> QED
      BY <2>1, <2>2 DEF TaskStep
  <1> QED
    BY <1>1, <1>2 DEF Others

LEMMA EnvironmentStays ==
    ASSUME \/ \E g \in Generation : ProcessExits(g) \/ PublishWebui(g) \/ WatcherStep(g)
           \/ ListenerStep \/ LoginStep \/ UNCHANGED vars
    PROVE  op' = op /\ call' = call
  <1>1. ASSUME NEW g \in Generation, ProcessExits(g) \/ PublishWebui(g) \/ WatcherStep(g)
        PROVE  op' = op /\ call' = call
    BY <1>1 DEF ProcessExits, PublishWebui, WatcherStep, WatcherSeesExit, PublishExit,
                Native!ProcessExits, Native!LogReaderSeesWebui, Native!WatcherSeesExit,
                Native!WatcherPublishes
  <1>2. CASE ListenerStep \/ LoginStep
    BY <1>2 DEF ListenerStep, ListenerTakes, ListenerTells, LoginStep, LoginTakesWebui,
                LoginSpawnsPoller, LoginTakesExit, deployment
  <1>3. CASE UNCHANGED vars
    BY <1>3 DEF vars, deployment
  <1> QED
    BY <1>1, <1>2, <1>3

LEMMA CallStays ==
    ASSUME TypeOK, NEW t \in Tasks, NEW kind \in Operations, Call(t, kind)
    PROVE  /\ op[t] = Resting /\ op'[t].kind = kind /\ op'[t].token = 0
           /\ op'[t].seen = "Stopped" /\ UNCHANGED <<actor, deployment, listener, exitBox>>
           /\ op'[t].pc = CASE kind = "start" -> "start"
                            [] kind = "stop"  -> "request"
                            [] OTHER          -> "look"
           /\ \A u \in Tasks : u # t =>
                 /\ op'[u] = op[u]
                 /\ op[u] = Resting \/ {kind, op[u].kind} \subseteq Overlapping
  BY DEF Call, TypeOK, boxes

\* An operation that stays where it is keeps what is known of it.
LEMMA KeptOps ==
    ASSUME Grows, NEW t \in Tasks, op'[t] = op[t], call'[t] = call[t]
    PROVE  (TokenIsKnown(t) => TokenIsKnown(t)') /\ (KindIsRight(t) => KindIsRight(t)')
  <1>1. TokenIsKnown(t) => TokenIsKnown(t)'
    BY DEF Grows, TokenIsKnown, Launching, TakesOver, Restarts, Stopped
  <1>2. KindIsRight(t) => KindIsRight(t)'
    BY DEF Grows, KindIsRight, Stopped
  <1> QED
    BY <1>1, <1>2

LEMMA StartKeepsToken ==
    ASSUME TypeOK, TokensAreOrdered, Grows, NEW t \in Tasks, TokenIsKnown(t), KindIsRight(t), StartStep(t)
    PROVE  TokenIsKnown(t)'
  <1>1. StartEffects(t)
    BY StartStepEffects
  <1>2. op[t].token \in Nat /\ Token \in Nat /\ Resting.token = 0 /\ Resting.pc = "rest"
        /\ Resting.kind = "none"
    BY OpFacts
  <1> USE <1>1, <1>2 DEF TokenIsKnown, Grows, Moves, Goes, Rests, StartPc
  <1>3. ASSUME StartRequest(t) PROVE TokenIsKnown(t)'
    BY <1>3 DEF StartEffects, Launching, TakesOver, Restarts, Stopped, KindIsRight, ActorStays,
             ActorBegins, ActorCancels, ActorTurns, TokensAreOrdered
  <1>4. ASSUME StartRefused(t) PROVE TokenIsKnown(t)'
    BY <1>4 DEF StartEffects, Launching, TakesOver, Restarts, Stopped, KindIsRight, ActorStays,
             ActorBegins, ActorCancels, ActorTurns, TokensAreOrdered
  <1>5. ASSUME ReadToken(t) PROVE TokenIsKnown(t)'
    BY <1>5 DEF StartEffects, Launching, TakesOver, Restarts, Stopped, KindIsRight, ActorStays,
             ActorBegins, ActorCancels, ActorTurns, TokensAreOrdered
  <1>6. ASSUME Plan(t) PROVE TokenIsKnown(t)'
    BY <1>6 DEF StartEffects, Launching, TakesOver, Restarts, Stopped, KindIsRight, ActorStays,
             ActorBegins, ActorCancels, ActorTurns, TokensAreOrdered
  <1>7. ASSUME CheckCancel(t) PROVE TokenIsKnown(t)'
    BY <1>7 DEF StartEffects, Launching, TakesOver, Restarts, Stopped, KindIsRight, ActorStays,
             ActorBegins, ActorCancels, ActorTurns, TokensAreOrdered
  <1>8. ASSUME Spawn(t) PROVE TokenIsKnown(t)'
    BY <1>8 DEF StartEffects, Launching, TakesOver, Restarts, Stopped, KindIsRight, ActorStays,
             ActorBegins, ActorCancels, ActorTurns, TokensAreOrdered
  <1>9. ASSUME Insert(t) PROVE TokenIsKnown(t)'
    BY <1>9 DEF StartEffects, Launching, TakesOver, Restarts, Stopped, KindIsRight, ActorStays,
             ActorBegins, ActorCancels, ActorTurns, TokensAreOrdered
  <1>10. ASSUME Recheck(t) PROVE TokenIsKnown(t)'
    BY <1>10 DEF StartEffects, Launching, TakesOver, Restarts, Stopped, KindIsRight, ActorStays,
             ActorBegins, ActorCancels, ActorTurns, TokensAreOrdered
  <1>11. ASSUME FinishStart(t) PROVE TokenIsKnown(t)'
    BY <1>11 DEF StartEffects, Launching, TakesOver, Restarts, Stopped, KindIsRight, ActorStays,
             ActorBegins, ActorCancels, ActorTurns, TokensAreOrdered
  <1>12. ASSUME StartError(t) PROVE TokenIsKnown(t)'
    BY <1>12 DEF StartEffects, Launching, TakesOver, Restarts, Stopped, KindIsRight, ActorStays,
             ActorBegins, ActorCancels, ActorTurns, TokensAreOrdered
  <1>13. ASSUME MarkStartCrashed(t) PROVE TokenIsKnown(t)'
    BY <1>13 DEF StartEffects, Launching, TakesOver, Restarts, Stopped, KindIsRight, ActorStays,
             ActorBegins, ActorCancels, ActorTurns, TokensAreOrdered
  <1> QED
    BY <1>3, <1>4, <1>5, <1>6, <1>7, <1>8, <1>9, <1>10, <1>11, <1>12, <1>13 DEF StartStep

LEMMA StopKeepsToken ==
    ASSUME TypeOK, TokensAreOrdered, Grows, NEW t \in Tasks, TokenIsKnown(t), KindIsRight(t), StopStep(t)
    PROVE  TokenIsKnown(t)'
  <1>1. StopEffects(t)
    BY StopStepEffects
  <1>2. op[t].token \in Nat /\ Token \in Nat /\ Resting.token = 0 /\ Resting.pc = "rest"
        /\ Resting.kind = "none"
    BY OpFacts
  <1> USE <1>1, <1>2 DEF TokenIsKnown, Grows, Moves, Goes, Rests, StartPc
  <1>3. ASSUME Look(t) PROVE TokenIsKnown(t)'
    BY <1>3 DEF StopEffects, Launching, TakesOver, Restarts, Stopped, KindIsRight, ActorStays,
             ActorBegins, ActorCancels, ActorTurns, TokensAreOrdered
  <1>4. ASSUME Request(t) PROVE TokenIsKnown(t)'
    BY <1>4 DEF StopEffects, Launching, TakesOver, Restarts, Stopped, KindIsRight, ActorStays,
             ActorBegins, ActorCancels, ActorTurns, TokensAreOrdered
  <1>5. ASSUME Queue(t) PROVE TokenIsKnown(t)'
    BY <1>5 DEF StopEffects, Launching, TakesOver, Restarts, Stopped, KindIsRight, ActorStays,
             ActorBegins, ActorCancels, ActorTurns, TokensAreOrdered
  <1>6. ASSUME Status(t) PROVE TokenIsKnown(t)'
    BY <1>6 DEF StopEffects, Launching, TakesOver, Restarts, Stopped, KindIsRight, ActorStays,
             ActorBegins, ActorCancels, ActorTurns, TokensAreOrdered
  <1>7. ASSUME BackendStop(t) PROVE TokenIsKnown(t)'
    BY <1>7 DEF StopEffects, Launching, TakesOver, Restarts, Stopped, KindIsRight, ActorStays,
             ActorBegins, ActorCancels, ActorTurns, TokensAreOrdered, AfterBackendStop
  <1>8. ASSUME BackendKills(t) PROVE TokenIsKnown(t)'
    BY <1>8 DEF StopEffects, Launching, TakesOver, Restarts, Stopped, KindIsRight, ActorStays,
             ActorBegins, ActorCancels, ActorTurns, TokensAreOrdered
  <1>9. ASSUME BackendStopped(t) PROVE TokenIsKnown(t)'
    BY <1>9 DEF StopEffects, Launching, TakesOver, Restarts, Stopped, KindIsRight, ActorStays,
             ActorBegins, ActorCancels, ActorTurns, TokensAreOrdered, AfterBackendStop
  <1>10. ASSUME StopFailed(t) PROVE TokenIsKnown(t)'
    BY <1>10 DEF StopEffects, Launching, TakesOver, Restarts, Stopped, KindIsRight, ActorStays,
             ActorBegins, ActorCancels, ActorTurns, TokensAreOrdered
  <1>11. ASSUME Confirm(t) PROVE TokenIsKnown(t)'
    BY <1>11 DEF StopEffects, Launching, TakesOver, Restarts, Stopped, KindIsRight, ActorStays,
             ActorBegins, ActorCancels, ActorTurns, TokensAreOrdered
  <1>12. ASSUME DisposePoller(t) PROVE TokenIsKnown(t)'
    BY <1>12 DEF StopEffects, Launching, TakesOver, Restarts, Stopped, KindIsRight, ActorStays,
             ActorBegins, ActorCancels, ActorTurns, TokensAreOrdered
  <1>13. ASSUME DisposeEndpoint(t) PROVE TokenIsKnown(t)'
    BY <1>13 DEF StopEffects, Launching, TakesOver, Restarts, Stopped, KindIsRight, ActorStays,
             ActorBegins, ActorCancels, ActorTurns, TokensAreOrdered
  <1>14. ASSUME After(t) PROVE TokenIsKnown(t)'
    BY <1>14 DEF StopEffects, Launching, TakesOver, Restarts, Stopped, KindIsRight, ActorStays,
             ActorBegins, ActorCancels, ActorTurns, TokensAreOrdered
  <1> QED
    BY <1>3, <1>4, <1>5, <1>6, <1>7, <1>8, <1>9, <1>10, <1>11, <1>12, <1>13, <1>14 DEF StopStep

\* A stop that gave up had its kill fail.
LEMMA FailedKills ==
    ASSUME TypeOK, Table!IInv, Grows, NEW t \in Tasks, KindIsRight(t), TaskStep(t)
    PROVE  call'[t].pc = "settle" /\ call'[t].result = "err" => "kill_failed" \in faults'
  <1>1. DOMAIN call = Tasks
    BY TypeFacts DEF TableTypes
  <1>2. UNCHANGED deployment => call' = call
    BY DEF deployment
  <1>3. \A r : Native!IdleCall(r).pc = "idle"
    BY DEF Native!IdleCall
  <1> USE <1>1, <1>2, <1>3 DEF KindIsRight, Grows
  <1>4. ASSUME UNCHANGED deployment
        PROVE  call'[t].pc = "settle" /\ call'[t].result = "err" => "kill_failed" \in faults'
    BY <1>4
  <1> DEFINE Goal == call'[t].pc = "settle" /\ call'[t].result = "err" => "kill_failed" \in faults'
  <1>5. \A c : call' = [call EXCEPT ![t] = c] => call'[t] = c
    OBVIOUS
  <1>6. ASSUME Native!LaunchFails(t) \/ Native!LaunchInsert(t) \/ Native!StopNothing(t, Bot)
               \/ Native!StopSettle(t)
        PROVE  Goal
    <2>1. PICK r : call' = [call EXCEPT ![t] = Native!IdleCall(r)]
      BY <1>6 DEF Native!LaunchFails, Native!LaunchInsert, Native!StopNothing, Native!StopSettle
    <2> QED
      BY <2>1
  <1>7. ASSUME NEW p \in Pids, Native!LaunchSpawn(t, Bot, p) PROVE Goal
    <2>1. call'[t].pc = "insert"
      BY <1>7 DEF Native!LaunchSpawn
    <2> QED
      BY <2>1
  <1>8. ASSUME Native!StopMark(t, Bot) PROVE Goal
    <2>1. call'[t].pc = "kill"
      BY <1>8 DEF Native!StopMark
    <2> QED
      BY <2>1
  <1>9. ASSUME BackendKills(t) PROVE Goal
    <2>1. Native!StopKill(t) \/ "kill_failed" \in faults'
      BY <1>9, StopStepEffects DEF StopEffects
    <2>2. Native!StopKill(t) => call'[t].result = "ok"
      BY DEF Native!StopKill
    <2> QED
      BY <2>1, <2>2
  <1>10. ASSUME Spawn(t) \/ Insert(t) PROVE Goal
    <2>1. StartEffects(t)
      BY StartStepEffects
    <2> HIDE DEF Goal
    <2> QED
      BY <1>4, <1>6, <1>7, <1>10, <2>1 DEF StartEffects, Goal
  <1>11. ASSUME BackendStop(t) \/ BackendStopped(t) PROVE Goal
    BY <1>6, <1>8, <1>11, StopStepEffects DEF StopEffects
  <1> QED
    BY <1>4, <1>9, <1>10, <1>11, DeploymentFrame DEF TaskStep, StartStep, StopStep

LEMMA StartKeepsKind ==
    ASSUME TypeOK, Table!IInv, Grows, NEW t \in Tasks, KindIsRight(t), StartStep(t)
    PROVE  KindIsRight(t)'
  <1>1. StartEffects(t) /\ CallFacts(t)
    BY StartStepEffects, TableFacts
  <1>2. Resting.pc = "rest" /\ Resting.kind = "none"
    BY OpFacts
  <1>3. call'[t].pc = "settle" /\ call'[t].result = "err" => "kill_failed" \in faults'
    BY FailedKills DEF TaskStep
  <1> USE <1>1, <1>2, <1>3 DEF KindIsRight, Grows, Moves, Goes, Rests, Stopped, StopPc
  <1>4. ASSUME StartRequest(t) PROVE KindIsRight(t)'
    BY <1>4 DEF StartEffects
  <1>5. ASSUME StartRefused(t) PROVE KindIsRight(t)'
    BY <1>5 DEF StartEffects
  <1>6. ASSUME ReadToken(t) PROVE KindIsRight(t)'
    BY <1>6 DEF StartEffects
  <1>7. ASSUME Plan(t) PROVE KindIsRight(t)'
    BY <1>7 DEF StartEffects
  <1>8. ASSUME CheckCancel(t) PROVE KindIsRight(t)'
    BY <1>8 DEF StartEffects
  <1>9. ASSUME Spawn(t) PROVE KindIsRight(t)'
    BY <1>9 DEF StartEffects
  <1>10. ASSUME Insert(t) PROVE KindIsRight(t)'
    BY <1>10 DEF StartEffects
  <1>11. ASSUME Recheck(t) PROVE KindIsRight(t)'
    BY <1>11 DEF StartEffects
  <1>12. ASSUME FinishStart(t) PROVE KindIsRight(t)'
    BY <1>12 DEF StartEffects
  <1>13. ASSUME StartError(t) PROVE KindIsRight(t)'
    BY <1>13 DEF StartEffects
  <1>14. ASSUME MarkStartCrashed(t) PROVE KindIsRight(t)'
    BY <1>14 DEF StartEffects
  <1> QED
    BY <1>4, <1>5, <1>6, <1>7, <1>8, <1>9, <1>10, <1>11, <1>12, <1>13, <1>14 DEF StartStep

LEMMA StopKeepsKind ==
    ASSUME TypeOK, Table!IInv, Grows, NEW t \in Tasks, KindIsRight(t), StopStep(t)
    PROVE  KindIsRight(t)'
  <1>1. StopEffects(t) /\ CallFacts(t)
    BY StopStepEffects, TableFacts
  <1>2. Resting.pc = "rest" /\ Resting.kind = "none"
    BY OpFacts
  <1>3. call'[t].pc = "settle" /\ call'[t].result = "err" => "kill_failed" \in faults'
    BY FailedKills DEF TaskStep
  <1> USE <1>1, <1>2, <1>3 DEF KindIsRight, Grows, Moves, Goes, Rests, Stopped, StopPc
  <1>4. ASSUME Look(t) PROVE KindIsRight(t)'
    BY <1>4 DEF StopEffects
  <1>5. ASSUME Request(t) PROVE KindIsRight(t)'
    BY <1>5 DEF StopEffects, ActorCancels, ActorStays
  <1>6. ASSUME Queue(t) PROVE KindIsRight(t)'
    BY <1>6 DEF StopEffects
  <1>7. ASSUME Status(t) PROVE KindIsRight(t)'
    BY <1>7 DEF StopEffects
  <1>8. ASSUME BackendStop(t) PROVE KindIsRight(t)'
    BY <1>8 DEF StopEffects, AfterBackendStop
  <1>9. ASSUME BackendKills(t) PROVE KindIsRight(t)'
    BY <1>9 DEF StopEffects
  <1>10. ASSUME BackendStopped(t) PROVE KindIsRight(t)'
    BY <1>10 DEF StopEffects, AfterBackendStop, CallFacts, Native!StopSettle
  <1>11. ASSUME StopFailed(t) PROVE KindIsRight(t)'
    BY <1>11 DEF StopEffects
  <1>12. ASSUME Confirm(t) PROVE KindIsRight(t)'
    BY <1>12 DEF StopEffects
  <1>13. ASSUME DisposePoller(t) PROVE KindIsRight(t)'
    BY <1>13 DEF StopEffects
  <1>14. ASSUME DisposeEndpoint(t) PROVE KindIsRight(t)'
    BY <1>14 DEF StopEffects
  <1>15. ASSUME After(t) PROVE KindIsRight(t)'
    BY <1>15 DEF StopEffects
  <1> QED
    BY <1>4, <1>5, <1>6, <1>7, <1>8, <1>9, <1>10, <1>11, <1>12, <1>13, <1>14, <1>15 DEF StopStep

LEMMA NextOpsAreInStep ==
    ASSUME TypeOK, Table!IInv, TokensAreOrdered, OpsAreInStep, [Next]_vars
    PROVE  OpsAreInStep'
  <1>1. Grows
    BY GrowsStep
  <1>2. Resting.kind = "none" /\ \A t \in Tasks : op[t].pc = "rest" => op[t] = Resting
    BY OpFacts DEF Resting
  <1> DEFINE Held(t) == TokenIsKnown(t) /\ KindIsRight(t)
  <1>3. ASSUME NEW t \in Tasks, NEW kind \in Operations, Call(t, kind) PROVE OpsAreInStep'
    <2>1. call' = call
      BY <1>3 DEF Call, deployment
    <2>2. ASSUME NEW u \in Tasks, u # t PROVE Held(u)'
      <3>1. op'[u] = op[u] /\ call'[u] = call[u]
        BY <1>3, <2>1, <2>2, CallStays
      <3> QED
        BY <1>1, <3>1, KeptOps DEF OpsAreInStep
    <2>3. /\ op'[t].kind = kind /\ op'[t].token = 0 /\ op'[t].seen = "Stopped"
          /\ op'[t].pc \in {"start", "request", "look"}
          /\ op'[t].pc = "start" <=> kind = "start"
      BY <1>3, CallStays
    <2>4. TokenIsKnown(t)'
      BY <1>1, <2>3 DEF TokenIsKnown, Launching, TakesOver, Restarts, Stopped, Grows, StartPc
    <2>5. KindIsRight(t)'
      <3>1. kind \in {"start", "stop", "restart", "switch"}
        BY OperationsAssumption
      <3> QED
        BY <1>1, <2>1, <2>3, <3>1 DEF KindIsRight, OpsAreInStep, Stopped, Grows, StopPc
    <2>6. ASSUME NEW u \in Tasks PROVE RestartIsAlone(u)'
      BY <1>2, <1>3, CallStays DEF RestartIsAlone, OpsAreInStep
    <2> QED
      BY <2>2, <2>4, <2>5, <2>6 DEF OpsAreInStep
  <1>4. ASSUME NEW t \in Tasks, TaskStep(t) PROVE OpsAreInStep'
    <2>1. Others(t)
      BY <1>4, OthersStay
    <2>2. ASSUME NEW u \in Tasks, u # t PROVE Held(u)'
      BY <1>1, <2>1, <2>2, KeptOps DEF OpsAreInStep, Others
    <2>3. TokenIsKnown(t)'
      BY <1>1, <1>4, StartKeepsToken, StopKeepsToken DEF TaskStep, OpsAreInStep
    <2>4. KindIsRight(t)'
      BY <1>1, <1>4, StartKeepsKind, StopKeepsKind DEF TaskStep, OpsAreInStep
    <2>5. op[t] # Resting /\ op'[t].kind \in {op[t].kind, "none"}
      <3>1. Resting.pc = "rest"
        BY OpFacts
      <3>2. CASE StartStep(t)
        BY <1>2, <3>1, <3>2, StartStepEffects DEF StartStep, StartEffects, Goes, Moves, Rests
      <3>3. CASE StopStep(t)
        BY <1>2, <3>1, <3>3, StopStepEffects
        DEF StopStep, StopEffects, OpsAreInStep, Goes, Moves, Rests
      <3> QED
        BY <1>4, <3>2, <3>3 DEF TaskStep
    <2>6. ASSUME NEW u \in Tasks PROVE RestartIsAlone(u)'
      BY <1>2, <2>1, <2>5 DEF RestartIsAlone, OpsAreInStep, Others
    <2> QED
      BY <2>2, <2>3, <2>4, <2>6 DEF OpsAreInStep
  <1>5. ASSUME op' = op, call' = call PROVE OpsAreInStep'
    <2>1. ASSUME NEW u \in Tasks PROVE Held(u)'
      BY <1>1, <1>5, KeptOps DEF OpsAreInStep
    <2>2. ASSUME NEW u \in Tasks PROVE RestartIsAlone(u)'
      BY <1>5 DEF RestartIsAlone, OpsAreInStep
    <2> QED
      BY <2>1, <2>2 DEF OpsAreInStep
  <1> QED
    BY <1>3, <1>4, <1>5, EnvironmentStays DEF Next

LEMMA NextExitsAreOver ==
    ASSUME TypeOK, Table!IInv, ExitsAreOver, [Next]_vars
    PROVE  ExitsAreOver'
  <1>1. ASSUME NEW g \in Generation, watcher[g] = "done" PROVE watcher'[g] = "done"
    <2>1. TableStep /\ TableTypes /\ \A t \in Tasks : CallFacts(t)
      BY NextIsTableStep, TypeFacts, TableFacts
    <2> USE <1>1, <2>1 DEF TableTypes
    <2>2. ASSUME NEW t \in Tasks, Native!LaunchInsert(t) PROVE watcher'[g] = "done"
      BY <2>2 DEF Native!LaunchInsert, CallFacts
    <2>3. CASE TableShrinks
      BY <2>3, ShrinksStep DEF Shrinks
    <2> QED
      BY <2>2, <2>3 DEF TableStep, TableShrinks
  <1>2. /\ exitBox \in Seq(Generation)
        /\ listener # Receiving => listener.gen \in Generation
    BY DEF TypeOK
  <1>3. ASSUME UNCHANGED <<exitBox, listener>> PROVE ExitsAreOver'
    BY <1>1, <1>2, <1>3 DEF ExitsAreOver
  <1>4. CASE ListenerTakes
    <2>1. CASE listener' = Receiving
      BY <1>1, <1>2, <1>4, <2>1 DEF ExitsAreOver, ListenerTakes
    <2>2. CASE listener' # Receiving
      <3>1. listener'.gen = Head(exitBox)
        BY <1>4, <2>2 DEF ListenerTakes
      <3> QED
        BY <1>1, <1>2, <1>4, <3>1 DEF ExitsAreOver, ListenerTakes
    <2> QED
      BY <2>1, <2>2
  <1>5. CASE ListenerTells
    BY <1>1, <1>2, <1>5 DEF ExitsAreOver, ListenerTells, boxes
  <1>6. ASSUME NEW g \in Generation, PublishExit(g) PROVE ExitsAreOver'
    <2>1. watcher'[g] = "done"
      BY <1>6, TypeFacts DEF TableTypes, PublishExit, Native!WatcherPublishes
    <2> QED
      BY <1>1, <1>2, <1>6, <2>1 DEF ExitsAreOver, PublishExit
  <1>7. ASSUME NEW t \in Tasks, TaskStep(t) PROVE ExitsAreOver'
    BY <1>3, <1>7, TaskFrame DEF boxes
  <1>8. ASSUME NEW t \in Tasks, NEW kind \in Operations, Call(t, kind) PROVE ExitsAreOver'
    BY <1>3, <1>8 DEF Call, boxes
  <1>9. ASSUME NEW g \in Generation, ProcessExits(g) \/ PublishWebui(g) \/ WatcherSeesExit(g)
        PROVE  ExitsAreOver'
    BY <1>3, <1>9 DEF ProcessExits, PublishWebui, WatcherSeesExit, boxes
  <1>10. CASE LoginStep
    BY <1>3, <1>10 DEF LoginStep, LoginTakesWebui, LoginSpawnsPoller, LoginTakesExit, boxes
  <1>11. CASE UNCHANGED vars
    BY <1>3, <1>11 DEF vars, boxes
  <1> QED
    BY <1>4, <1>5, <1>6, <1>7, <1>8, <1>9, <1>10, <1>11 DEF Next, ListenerStep, WatcherStep

-----------------------------------------------------------------------------
(* One claim to a run.                                                     *)

\* A claim is kept, or is made with a new token, or is that of a restart which
\* runs alone, unless a start took up another run's token.
ClaimMove(t) ==
    Claims(t)' =>
        \/ Claims(t) /\ op'[t].token = op[t].token
        \/ ActorBegins /\ op'[t].token = Token'
        \/ op[t].kind = "restart" /\ snapshot.state = "Starting" /\ ActorStays
        \/ "other_token" \in faults'

LEMMA StartClaims ==
    ASSUME TypeOK, OpsAreInStep, NEW t \in Tasks, StartStep(t), Grows
    PROVE  ClaimMove(t)
  <1>1. StartEffects(t)
    BY StartStepEffects
  <1>2. Resting.pc = "rest" /\ Resting.kind = "none"
    BY OpFacts
  <1> USE <1>1, <1>2 DEF StartEffects, ClaimMove, Claims, Launching, TakesOver, Stopped,
                         Goes, Moves, Rests, StartPc
  <1>3. ASSUME StartRequest(t) PROVE ClaimMove(t)
    BY <1>3
  <1>4. ASSUME StartRefused(t) PROVE ClaimMove(t)
    BY <1>4
  <1>5. ASSUME ReadToken(t) PROVE ClaimMove(t)
    BY <1>5
  <1>6. ASSUME Plan(t) PROVE ClaimMove(t)
    BY <1>6
  <1>7. ASSUME CheckCancel(t) PROVE ClaimMove(t)
    BY <1>7
  <1>8. ASSUME Spawn(t) PROVE ClaimMove(t)
    BY <1>8
  <1>9. ASSUME Insert(t) PROVE ClaimMove(t)
    BY <1>9
  <1>10. ASSUME Recheck(t) PROVE ClaimMove(t)
    BY <1>10
  <1>11. ASSUME FinishStart(t) PROVE ClaimMove(t)
    BY <1>11
  <1>12. ASSUME StartError(t) PROVE ClaimMove(t)
    BY <1>12
  <1>13. ASSUME MarkStartCrashed(t) PROVE ClaimMove(t)
    BY <1>13
  <1> QED
    BY <1>3, <1>4, <1>5, <1>6, <1>7, <1>8, <1>9, <1>10, <1>11, <1>12, <1>13 DEF StartStep

LEMMA StopClaims ==
    ASSUME TypeOK, TokensAreOrdered, OpsAreInStep, NEW t \in Tasks, StopStep(t), Grows
    PROVE  ClaimMove(t)
  <1>1. StopEffects(t) /\ KindIsRight(t)
    BY StopStepEffects DEF OpsAreInStep
  <1>2. Resting.pc = "rest" /\ Resting.kind = "none"
    BY OpFacts
  <1>3. UNCHANGED actor => ActorStays
    BY DEF actor, ActorStays, Token
  <1> USE <1>1, <1>2 DEF StopEffects, ClaimMove, Claims, Launching, TakesOver, Stopped,
                         Goes, Moves, Rests, StartPc, StopPc, KindIsRight, Grows
  <1>4. ASSUME Look(t) PROVE ClaimMove(t)
    BY <1>4
  <1>5. ASSUME Request(t) PROVE ClaimMove(t)
    BY <1>5 DEF TokensAreOrdered, ActorCancels, ActorStays
  <1>6. ASSUME Queue(t) PROVE ClaimMove(t)
    BY <1>6
  <1>7. ASSUME Status(t) PROVE ClaimMove(t)
    BY <1>7
  <1>8. ASSUME BackendStop(t) PROVE ClaimMove(t)
    BY <1>8 DEF AfterBackendStop
  <1>9. ASSUME BackendKills(t) PROVE ClaimMove(t)
    BY <1>9
  <1>10. ASSUME BackendStopped(t) PROVE ClaimMove(t)
    BY <1>10 DEF AfterBackendStop
  <1>11. ASSUME StopFailed(t) PROVE ClaimMove(t)
    BY <1>11
  <1>12. ASSUME Confirm(t) PROVE ClaimMove(t)
    BY <1>12 DEF ActorTurns
  <1>13. ASSUME DisposePoller(t) PROVE ClaimMove(t)
    BY <1>13
  <1>14. ASSUME DisposeEndpoint(t) PROVE ClaimMove(t)
    BY <1>14
  <1>15. ASSUME After(t) PROVE ClaimMove(t)
    BY <1>15, <1>3, ActorFrame
  <1> QED
    BY <1>4, <1>5, <1>6, <1>7, <1>8, <1>9, <1>10, <1>11, <1>12, <1>13, <1>14, <1>15 DEF StopStep

LEMMA NextOneClaim ==
    ASSUME IInv, [Next]_vars, Apart' PROVE OneClaim'
  <1>1. TypeOK /\ Table!IInv /\ TokensAreOrdered /\ OpsAreInStep
    BY DEF IInv
  <1>2. Grows
    BY <1>1, GrowsStep
  <1>3. Apart /\ OneClaim /\ "other_token" \notin faults' /\ "restart" \notin Overlapping
    BY <1>2 DEF IInv, Apart, Grows
  <1>4. Resting.pc = "rest" /\ Resting.kind = "none" /\ \A u \in Tasks : op[u].token \in Nat
    BY <1>1, OpFacts DEF Resting
  <1>5. ASSUME NEW u \in Tasks, op'[u] = op[u], Claims(u)' PROVE Claims(u)
    BY <1>2, <1>5 DEF Claims, Launching, TakesOver, Stopped, Grows
  <1>6. ASSUME op' = op PROVE OneClaim'
    BY <1>3, <1>5, <1>6 DEF OneClaim
  <1>7. ASSUME NEW t \in Tasks, NEW kind \in Operations, Call(t, kind) PROVE OneClaim'
    <2>1. ~Claims(t)'
      <3>1. op'[t].pc \in {"start", "request", "look"}
        BY <1>1, <1>7, CallStays
      <3> QED
        BY <3>1 DEF Claims, Launching, TakesOver, Stopped, StartPc
    <2> QED
      BY <1>1, <1>3, <1>5, <1>7, <2>1, CallStays DEF OneClaim
  <1>8. ASSUME NEW t \in Tasks, TaskStep(t) PROVE OneClaim'
    <2>1. ClaimMove(t) /\ Others(t)
      BY <1>1, <1>2, <1>8, StartClaims, StopClaims, OthersStay DEF TaskStep
    <2>2. ASSUME NEW u \in Tasks, u # t, Claims(u)', Claims(t)', op'[u].token = op'[t].token
          PROVE  FALSE
      <3>1. op'[u] = op[u] /\ Claims(u)
        BY <1>5, <2>1, <2>2 DEF Others
      <3>2. op[u].token \in 0 .. Token
        BY <1>1 DEF OpsAreInStep, TokenIsKnown
      <3>3. CASE Claims(t) /\ op'[t].token = op[t].token
        BY <1>3, <2>2, <3>1, <3>3 DEF OneClaim
      <3>4. CASE ActorBegins /\ op'[t].token = Token'
        BY <1>2, <2>2, <3>1, <3>2, <3>4 DEF ActorBegins, Grows
      <3>5. CASE op[t].kind = "restart"
        <4>1. op[u] = Resting
          BY <1>1, <1>3, <2>2, <3>5 DEF OpsAreInStep, RestartIsAlone
        <4> QED
          BY <1>4, <3>1, <4>1 DEF Claims, Launching, TakesOver, StartPc
      <3> QED
        BY <1>3, <2>1, <2>2, <3>3, <3>4, <3>5 DEF ClaimMove
    <2>3. ASSUME NEW u \in Tasks, NEW v \in Tasks, Claims(u)', Claims(v)',
                 op'[u].token = op'[v].token
          PROVE  u = v
      <3>1. CASE u # t /\ v # t
        BY <1>3, <1>5, <2>1, <2>3, <3>1 DEF OneClaim, Others
      <3> QED
        BY <2>2, <2>3, <3>1
    <2> QED
      BY <2>3 DEF OneClaim
  <1> QED
    BY <1>6, <1>7, <1>8, EnvironmentStays DEF Next

-----------------------------------------------------------------------------
(* What a task's step does to its part in the other invariants.            *)

\* Only a launch that has just spawned its process comes to its insert.
InsertMove(t) ==
    op'[t].pc = "insert" => \A h \in Generation : Inserted(h)' => h <= call'[t].gen

\* A start that has inserted its process stays until the bot is not Starting.
RecheckMove(t) ==
    (Rechecks(t) /\ snapshot'.state = "Starting" /\ Token' = Token /\ Lives')
        => Rechecks(t)' /\ op'[t].token = op[t].token

\* Who comes to end a run finds no living process, or marks it, or has killed it.
EndMove(t) ==
    Ends(t)' =>
        \/ ~Lives'
        \/ op'[t].pc = "await" /\ call'[t].gen = Record'.generation
        \/ /\ Ends(t) /\ op'[t].token = op[t].token
           /\ op[t].pc = "await" =>
                 \/ op'[t].pc = "await" /\ call'[t].gen = call[t].gen
                 \/ ~proc'[call[t].gen].alive

TaskMove(t) == InsertMove(t) /\ RecheckMove(t) /\ EndMove(t)

LEMMA StartMove ==
    ASSUME TypeOK, Table!IInv, OpsAreInStep, NEW t \in Tasks, StartStep(t)
    PROVE  TaskMove(t)
  <1>1. StartEffects(t) /\ TableTypes /\ RecordFacts
    BY StartStepEffects, TypeFacts, TableFacts
  <1>2. Resting.pc = "rest" /\ Resting.kind = "none"
    BY OpFacts
  <1>3. UNCHANGED deployment => (Lives' <=> Lives)
    BY DEF deployment, Lives, Record
  <1>4. Observed <=> Record # Native!NoRecord
    BY DEF Observed, Record
  <1> USE <1>1, <1>2 DEF StartEffects, TaskMove, InsertMove, RecheckMove, EndMove, Ends,
                         Rechecks, Goes, Moves, Rests
  <1>5. ASSUME StartRequest(t) PROVE TaskMove(t)
    BY <1>5
  <1>6. ASSUME StartRefused(t) PROVE TaskMove(t)
    BY <1>6
  <1>7. ASSUME ReadToken(t) PROVE TaskMove(t)
    BY <1>7
  <1>8. ASSUME Plan(t) PROVE TaskMove(t)
    BY <1>8
  <1>9. ASSUME CheckCancel(t) PROVE TaskMove(t)
    BY <1>9
  <1>10. ASSUME Spawn(t) PROVE TaskMove(t)
    <2>1. ASSUME NEW p \in Pids, Native!LaunchSpawn(t, Bot, p)
          PROVE  \A h \in Generation : Inserted(h)' => h <= call'[t].gen
      <3>1. call'[t].gen = generation /\ watcher' = watcher
        BY <2>1 DEF TableTypes, Native!LaunchSpawn
      <3> QED
        BY <3>1 DEF RecordFacts, TableTypes, Inserted
    <2> QED
      BY <1>10, <2>1
  <1>11. ASSUME Insert(t) PROVE TaskMove(t)
    BY <1>11
  <1>12. ASSUME Recheck(t) PROVE TaskMove(t)
    BY <1>12, <1>3, <1>4, DeploymentFrame DEF Lives
  <1>13. ASSUME FinishStart(t) PROVE TaskMove(t)
    BY <1>13 DEF ActorTurns, ActorStays
  <1>14. ASSUME StartError(t) PROVE TaskMove(t)
    BY <1>14
  <1>15. ASSUME MarkStartCrashed(t) PROVE TaskMove(t)
    BY <1>15
  <1> QED
    BY <1>5, <1>6, <1>7, <1>8, <1>9, <1>10, <1>11, <1>12, <1>13, <1>14, <1>15 DEF StartStep

LEMMA StopMove ==
    ASSUME TypeOK, Table!IInv, OpsAreInStep, NEW t \in Tasks, StopStep(t)
    PROVE  TaskMove(t)
  <1>1. StopEffects(t) /\ KindIsRight(t) /\ TableTypes /\ RecordFacts /\ CallFacts(t)
    BY StopStepEffects, TypeFacts, TableFacts DEF OpsAreInStep
  <1>2. Resting.pc = "rest" /\ Resting.kind = "none"
    BY OpFacts
  <1>3. UNCHANGED deployment => (Lives' <=> Lives)
    BY DEF deployment, Lives, Record
  <1>4. Observed <=> Record # Native!NoRecord
    BY DEF Observed, Record
  <1> USE <1>1, <1>2 DEF StopEffects, TaskMove, InsertMove, RecheckMove, EndMove, Ends,
                         Rechecks, Goes, Moves, Rests, KindIsRight, Stopped, StopPc
  <1>5. ASSUME Look(t) PROVE TaskMove(t)
    BY <1>5
  <1>6. ASSUME Request(t) PROVE TaskMove(t)
    BY <1>6
  <1>7. ASSUME Queue(t) PROVE TaskMove(t)
    BY <1>7
  <1>8. ASSUME Status(t) PROVE TaskMove(t)
    BY <1>8, <1>3, <1>4, DeploymentFrame DEF Lives
  <1>9. ASSUME BackendStop(t) PROVE TaskMove(t)
    <2>1. Native!StopMark(t, Bot) => call'[t].gen = Record'.generation
      BY DEF Native!StopMark, TableTypes, Record
    <2>2. Native!StopNothing(t, Bot) => ~Lives'
      BY DEF Native!StopNothing, Lives, Record
    <2> QED
      BY <1>9, <2>1, <2>2 DEF AfterBackendStop
  <1>10. ASSUME BackendKills(t) PROVE TaskMove(t)
    <2>1. call[t] \in Table!StopCall
      BY <1>10 DEF Native!StopKill, Native!StopKillFails, Table!IInv, Table!TypeOK,
                  Table!LaunchCall, Table!StopCall, Table!IdleCall
    <2>2. call'[t].gen = call[t].gen
      BY <1>10, <2>1 DEF Native!StopKill, Native!StopKillFails, TableTypes, Table!StopCall
    <2> QED
      BY <1>10, <2>2
  <1>11. ASSUME BackendStopped(t) PROVE TaskMove(t)
    <2>1. proc' = proc /\ (call[t].result = "ok" => ~proc[call[t].gen].alive)
      BY <1>11 DEF Native!StopSettle, CallFacts
    <2> QED
      BY <1>11, <2>1 DEF AfterBackendStop
  <1>12. ASSUME StopFailed(t) PROVE TaskMove(t)
    BY <1>12
  <1>13. ASSUME Confirm(t) PROVE TaskMove(t)
    BY <1>13
  <1>14. ASSUME DisposePoller(t) PROVE TaskMove(t)
    BY <1>14
  <1>15. ASSUME DisposeEndpoint(t) PROVE TaskMove(t)
    BY <1>15
  <1>16. ASSUME After(t) PROVE TaskMove(t)
    BY <1>16
  <1> QED
    BY <1>5, <1>6, <1>7, <1>8, <1>9, <1>10, <1>11, <1>12, <1>13, <1>14, <1>15, <1>16 DEF StopStep

-----------------------------------------------------------------------------
(* The state and the process agree, while nothing goes wrong.              *)

LEMMA CleanStays == ASSUME Grows, Clean' PROVE Clean
  BY DEF Grows, Clean, Apart

\* A token that is not cancelled is the current one, and its run is on.
LEMMA TokenIsCurrent ==
    ASSUME TypeOK, TokensAreOrdered, NEW t \in Tasks, TokenIsKnown(t),
           op[t].token # 0, op[t].token \notin cancelled
    PROVE  /\ op[t].token = Token /\ Token # 0 /\ Token \notin cancelled
           /\ snapshot.state \in {"Starting", "Running"}
  <1>1. Token \in Nat
    BY DEF TypeOK, Token, Snapshot
  <1>2. op[t].token \in Nat /\ 1 <= op[t].token /\ op[t].token <= Token
    BY <1>1 DEF TokenIsKnown
  <1>3. op[t].token \in 1 .. Token - 1 \/ op[t].token = Token
    BY <1>1, <1>2
  <1> QED
    BY <1>2, <1>3 DEF TokensAreOrdered

\* A start whose token is not cancelled is the one start of the current run, and
\* before it has inserted its process nothing lives.
LEMMA LaunchIsAlone ==
    ASSUME IInv, Clean, NEW t \in Tasks, Launching(t), op[t].token \notin cancelled
    PROVE  /\ op[t].token = Token /\ Token \notin cancelled /\ snapshot.state = "Starting"
           /\ ~Rechecks(t) => ~Lives
  <1>1. /\ TypeOK /\ TokensAreOrdered /\ TokenIsKnown(t) /\ Clean /\ OneClaim
        /\ StartingIsDead /\ RunningIsTaken
    BY DEF IInv, CleanInv, OpsAreInStep, Clean
  <1>2. op[t].token # 0 /\ Claims(t)
    BY <1>1 DEF TokenIsKnown, Claims
  <1>3. /\ op[t].token = Token /\ Token \notin cancelled
        /\ snapshot.state \in {"Starting", "Running"}
    BY <1>1, <1>2, TokenIsCurrent
  <1>4. snapshot.state = "Starting"
    BY <1>1, <1>2, <1>3 DEF RunningIsTaken
  <1>5. ASSUME Lives PROVE Rechecks(t)
    <2>1. PICK u \in Tasks : Rechecks(u) /\ op[u].token = Token
      BY <1>1, <1>4, <1>5 DEF StartingIsDead
    <2>2. Claims(u)
      BY <2>1 DEF Rechecks, Claims, Launching, StartPc
    <2> QED
      BY <1>1, <1>2, <1>3, <2>1, <2>2 DEF OneClaim
  <1> QED
    BY <1>3, <1>4, <1>5

\* Who ends a run that is not cancelled yet owns it, and nothing of it lives.
LEMMA EndIsLate ==
    ASSUME IInv, Clean, NEW u \in Tasks, Ends(u), op[u].token = Token, Token \notin cancelled,
           snapshot.state \in {"Running", "Starting"}
    PROVE  ~Lives
  <1>1. /\ TypeOK /\ TokensAreOrdered /\ TokenIsKnown(u) /\ KindIsRight(u) /\ OneClaim
        /\ StartingIsDead /\ RunningIsTaken
    BY DEF IInv, CleanInv, OpsAreInStep, Clean
  <1>2. Token # 0
    BY <1>1 DEF TokensAreOrdered
  <1>3. op[u].kind \in {"restart", "switch"}
    BY <1>1, <1>2 DEF Ends, TokenIsKnown, KindIsRight, StopPc, Stopped
  <1>4. Claims(u) /\ ~Rechecks(u)
    BY <1>3 DEF Ends, Claims, Rechecks
  <1>5. snapshot.state = "Starting"
    BY <1>1, <1>4 DEF RunningIsTaken
  <1>6. ASSUME Lives PROVE FALSE
    <2>1. PICK w \in Tasks : Rechecks(w) /\ op[w].token = Token
      BY <1>1, <1>5, <1>6 DEF StartingIsDead
    <2>2. Claims(w)
      BY <2>1 DEF Rechecks, Claims, Launching, StartPc
    <2> QED
      BY <1>1, <1>4, <2>1, <2>2 DEF OneClaim
  <1> QED
    BY <1>6

\* An exit that no later launch has overtaken is news of the recorded process.
LEMMA ExitIsNews ==
    ASSUME IInv, RecordIsLatest, listener # Receiving, ~LaterProcess(listener.gen)
    PROVE  ~Lives
  <1>1. /\ TypeOK /\ ExitsAreOver /\ RecordFacts /\ TableTypes
    BY TypeFacts, TableFacts DEF IInv
  <1>2. listener.gen \in Generation /\ watcher[listener.gen] = "done"
    BY <1>1 DEF TypeOK, ExitsAreOver
  <1>3. ASSUME Lives PROVE FALSE
    <2> DEFINE g == Record.generation
    <2>1. g \in Generation /\ watcher[g] = "waiting" /\ proc[g].alive /\ listener.gen <= g
      BY <1>1, <1>2, <1>3 DEF Lives, RecordFacts, RecordIsLatest, Inserted
    <2>2. g # listener.gen
      BY <1>2, <2>1
    <2>3. g \in listener.gen + 1 .. MaxLaunches
      BY <1>2, <2>1, <2>2, LaunchesAssumption DEF Generation
    <2>4. proc[g] # Native!NoProcess
      BY <2>1 DEF Native!NoProcess
    <2> QED
      BY <2>3, <2>4 DEF LaterProcess
  <1> QED
    BY <1>3

\* How the actor moves while nothing goes wrong.
ActorSafe ==
    \/ ActorStays
    \/ ActorBegins /\ (snapshot.state \in {"Stopped", "Crashed"} \/ ~Lives)
    \/ ActorTurns("Stopping", "Stopped") /\ ~Lives
    \/ /\ ActorTurns("Starting", "Running")
       /\ \E t \in Tasks : Launching(t) /\ op[t].token = Token /\ op'[t] = Resting
    \/ ActorCancels("Stopping") /\ snapshot.state \in {"Running", "Starting"}
    \/ ActorCancels("Crashed") /\ ~Lives

LEMMA ActorIsSafe ==
    ASSUME IInv, [Next]_vars, Clean' PROVE ActorSafe
  <1>1. TypeOK /\ Table!IInv /\ TokensAreOrdered /\ OpsAreInStep
    BY DEF IInv
  <1>2. Grows /\ Clean
    BY <1>1, GrowsStep, CleanStays
  <1>3. UNCHANGED actor => ActorStays
    BY DEF actor, ActorStays, Token
  <1>4. ASSUME NEW t \in Tasks, FinishStart(t) PROVE ActorSafe
    <2>1. /\ op[t].pc = "confirm_running" /\ op'[t] = Resting
          /\ \/ ActorTurns("Starting", "Running") /\ (TokenCancelled(t) => "stale_start" \in faults')
             \/ ActorStays
      BY <1>1, <1>4, StartStepEffects DEF StartEffects, Rests
    <2>2. Launching(t)
      BY <2>1 DEF Launching, StartPc
    <2>3. CASE ActorTurns("Starting", "Running") /\ (TokenCancelled(t) => "stale_start" \in faults')
      <3>1. op[t].token \notin cancelled
        BY <2>3 DEF Clean, TokenCancelled
      <3>2. op[t].token = Token
        BY <1>2, <2>2, <3>1, LaunchIsAlone
      <3> QED
        BY <2>1, <2>2, <2>3, <3>2 DEF ActorSafe
    <2> QED
      BY <2>1, <2>3 DEF ActorSafe
  <1>5. ASSUME NEW t \in Tasks, MarkStartCrashed(t) PROVE ActorSafe
    <2>1. /\ op[t].pc = "mark_crashed" /\ (TokenCancelled(t) => "stale_start" \in faults')
          /\ ActorCancels("Crashed") \/ ActorStays
      BY <1>1, <1>5, StartStepEffects DEF StartEffects
    <2>2. Launching(t) /\ ~Rechecks(t)
      BY <2>1 DEF Launching, StartPc, Rechecks
    <2>3. op[t].token \notin cancelled
      BY <2>1 DEF Clean, TokenCancelled
    <2>4. ~Lives
      BY <1>2, <2>2, <2>3, LaunchIsAlone
    <2> QED
      BY <2>1, <2>4 DEF ActorSafe
  <1>6. ASSUME NEW t \in Tasks, StopFailed(t) PROVE ActorSafe
    <2>1. op[t].pc = "stop_failed" /\ KindIsRight(t)
      BY <1>1, <1>6, StopStepEffects DEF StopEffects, OpsAreInStep
    <2>2. "kill_failed" \in faults
      BY <2>1 DEF KindIsRight
    <2> QED
      BY <1>2, <2>2 DEF Clean
  <1>7. ASSUME NEW t \in Tasks, Confirm(t) PROVE ActorSafe
    <2>1. /\ op[t].pc = "confirm"
          /\ \/ /\ ActorBegins \/ ActorTurns("Stopping", "Stopped")
                /\ snapshot.state = "Stopping"
                /\ op[t].token # Token => "late_confirm" \in faults'
             \/ ActorStays
      BY <1>1, <1>7, StopStepEffects DEF StopEffects, OpsAreInStep
    <2>2. CASE snapshot.state = "Stopping" /\ op[t].token = Token
      <3>1. Token \in cancelled
        BY <1>1, <2>2 DEF TokensAreOrdered
      <3>2. EndsItsRun
        BY <1>2 DEF IInv, CleanInv
      <3>3. ~Lives
        BY <2>1, <2>2, <3>1, <3>2 DEF EndsItsRun, Ends
      <3> QED
        BY <2>1, <3>3 DEF ActorSafe
    <2> QED
      BY <2>1, <2>2 DEF Clean, ActorSafe
  <1>8. ASSUME NEW t \in Tasks, StartRequest(t) \/ Request(t) \/ Queue(t) PROVE ActorSafe
    BY <1>1, <1>8, StartStepEffects, StopStepEffects
    DEF StartEffects, StopEffects, OpsAreInStep, ActorSafe
  <1>9. CASE ListenerTells
    <2>1. listener.tells \in {"confirm_stopped", "mark_crashed"} /\ Tell(listener.tells)
      BY <1>1, <1>9 DEF TypeOK, ListenerTells
    <2>2. \/ ActorBegins \/ ActorTurns("Stopping", "Stopped") \/ ActorCancels("Crashed")
          \/ ActorStays
      BY <1>1, <2>1, ConfirmTold, CrashTold
    <2>3. ~LaterProcess(listener.gen)
      BY <1>9 DEF ListenerTells, Clean
    <2>4. ~Lives
      BY <1>2, <1>9, <2>3, ExitIsNews DEF ListenerTells, IInv, CleanInv
    <2> QED
      BY <2>2, <2>4 DEF ActorSafe
  <1>10. ASSUME UNCHANGED actor PROVE ActorSafe
    BY <1>3, <1>10 DEF ActorSafe
  <1>11. ASSUME NEW t \in Tasks, TaskStep(t) PROVE ActorSafe
    BY <1>4, <1>5, <1>6, <1>7, <1>8, <1>10, <1>11, ActorFrame DEF TaskStep, StartStep, StopStep
  <1>12. ASSUME NEW t \in Tasks, NEW kind \in Operations, Call(t, kind) PROVE UNCHANGED actor
    BY <1>12 DEF Call
  <1>13. ASSUME NEW g \in Generation, ProcessExits(g) \/ PublishWebui(g) \/ WatcherStep(g)
         PROVE  UNCHANGED actor
    BY <1>13 DEF ProcessExits, PublishWebui, WatcherStep, WatcherSeesExit, PublishExit
  <1>14. ListenerTakes \/ LoginStep \/ UNCHANGED vars => UNCHANGED actor
    BY DEF ListenerTakes, LoginStep, LoginTakesWebui, LoginSpawnsPoller, LoginTakesExit, vars
  <1> QED
    BY <1>9, <1>10, <1>11, <1>12, <1>13, <1>14 DEF Next, ListenerStep

\* What a step does to each task: nothing, one of its steps, or its beginning.
Known(t) ==
    \/ op'[t] = op[t] /\ call'[t] = call[t]
    \/ TaskMove(t) /\ ClaimMove(t)
    \/ op[t] = Resting /\ op'[t].pc \in {"start", "request", "look"}

LEMMA NextKnown ==
    ASSUME TypeOK, Table!IInv, TokensAreOrdered, OpsAreInStep, [Next]_vars
    PROVE  \A t \in Tasks : Known(t)
  <1>1. Grows
    BY GrowsStep
  <1>2. ASSUME op' = op, call' = call PROVE \A t \in Tasks : Known(t)
    BY <1>2 DEF Known
  <1>3. ASSUME NEW t \in Tasks, TaskStep(t) PROVE \A u \in Tasks : Known(u)
    <2>1. TaskMove(t) /\ ClaimMove(t)
      BY <1>1, <1>3, StartMove, StopMove, StartClaims, StopClaims DEF TaskStep
    <2>2. Others(t)
      BY <1>3, OthersStay
    <2> QED
      BY <2>1, <2>2 DEF Known, Others
  <1>4. ASSUME NEW t \in Tasks, NEW kind \in Operations, Call(t, kind)
        PROVE  \A u \in Tasks : Known(u)
    <2>1. call' = call
      BY <1>4, CallStays DEF deployment
    <2>2. op[t] = Resting /\ op'[t].pc \in {"start", "request", "look"}
      BY <1>4, CallStays
    <2>3. \A u \in Tasks : u # t => op'[u] = op[u]
      BY <1>4, CallStays
    <2> QED
      BY <2>1, <2>2, <2>3 DEF Known
  <1> QED
    BY <1>2, <1>3, <1>4, EnvironmentStays DEF Next

LEMMA NextShrinks ==
    ASSUME TypeOK, Table!IInv, [Next]_vars
    PROVE  Shrinks \/ \E t \in Tasks : Insert(t)
  <1>1. TableShrinks => Shrinks
    BY ShrinksStep
  <1> USE DEF TableShrinks
  <1>2. ASSUME NEW t \in Tasks, NEW kind \in Operations, Call(t, kind) PROVE TableShrinks
    BY <1>2 DEF Call
  <1>3. ASSUME NEW t \in Tasks, StartStep(t), ~Insert(t) PROVE TableShrinks
    BY <1>3 DEF StartStep, StartRequest, StartRefused, ReadToken, Plan, CheckCancel, Spawn,
                Recheck, FinishStart, StartError, MarkStartCrashed
  <1>4. ASSUME NEW t \in Tasks, StopStep(t) PROVE TableShrinks
    BY <1>4 DEF StopStep, Look, Request, Queue, Status, BackendStop, BackendKills,
                BackendStopped, StopFailed, Confirm, DisposePoller, DisposeEndpoint, After
  <1>5. ASSUME NEW g \in Generation, ProcessExits(g) \/ PublishWebui(g) \/ WatcherStep(g)
        PROVE  TableShrinks
    BY <1>5 DEF ProcessExits, PublishWebui, WatcherStep, WatcherSeesExit, PublishExit
  <1>6. ASSUME ListenerStep \/ LoginStep PROVE TableShrinks
    BY <1>6 DEF ListenerStep, ListenerTakes, ListenerTells,
                LoginStep, LoginTakesWebui, LoginSpawnsPoller, LoginTakesExit
  <1>7. ASSUME UNCHANGED vars PROVE TableShrinks
    BY <1>7 DEF vars
  <1> HIDE DEF TableShrinks
  <1> QED
    BY <1>1, <1>2, <1>3, <1>4, <1>5, <1>6, <1>7 DEF Next, TaskStep

\* What lives lived before, where only an exit or a stop could touch it.
LEMMA LivesOn ==
    ASSUME Table!IInv, Shrinks, Lives'
    PROVE  Lives /\ Record'.generation = Record.generation
  BY TableFacts DEF Lives, Shrinks, RecordFacts, Inserted

LEMMA ShrinksKeepsClean ==
    ASSUME IInv, [Next]_vars, Clean', Shrinks PROVE CleanInv'
  <1>1. TypeOK /\ Table!IInv /\ TokensAreOrdered /\ OpsAreInStep
    BY DEF IInv
  <1>2. Grows /\ ActorSafe /\ Clean
    BY <1>1, GrowsStep, ActorIsSafe, CleanStays
  <1>3. CleanInv /\ OneClaim
    BY <1>2 DEF IInv, Clean
  <1>4. \A t \in Tasks : Known(t)
    BY <1>1, NextKnown
  <1>5. Resting.pc = "rest" /\ \A t \in Tasks : op[t].token \in Nat
    BY <1>1, OpFacts DEF Resting
  <1>6. /\ RecordFacts /\ TableTypes
        /\ Lives' => Lives /\ Record'.generation = Record.generation
    BY <1>1, LivesOn, TableFacts, TypeFacts
  <1>7. \A g \in Generation : Inserted(g)' <=> Inserted(g)
    BY DEF Shrinks
  <1>8. RecordIsLatest'
    BY <1>3, <1>7 DEF CleanInv, RecordIsLatest, Shrinks
  <1>9. InsertIsLatest'
    <2>1. SUFFICES ASSUME NEW t \in Tasks, op'[t].pc = "insert", op'[t].token \notin cancelled'
                   PROVE  \A h \in Generation : Inserted(h)' => h <= call'[t].gen
      BY DEF InsertIsLatest
    <2>2. CASE op'[t] = op[t] /\ call'[t] = call[t]
      BY <1>2, <1>3, <1>7, <2>1, <2>2 DEF CleanInv, InsertIsLatest, Grows
    <2> QED
      BY <1>4, <2>1, <2>2 DEF Known, TaskMove, InsertMove
  <1>10. StoppedIsDead'
    BY <1>2, <1>3, <1>6
    DEF CleanInv, StoppedIsDead, ActorSafe, ActorStays, ActorBegins, ActorTurns, ActorCancels
  <1>11. StartingIsDead'
    <2>1. SUFFICES ASSUME snapshot'.state = "Starting", Lives'
                   PROVE  \E t \in Tasks : Rechecks(t)' /\ op'[t].token = Token'
      BY DEF StartingIsDead
    <2>2. ActorStays
      BY <1>2, <1>3, <1>6, <2>1
      DEF CleanInv, StoppedIsDead, ActorSafe, ActorBegins, ActorTurns, ActorCancels
    <2>3. PICK t \in Tasks : Rechecks(t) /\ op[t].token = Token
      BY <1>3, <1>6, <2>1, <2>2 DEF CleanInv, StartingIsDead, ActorStays
    <2>4. Token' = Token /\ op[t] # Resting
      BY <1>5, <2>2, <2>3 DEF ActorStays, Rechecks
    <2>5. Rechecks(t)' /\ op'[t].token = op[t].token
      BY <1>4, <2>1, <2>3, <2>4 DEF Known, TaskMove, RecheckMove, Rechecks
    <2> QED
      BY <2>3, <2>4, <2>5
  <1>12. RunningIsTaken'
    <2>1. SUFFICES ASSUME snapshot'.state = "Running", NEW u \in Tasks, Claims(u)',
                          op'[u].token = Token'
                   PROVE  FALSE
      BY DEF RunningIsTaken
    <2>2. \/ ActorStays
          \/ /\ ActorTurns("Starting", "Running")
             /\ \E t \in Tasks : Launching(t) /\ op[t].token = Token /\ op'[t] = Resting
      BY <1>2, <2>1 DEF ActorSafe, ActorBegins, ActorTurns, ActorCancels
    <2>3. Token' = Token /\ snapshot.state \in {"Starting", "Running"}
          /\ (snapshot.state = "Starting" => ActorTurns("Starting", "Running"))
      BY <2>1, <2>2 DEF ActorStays, ActorTurns
    <2>4. Claims(u) /\ op'[u].token = op[u].token
      <3>1. CASE op'[u] = op[u]
        BY <1>2, <2>1, <3>1 DEF Claims, Launching, TakesOver, Stopped, Grows
      <3>2. CASE ClaimMove(u)
        <4>1. ~ActorBegins /\ (snapshot.state = "Starting" => ~ActorStays)
              /\ "other_token" \notin faults'
          BY <2>1, <2>3 DEF ActorBegins, ActorStays, ActorTurns, Clean, Apart
        <4> QED
          BY <2>1, <3>2, <4>1 DEF ClaimMove
      <3>3. ~(op'[u].pc \in {"start", "request", "look"})
        BY <2>1 DEF Claims, Launching, TakesOver, Stopped, StartPc
      <3> QED
        BY <1>4, <3>1, <3>2, <3>3 DEF Known
    <2>5. CASE snapshot.state = "Running"
      BY <1>3, <2>1, <2>3, <2>4, <2>5 DEF CleanInv, RunningIsTaken
    <2>6. CASE snapshot.state = "Starting"
      <3>1. PICK t \in Tasks : Launching(t) /\ op[t].token = Token /\ op'[t] = Resting
        BY <2>1, <2>2, <2>6 DEF ActorStays
      <3>2. t = u
        BY <1>3, <2>1, <2>3, <2>4, <3>1 DEF OneClaim, Claims
      <3>3. Claims(t)' /\ op'[t].pc = "rest" /\ op'[t].kind = "none"
        BY <1>5, <2>1, <3>1, <3>2 DEF Resting
      <3> QED
        BY <3>3 DEF Claims, Launching, TakesOver, Stopped, StartPc
    <2> QED
      BY <2>3, <2>5, <2>6
  <1>13. EndsItsRun'
    <2>1. SUFFICES ASSUME NEW u \in Tasks, Ends(u)', op'[u].token = Token', Token' \in cancelled',
                          Lives'
                   PROVE  op'[u].pc = "await" /\ call'[u].gen = Record'.generation
      BY DEF EndsItsRun
    <2>2. Token' = Token
      <3>1. ~ActorBegins
        BY <1>1, <1>2, <2>1 DEF ActorBegins, TokensAreOrdered, Grows
      <3> QED
        BY <1>2, <3>1 DEF ActorSafe, ActorStays, ActorTurns, ActorCancels
    <2>3. Lives /\ Record'.generation = Record.generation
      BY <1>6, <2>1
    <2>4. \/ Token \in cancelled
          \/ Token \notin cancelled /\ snapshot.state \in {"Running", "Starting"}
      BY <1>2, <2>1, <2>2, <2>3 DEF ActorSafe, ActorBegins, ActorStays, ActorTurns, ActorCancels
    <2>5. ASSUME Ends(u), op[u].token = Token
          PROVE  op[u].pc = "await" /\ call[u].gen = Record.generation
      BY <1>2, <1>3, <2>3, <2>4, <2>5, EndIsLate DEF CleanInv, EndsItsRun
    <2>6. CASE op'[u] = op[u] /\ call'[u] = call[u]
      BY <2>1, <2>2, <2>3, <2>5, <2>6 DEF Ends
    <2>7. CASE TaskMove(u)
      BY <2>1, <2>2, <2>3, <2>5, <2>7 DEF TaskMove, EndMove, Lives
    <2>8. ~(op'[u].pc \in {"start", "request", "look"})
      BY <2>1 DEF Ends
    <2> QED
      BY <1>4, <2>6, <2>7, <2>8 DEF Known
  <1>14. DroppedAreDead'
    BY <1>3, <1>6, <1>7 DEF CleanInv, DroppedAreDead, Shrinks, TableTypes
  <1> QED
    BY <1>8, <1>9, <1>10, <1>11, <1>12, <1>13, <1>14 DEF CleanInv

\* What an insert leaves in the table.
LEMMA InsertFacts ==
    ASSUME TypeOK, Table!IInv, NEW t \in Tasks, Insert(t)
    PROVE  LET g == call[t].gen
           IN /\ op[t].pc = "insert" /\ Goes(t, "recheck")
              /\ g \in Generation /\ watcher[g] = "none"
              /\ Record'.generation = g
              /\ watcher' = [watcher EXCEPT ![g] = "waiting"]
              /\ \A h \in Generation : Inserted(h)' <=> Inserted(h) \/ h = g
              /\ proc' = proc /\ published' = published
              /\ dropped' = IF Record = Native!NoRecord THEN dropped
                            ELSE dropped \cup {Record.generation}
  <1>1. op[t].pc = "insert" /\ Goes(t, "recheck") /\ Native!LaunchInsert(t)
    BY StartStepEffects DEF StartEffects
  <1>2. RecordFacts /\ TableTypes /\ CallFacts(t)
    BY TableFacts, TypeFacts
  <1> DEFINE g == call[t].gen
  <1>3. g \in Generation /\ watcher[g] = "none" /\ call[t].bot = Bot
    BY <1>1, <1>2 DEF Native!LaunchInsert, CallFacts
  <1>4. processes' = [processes EXCEPT ![Bot] = [pid |-> call[t].pid, generation |-> g,
                                                 stop_requested |-> FALSE]]
    BY <1>1, <1>3 DEF Native!LaunchInsert
  <1>5. Record'.generation = g
    BY <1>2, <1>4 DEF Record, TableTypes
  <1>6. watcher' = [watcher EXCEPT ![g] = "waiting"] /\ proc' = proc /\ published' = published
    BY <1>1 DEF Native!LaunchInsert
  <1>7. \A h \in Generation : Inserted(h)' <=> Inserted(h) \/ h = g
    BY <1>2, <1>3, <1>6 DEF Inserted, TableTypes
  <1>8. dropped' = IF Record = Native!NoRecord THEN dropped
                   ELSE dropped \cup {Record.generation}
    BY <1>1, <1>3 DEF Native!LaunchInsert, Record
  <1> QED
    BY <1>1, <1>3, <1>5, <1>6, <1>7, <1>8

LEMMA InsertKeepsClean ==
    ASSUME IInv, [Next]_vars, Clean', NEW t \in Tasks, Insert(t) PROVE CleanInv'
  <1>1. TypeOK /\ Table!IInv /\ TokensAreOrdered /\ OpsAreInStep
    BY DEF IInv
  <1>2. Grows /\ Clean
    BY <1>1, GrowsStep, CleanStays
  <1>3. CleanInv /\ OneClaim
    BY <1>2 DEF IInv, Clean
  <1>4. op[t].pc = "insert" /\ Goes(t, "recheck") /\ Native!LaunchInsert(t)
    BY <1>1, StartStepEffects DEF StartEffects
  <1>5. RecordFacts /\ TableTypes /\ CallFacts(t)
    BY <1>1, TableFacts, TypeFacts
  <1>6. ActorStays /\ snapshot' = snapshot /\ cancelled' = cancelled
    BY ActorFrame DEF actor, ActorStays, Token
  <1>7. op[t].token \notin cancelled
    BY DEF Insert, Stale, TokenCancelled, Clean
  <1>8. Launching(t) /\ ~Rechecks(t) /\ Claims(t)
    BY <1>4 DEF Launching, Rechecks, StartPc, Claims
  <1>9. op[t].token = Token /\ Token \notin cancelled /\ snapshot.state = "Starting" /\ ~Lives
    BY <1>2, <1>7, <1>8, LaunchIsAlone
  <1> DEFINE g == call[t].gen
  <1>10. /\ g \in Generation /\ watcher[g] = "none" /\ call[t].bot = Bot
         /\ \A h \in Generation : Inserted(h) => h <= g
    BY <1>3, <1>4, <1>5, <1>7 DEF Native!LaunchInsert, CallFacts, CleanInv, InsertIsLatest
  <1>11. /\ Record'.generation = g
         /\ \A h \in Generation : Inserted(h)' <=> Inserted(h) \/ h = g
         /\ proc' = proc
         /\ dropped' = IF Record = Native!NoRecord THEN dropped
                       ELSE dropped \cup {Record.generation}
    BY <1>1, InsertFacts
  <1>12. Others(t) /\ op'[t].pc = "recheck" /\ op'[t].token = op[t].token
    BY <1>1, <1>4, OthersStay DEF TaskStep, StartStep, Goes, Moves
  <1>13. g \in Nat
    BY <1>5, <1>10 DEF TableTypes
  <1> HIDE DEF g
  <1>14. RecordIsLatest'
    BY <1>10, <1>11, <1>13 DEF RecordIsLatest
  <1>15. InsertIsLatest'
    <2>1. ASSUME NEW u \in Tasks, op'[u].pc = "insert", op'[u].token \notin cancelled'
          PROVE  FALSE
      <3>1. u # t /\ op'[u] = op[u] /\ op[u].pc = "insert" /\ op[u].token \notin cancelled
        BY <1>6, <1>12, <2>1 DEF Others
      <3>2. Launching(u) /\ Claims(u)
        BY <3>1 DEF Launching, Claims, StartPc
      <3>3. op[u].token = Token
        BY <1>2, <3>1, <3>2, LaunchIsAlone
      <3> QED
        BY <1>3, <1>8, <1>9, <3>1, <3>2, <3>3 DEF OneClaim
    <2> QED
      BY <2>1 DEF InsertIsLatest
  <1>16. StoppedIsDead'
    BY <1>6, <1>9 DEF StoppedIsDead
  <1>17. StartingIsDead'
    BY <1>6, <1>9, <1>12 DEF StartingIsDead, Rechecks, ActorStays
  <1>18. RunningIsTaken'
    BY <1>6, <1>9 DEF RunningIsTaken
  <1>19. EndsItsRun'
    BY <1>6, <1>9 DEF EndsItsRun, ActorStays
  <1>20. DroppedAreDead'
    <2>1. Record # Native!NoRecord =>
             /\ Record.generation \in Generation /\ Inserted(Record.generation)
             /\ ~proc[Record.generation].alive
      BY <1>5, <1>9 DEF RecordFacts, Inserted, Lives
    <2> QED
      BY <1>3, <1>5, <1>11, <2>1 DEF CleanInv, DroppedAreDead, TableTypes
  <1> QED
    BY <1>14, <1>15, <1>16, <1>17, <1>18, <1>19, <1>20 DEF CleanInv

-----------------------------------------------------------------------------
LEMMA InitIInv == Init => IInv
  <1> SUFFICES ASSUME Init PROVE IInv
    OBVIOUS
  <1>1. Table!IInv
    BY InitTable
  <1>2. /\ snapshot = NewSnapshot /\ cancelled = {} /\ op = [t \in Tasks |-> Resting]
        /\ exitBox = <<>> /\ loginExitBox = <<>> /\ webuiBox = <<>> /\ listener = Receiving
        /\ loginTask = 0 /\ poller = 0 /\ endpoint = 0 /\ issued = 0 /\ faults = {}
    BY DEF Init
  <1>3. snapshot \in Snapshot /\ snapshot.state = "Stopped" /\ Token = 0
    BY <1>2 DEF NewSnapshot, Snapshot, State, Token
  <1>4. /\ processes[Bot] = Native!NoRecord /\ dropped = {}
        /\ \A t \in Tasks : call[t].pc = "idle"
    BY DEF Init, Native!Init, Native!IdleCall
  <1>5. TypeOK
    <2>1. Native!TypeOK
      BY <1>1, SameTypes DEF Table!IInv
    <2> QED
      BY <1>2, <1>3, <2>1, OpsAssumption DEF TypeOK, Fault
  <1>6. TokensAreOrdered
    BY <1>2, <1>3 DEF TokensAreOrdered
  <1>7. \A t \in Tasks : op[t] = Resting /\ op[t].pc = "rest" /\ op[t].kind = "none" /\ op[t].token = 0
    BY <1>2 DEF Resting
  <1>8. OpsAreInStep
    <2>1. ASSUME NEW t \in Tasks PROVE TokenIsKnown(t)
      BY <1>3, <1>7 DEF TokenIsKnown, Launching, TakesOver, Restarts, Stopped, StartPc
    <2>2. ASSUME NEW t \in Tasks PROVE KindIsRight(t)
      BY <1>4, <1>7 DEF KindIsRight, Stopped, StopPc
    <2> QED
      BY <1>7, <2>1, <2>2 DEF OpsAreInStep, RestartIsAlone
  <1>9. ExitsAreOver
    BY <1>2 DEF ExitsAreOver
  <1>10. \A t \in Tasks : ~Claims(t) /\ ~Ends(t) /\ op[t].pc # "insert"
    BY <1>7 DEF Claims, Launching, TakesOver, Stopped, StartPc, Ends
  <1>11. ~Lives /\ Record = Native!NoRecord
    BY <1>4 DEF Lives, Record
  <1>12. CleanInv
    BY <1>3, <1>4, <1>10, <1>11 DEF CleanInv, RecordIsLatest, InsertIsLatest, StoppedIsDead,
       StartingIsDead, RunningIsTaken, EndsItsRun, DroppedAreDead
  <1> QED
    BY <1>1, <1>5, <1>6, <1>8, <1>9, <1>10, <1>12 DEF IInv, OneClaim

LEMMA NextIInv == IInv /\ [Next]_vars => IInv'
  <1> SUFFICES ASSUME IInv, [Next]_vars PROVE IInv'
    OBVIOUS
  <1>1. TypeOK /\ Table!IInv /\ TokensAreOrdered /\ OpsAreInStep /\ ExitsAreOver
    BY DEF IInv
  <1>2. TypeOK' /\ Table!IInv'
    BY <1>1, NextTypeOK, NextTable
  <1>3. TokensAreOrdered'
    BY <1>1, ActorStep, NextTokensAreOrdered
  <1>4. OpsAreInStep' /\ ExitsAreOver'
    BY <1>1, NextOpsAreInStep, NextExitsAreOver
  <1>5. Apart' => OneClaim'
    BY NextOneClaim
  <1>6. Clean' => CleanInv'
    BY <1>1, NextShrinks, ShrinksKeepsClean, InsertKeepsClean
  <1> QED
    BY <1>2, <1>3, <1>4, <1>5, <1>6 DEF IInv

LEMMA Invariance == Spec => []IInv
  BY InitIInv, NextIInv, PTL DEF Spec

-----------------------------------------------------------------------------
(* Who brings an unsettled bot to rest: Starting and Stopping have each an   *)
(* owner whose steps lead out of them, a process that has gone has somebody *)
(* who will notice, and a process that must go somebody who will kill it.   *)

\* A restart gave up, and nobody minds the bot any more; a restart is queued.
Aborted == "restart_aborted" \in faults
Queued == snapshot.state = "Stopping" /\ snapshot.pending_restart

\* A stop_bot, and a restart or a switch, on its way to confirm_stopped.
Stops(t) ==
    /\ op[t].kind = "stop"
    /\ \/ op[t].pc = "status" /\ op[t].seen = "Stopping"
       \/ op[t].pc \in {"backend", "await", "stop_failed", "confirm"}
Restarting(t) ==
    /\ op[t].kind \in {"restart", "switch"}
    /\ op[t].pc \in {"backend", "await", "dispose", "endpoint", "confirm"}

\* Who will bring a Starting bot up, or find out that it cannot.  A switch that
\* finds its own restart already Starting does not.
Restarted(t) == op[t].kind = "restart" /\ op[t].pc = "after"
Strays(t) == op[t].kind = "switch" /\ op[t].pc = "start"
Brings(t) ==
    \/ op[t].pc = "read_token"
    \/ Launching(t) /\ op[t].token = Token
    \/ TakesOver(t) \/ Restarting(t) \/ Restarted(t)

\* Who has yet to look at the recorded process before it confirms the run.
WillLook(t) ==
    \/ op[t].pc = "read_token"
    \/ Launching(t) /\ op[t].pc # "confirm_running" /\ op[t].token = Token
    \/ TakesOver(t)

\* Who will kill the recorded process.
Kills(t) == \/ op[t].pc \in {"status", "backend"}
            \/ op[t].pc = "await" /\ call[t].gen = Record.generation

-----------------------------------------------------------------------------
(* What a task's step does to its part in that.                            *)

\* A task keeps to the steps of its kind; only a failed kill makes it give up.
Steers(t) ==
    /\ op'[t].pc = "queue" =>
          op[t].pc = "look" /\ op[t].kind # "switch" /\ snapshot.state = "Stopping"
    /\ call'[t].pc \in {"kill", "settle"} =>
          op'[t].pc = "await" \/ (call[t].pc \in {"kill", "settle"} /\ op[t].pc # "await")
    /\ Aborted' => Aborted \/ "kill_failed" \in faults'
    /\ op'[t] = Resting \/ (op'[t].kind = op[t].kind /\ op'[t].pc # "look")

\* Into Stopping, and on while it lasts.
StopsMove(t) ==
    /\ (Stops(t) /\ snapshot.state \in {"Starting", "Running", "Stopping"}) =>
          \/ Stops(t)'
          \/ snapshot'.state \notin {snapshot.state, "Running"}
          \/ snapshot.state # "Stopping" /\ "stop_refused" \in faults'
    /\ Restarting(t) => \/ Restarting(t)' \/ Aborted'
                        \/ snapshot'.state # "Stopping" /\ (Restarted(t) \/ Strays(t))'
    /\ (snapshot'.state = "Stopping" /\ snapshot.state # "Stopping") =>
          op[t].pc = "queue" \/ ((Stops(t) \/ Restarting(t)) /\ op[t].pc \in {"status", "backend"})'
    /\ Queued' /\ ~Queued => op[t].pc = "queue" \/ Restarting(t)'

\* Into Starting, and on while it lasts.
BringsMove(t) ==
    /\ ActorBegins => /\ (Brings(t) \/ Strays(t))' \/ op[t].pc = "queue"
                      /\ WillLook(t)' \/ Queued \/ op[t].pc = "queue" \/ op[t].kind \in {"restart", "switch"}
    /\ (/\ Brings(t) \/ Strays(t)
        /\ snapshot.state = "Starting" /\ ActorStays /\ Token \notin cancelled) =>
           (Brings(t) \/ Strays(t))' \/ Aborted' \/ "switch_stranded" \in faults'
    /\ (/\ WillLook(t) /\ snapshot.state \in {"Starting", "Running"} /\ Token \notin cancelled
        /\ ActorStays) =>
           WillLook(t)' \/ Observed' \/ op[t].kind = "switch"
    /\ Launching(t)' \/ TakesOver(t)' =>
          Launching(t) \/ TakesOver(t) \/ snapshot'.state = "Starting"

\* Into Running.
RunsMove(t) ==
    /\ op'[t].pc = "confirm_running" => Observed' \/ op[t].kind = "switch"
    /\ (snapshot'.state = "Running" /\ snapshot.state # "Running") =>
          op[t].pc = "confirm_running" /\ op'[t] = Resting /\ snapshot.state = "Starting"
    /\ (op'[t].kind = "restart" /\ (Restarting(t) \/ Restarted(t))') =>
          Restarting(t) \/ Restarted(t) \/ snapshot'.state # "Running"

\* Who is about to kill the recorded process kills it, or the kill fails.
KillsMove(t) == Kills(t) => Kills(t)' \/ ~Lives' \/ "kill_failed" \in faults'

SettleMove(t) == Steers(t) /\ StopsMove(t) /\ BringsMove(t) /\ RunsMove(t) /\ KillsMove(t)

\* What the actor does with a queued restart, whatever it is told.
LEMMA PendingTold ==
    ASSUME TypeOK, NEW cmd \in {"request_start", "confirm_running", "request_stop",
                                "confirm_stopped", "mark_crashed"}, Tell(cmd)
    PROVE  /\ Queued' => Queued
           /\ cmd = "confirm_stopped" /\ ActorBegins => Queued
           /\ cmd # "request_stop" /\ snapshot'.state = "Stopping" => snapshot.state = "Stopping"
           /\ cmd = "confirm_stopped" => snapshot'.state # "Stopping"
  <1>1. snapshot \in Snapshot /\ cancelled \in SUBSET Nat /\ Token \in Nat
    BY DEF TypeOK, Snapshot, Token
  <1>2. Token + 1 # Token
    BY <1>1
  <1>3. CASE cmd = "request_start"
    BY <1>1, <1>3, BeginRunFacts DEF Tell, Handle, RequestStart, Advanced, Unmoved, Refused, Queued
  <1>4. CASE cmd = "confirm_running"
    <2> DEFINE s == Advance(snapshot, "Running", snapshot.pending_restart, FALSE)
    <2>1. s.state = "Running"
      BY <1>1 DEF Advance, Snapshot
    <2> HIDE DEF s
    <2>2. snapshot' \in {s, snapshot}
      BY <1>4 DEF Tell, Handle, ConfirmRunning, Advanced, Unmoved, Refused, s
    <2> QED
      BY <1>4, <2>1, <2>2 DEF Queued
  <1>5. CASE cmd = "request_stop"
    <2> DEFINE s == Advance(snapshot, "Stopping", FALSE, snapshot.last_error)
    <2>1. s.pending_restart = FALSE
      BY <1>1 DEF Advance, Snapshot
    <2> HIDE DEF s
    <2>2. snapshot' \in {s, snapshot}
      BY <1>5 DEF Tell, Handle, RequestStop, Advanced, Unmoved, s
    <2> QED
      BY <1>5, <2>1, <2>2 DEF Queued
  <1>6. CASE cmd = "confirm_stopped"
    <2> DEFINE s == Advance(snapshot, "Stopped", FALSE, FALSE)
    <2>1. s.state = "Stopped" /\ s.token_generation = Token
      BY <1>1 DEF Advance, Snapshot, Token
    <2> HIDE DEF s
    <2>2. \/ Queued
          \/ snapshot.state = "Stopping" /\ snapshot' = s
          \/ snapshot.state # "Stopping" /\ snapshot' = snapshot
      BY <1>6 DEF Tell, Handle, ConfirmStopped, Advanced, Unmoved, Refused, s, Queued
    <2>3. snapshot'.state # "Stopping"
      BY <1>6, ConfirmTold DEF ActorStays, ActorBegins, ActorTurns
    <2> QED
      BY <1>2, <1>6, <2>1, <2>2, <2>3 DEF Queued, ActorBegins, Token
  <1>7. CASE cmd = "mark_crashed"
    BY <1>1, <1>7, CrashTold DEF Queued, ActorStays, ActorCancels, Tell, Handle, MarkCrashed,
       Refused, Advanced
  <1> QED
    BY <1>3, <1>4, <1>5, <1>6, <1>7

LEMMA StoppingTakesRestart ==
    snapshot.state = "Stopping" => ResultOf("request_restart") = "unchanged"
  BY DEF ResultOf, Handle, RequestRestart, Unmoved

\* What the steps of the pipeline do besides.
StartNotes(t) ==
    /\ Queued' => Queued
    /\ Aborted' => Aborted
    /\ call'[t].pc \in {"kill", "settle"} => call[t].pc \in {"kill", "settle"}
    /\ (StartRequest(t) \/ StartRefused(t)) /\ op[t].kind = "switch" /\ snapshot.state = "Starting"
          => "switch_stranded" \in faults'
    /\ CheckCancel(t) \/ StartError(t) => ~Rests(t) \/ op[t].token \in cancelled
    /\ Spawn(t) => ~Goes(t, "confirm_running") \/ op[t].kind = "switch"
    /\ Recheck(t) => (Observed' <=> Observed)
    /\ ActorStays \/ StartRequest(t) \/ FinishStart(t) \/ MarkStartCrashed(t)

LEMMA StartStepNotes ==
    ASSUME TypeOK, Table!IInv, NEW t \in Tasks, StartStep(t) PROVE StartNotes(t)
  <1>1. Queued' => Queued
    <2>1. UNCHANGED actor => (Queued' => Queued)
      BY DEF actor, Queued
    <2>2. StartRequest(t) => Tell("request_start")
      BY DEF StartRequest
    <2>3. FinishStart(t) => Tell("confirm_running")
      BY DEF FinishStart
    <2>4. MarkStartCrashed(t) => Tell("mark_crashed")
      BY DEF MarkStartCrashed
    <2> QED
      BY <2>1, <2>2, <2>3, <2>4, ActorFrame, PendingTold DEF StartStep
  <1>2. Aborted' => Aborted
    BY DEF StartStep, Aborted, StartRequest, StartRefused, ReadToken, Plan, CheckCancel, Spawn,
           Insert, Recheck, FinishStart, StartError, MarkStartCrashed, Stranded, Stale
  <1>3. call'[t].pc \in {"kill", "settle"} => call[t].pc \in {"kill", "settle"}
    <2>1. DOMAIN call = Tasks /\ \A r : Native!IdleCall(r).pc = "idle"
      BY TypeFacts DEF TableTypes, Native!IdleCall
    <2>2. ASSUME UNCHANGED deployment PROVE call' = call
      BY <2>2 DEF deployment
    <2>3. ASSUME NEW p \in Pids, Native!LaunchSpawn(t, Bot, p) PROVE call'[t].pc = "insert"
      BY <2>1, <2>3 DEF Native!LaunchSpawn
    <2>4. ASSUME Native!LaunchFails(t) \/ Native!LaunchInsert(t) PROVE call'[t].pc = "idle"
      BY <2>1, <2>4 DEF Native!LaunchFails, Native!LaunchInsert
    <2>5. Spawn(t) \/ Insert(t) =>
             \/ \E p \in Pids : Native!LaunchSpawn(t, Bot, p)
             \/ Native!LaunchFails(t) \/ Native!LaunchInsert(t) \/ UNCHANGED deployment
      BY DEF Spawn, Insert
    <2> QED
      BY <2>2, <2>3, <2>4, <2>5, DeploymentFrame DEF StartStep
  <1>4. (StartRequest(t) \/ StartRefused(t)) /\ op[t].kind = "switch" /\ snapshot.state = "Starting"
          => "switch_stranded" \in faults'
    BY DEF StartRequest, StartRefused, Stranded
  <1>5. CheckCancel(t) \/ StartError(t) => ~Rests(t) \/ op[t].token \in cancelled
    <2>1. ASSUME NEW pc \in StartPc \cup StopPc, op[t].pc \in StartPc, Goto(t, pc) PROVE ~Rests(t)
      <3>1. op'[t].pc = pc /\ pc # "rest" /\ Resting.pc = "rest"
        BY <2>1, GoesFacts, OpFacts DEF Goes, Moves, StartPc, StopPc
      <3> QED
        BY <3>1 DEF Rests
    <2>2. {"check_cancel", "spawn", "mark_crashed", "start_error"} \subseteq StartPc
      BY DEF StartPc
    <2> QED
      BY <2>1, <2>2 DEF CheckCancel, StartError, At, TokenCancelled, GotoOrReturn
  <1>6. Spawn(t) => ~Goes(t, "confirm_running") \/ op[t].kind = "switch"
    <2>1. ASSUME NEW pc \in {"insert", "start_error"}, op[t].pc = "spawn", Goto(t, pc)
          PROVE  ~Goes(t, "confirm_running")
      <3>1. pc \in StartPc \cup StopPc /\ op[t].pc \in StartPc \cup StopPc
        BY <2>1 DEF StartPc, StopPc
      <3>2. op'[t].pc = pc
        BY <2>1, <3>1, GoesFacts DEF Goes, Moves
      <3> QED
        BY <2>1, <3>2 DEF Goes, Moves
    <2> QED
      BY <2>1 DEF Spawn, At
  <1>7. Recheck(t) => (Observed' <=> Observed)
    BY DeploymentFrame DEF deployment, Observed
  <1>8. ActorStays \/ StartRequest(t) \/ FinishStart(t) \/ MarkStartCrashed(t)
    BY ActorFrame DEF StartStep, actor, ActorStays, Token
  <1> QED
    BY <1>1, <1>2, <1>3, <1>4, <1>5, <1>6, <1>7, <1>8 DEF StartNotes

\* What the steps of a stop, a restart and a switch do besides.
StopNotes(t) ==
    /\ Queued' /\ ~Queued => Queue(t) \/ (Request(t) /\ op[t].kind # "stop")
    /\ Aborted' => Aborted \/ "kill_failed" \in faults'
    /\ call'[t].pc \in {"kill", "settle"} =>
          op'[t].pc = "await" \/ (call[t].pc \in {"kill", "settle"} /\ op[t].pc # "await")
    /\ Look(t) => ~Goes(t, "queue") \/ snapshot.state = "Stopping"
    /\ Request(t) => ~Rests(t) \/ snapshot.state # "Stopping"
    /\ BackendStopped(t) => ~Rests(t) \/ Aborted'
    /\ Confirm(t) => snapshot'.state # "Stopping" /\ (ActorBegins => Queued)
    /\ After(t) /\ Rests(t) => IF op[t].kind = "stop" THEN op[t].seen # "Starting"
                               ELSE snapshot.state # "Starting"
    /\ Status(t) /\ ~Observed => ~Lives'
    /\ ActorStays \/ Request(t) \/ Queue(t) \/ StopFailed(t) \/ Confirm(t)

LEMMA StopStepNotes ==
    ASSUME TypeOK, Table!IInv, NEW t \in Tasks, KindIsRight(t), StopStep(t) PROVE StopNotes(t)
  <1>1. /\ Resting.pc = "rest" /\ "rest" \notin StartPc \cup StopPc
        /\ {"look", "request", "queue", "status", "backend", "await", "stop_failed", "confirm",
            "dispose", "endpoint", "after", "start", "read_token"} \subseteq StartPc \cup StopPc
        /\ op[t].pc \in StartPc \cup StopPc \cup {"rest"}
    BY OpFacts DEF StartPc, StopPc
  <1>2. ASSUME NEW pc \in StartPc \cup StopPc, op[t].pc # "rest", Goto(t, pc)
        PROVE  op'[t].pc = pc /\ ~Rests(t)
    <2>1. op'[t].pc = pc
      BY <1>1, <1>2, GoesFacts DEF Goes, Moves
    <2> QED
      BY <1>1, <2>1 DEF Rests
  <1>3. Queued' /\ ~Queued => Queue(t) \/ (Request(t) /\ op[t].kind # "stop")
    <2>1. UNCHANGED actor => (Queued' => Queued)
      BY DEF actor, Queued
    <2>2. Request(t) /\ op[t].kind = "stop" => Tell("request_stop")
      BY DEF Request
    <2>3. StopFailed(t) => Tell("mark_crashed")
      BY DEF StopFailed
    <2>4. Confirm(t) => Tell("confirm_stopped")
      BY DEF Confirm
    <2> QED
      BY <2>1, <2>2, <2>3, <2>4, ActorFrame, PendingTold DEF StopStep
  <1>4. Aborted' => Aborted \/ "kill_failed" \in faults'
    <2>1. BackendStopped(t) => (Aborted' => Aborted \/ "kill_failed" \in faults')
      <3>1. BackendStopped(t) => call[t].pc = "settle"
        BY DEF BackendStopped, Native!StopSettle
      <3>2. call[t].pc = "settle" => call[t].result = "ok" \/ "kill_failed" \in faults
        BY TableFacts DEF CallFacts, KindIsRight
      <3> QED
        BY <3>1, <3>2 DEF BackendStopped, Aborted
    <2>2. Confirm(t) => (Aborted' => Aborted)
      BY DEF Confirm, Aborted
    <2>3. BackendKills(t) => (Aborted' => Aborted)
      BY DEF BackendKills, Aborted
    <2>4. (StopStep(t) /\ ~(BackendStopped(t) \/ Confirm(t) \/ BackendKills(t))) => faults' = faults
      BY DEF StopStep, Look, Request, Queue, Status, BackendStop, StopFailed, DisposePoller,
             DisposeEndpoint, After
    <2> QED
      BY <2>1, <2>2, <2>3, <2>4 DEF Aborted
  <1>5. call'[t].pc \in {"kill", "settle"} =>
          op'[t].pc = "await" \/ (call[t].pc \in {"kill", "settle"} /\ op[t].pc # "await")
    <2>1. DOMAIN call = Tasks /\ \A r : Native!IdleCall(r).pc = "idle"
      BY TypeFacts DEF TableTypes, Native!IdleCall
    <2>2. ASSUME UNCHANGED deployment PROVE call' = call
      BY <2>2 DEF deployment
    <2>3. ASSUME Native!StopNothing(t, Bot) \/ Native!StopSettle(t) PROVE call'[t].pc = "idle"
      BY <2>1, <2>3 DEF Native!StopNothing, Native!StopSettle
    <2>4. StopEffects(t)
      BY StopStepEffects
    <2>5. CASE BackendStop(t) \/ BackendKills(t) \/ BackendStopped(t)
      BY <2>3, <2>4, <2>5 DEF StopEffects, Goes, Moves
    <2>6. CASE ~(BackendStop(t) \/ BackendKills(t) \/ BackendStopped(t))
      BY <2>2, <2>4, <2>6, DeploymentFrame DEF StopStep, StopEffects
    <2> QED
      BY <2>5, <2>6
  <1>6. Look(t) => ~Goes(t, "queue") \/ snapshot.state = "Stopping"
    <2> SUFFICES ASSUME Look(t), Goes(t, "queue") PROVE snapshot.state = "Stopping"
      OBVIOUS
    <2>1. op'[t].pc = "queue" /\ op[t].pc # "rest" /\ ~Return(t)
      BY <1>1, RestsFacts DEF Look, At, Goes, Moves, Rests
    <2>2. ~Goto(t, "start") /\ ~Goto(t, "request")
      BY <1>1, <1>2, <2>1
    <2> QED
      BY <2>1, <2>2 DEF Look, GotoOrReturn
  <1>7. Request(t) => ~Rests(t) \/ snapshot.state # "Stopping"
    <2> SUFFICES ASSUME Request(t), snapshot.state = "Stopping" PROVE ~Rests(t)
      OBVIOUS
    <2>1. op[t].kind # "stop" => ResultOf("request_restart") # "invalid"
      BY StoppingTakesRestart
    <2>2. PICK token, seen : op' = [op EXCEPT ![t].pc = "status", ![t].seen = seen, ![t].token = token]
                             \/ op' = [op EXCEPT ![t].pc = "backend", ![t].token = token]
      BY <2>1 DEF Request
    <2>3. op'[t].pc \in {"status", "backend"}
      <3>1. op[t] \in Operation /\ op \in [Tasks -> Operation \cup {Resting}]
        BY OpFacts, <1>1 DEF Request, At
      <3> QED
        BY <2>2, <3>1 DEF Operation
    <2> QED
      BY <1>1, <2>3 DEF Rests
  <1>8. BackendStopped(t) => ~Rests(t) \/ Aborted'
    BY <1>1, <1>2 DEF BackendStopped, At, AfterBackendStop, GotoOrReturn, Aborted
  <1>9. Confirm(t) => snapshot'.state # "Stopping" /\ (ActorBegins => Queued)
    BY PendingTold DEF Confirm
  <1>10. After(t) /\ Rests(t) => IF op[t].kind = "stop" THEN op[t].seen # "Starting"
                                ELSE snapshot.state # "Starting"
    BY <1>1, <1>2 DEF After, At, GotoOrReturn
  <1>11. Status(t) /\ ~Observed => ~Lives'
    BY DeploymentFrame DEF deployment, Lives, Record, Observed
  <1>12. ActorStays \/ Request(t) \/ Queue(t) \/ StopFailed(t) \/ Confirm(t)
    BY ActorFrame DEF StopStep, actor, ActorStays, Token
  <1> QED
    BY <1>3, <1>4, <1>5, <1>6, <1>7, <1>8, <1>9, <1>10, <1>11, <1>12 DEF StopNotes

LEMMA StartSettles ==
    ASSUME TypeOK, Table!IInv, OpsAreInStep, Grows, NEW t \in Tasks, StartStep(t)
    PROVE  SettleMove(t)
  <1>1. StartEffects(t) /\ StartNotes(t) /\ KindIsRight(t)
    BY StartStepEffects, StartStepNotes DEF OpsAreInStep
  <1>2. Resting.pc = "rest" /\ Resting.kind = "none"
    BY OpFacts
  <1> USE <1>1, <1>2
          DEF StartEffects, StartNotes, KindIsRight, Stopped, StopPc, Goes, Moves, Rests,
              ActorStays, ActorBegins, ActorTurns, ActorCancels
  <1>3. Steers(t)
    <2>1. ASSUME StartRequest(t) PROVE Steers(t)
      BY <2>1 DEF Steers
    <2>2. ASSUME StartRefused(t) PROVE Steers(t)
      BY <2>2 DEF Steers
    <2>3. ASSUME ReadToken(t) PROVE Steers(t)
      BY <2>3 DEF Steers
    <2>4. ASSUME Plan(t) PROVE Steers(t)
      BY <2>4 DEF Steers
    <2>5. ASSUME CheckCancel(t) PROVE Steers(t)
      BY <2>5 DEF Steers
    <2>6. ASSUME Spawn(t) PROVE Steers(t)
      BY <2>6 DEF Steers
    <2>7. ASSUME Insert(t) PROVE Steers(t)
      BY <2>7 DEF Steers
    <2>8. ASSUME Recheck(t) PROVE Steers(t)
      BY <2>8 DEF Steers
    <2>9. ASSUME FinishStart(t) PROVE Steers(t)
      BY <2>9 DEF Steers
    <2>10. ASSUME StartError(t) PROVE Steers(t)
      BY <2>10 DEF Steers
    <2>11. ASSUME MarkStartCrashed(t) PROVE Steers(t)
      BY <2>11 DEF Steers
    <2> QED
      BY <2>1, <2>2, <2>3, <2>4, <2>5, <2>6, <2>7, <2>8, <2>9, <2>10, <2>11 DEF StartStep
  <1>4. StopsMove(t)
    <2> USE DEF StopsMove, Stops, Restarting, Restarted, Strays, Queued
    <2>1. ASSUME StartRequest(t) PROVE StopsMove(t)
      BY <2>1
    <2>2. ASSUME StartRefused(t) PROVE StopsMove(t)
      BY <2>2
    <2>3. ASSUME ReadToken(t) PROVE StopsMove(t)
      BY <2>3
    <2>4. ASSUME Plan(t) PROVE StopsMove(t)
      BY <2>4
    <2>5. ASSUME CheckCancel(t) PROVE StopsMove(t)
      BY <2>5
    <2>6. ASSUME Spawn(t) PROVE StopsMove(t)
      BY <2>6
    <2>7. ASSUME Insert(t) PROVE StopsMove(t)
      BY <2>7
    <2>8. ASSUME Recheck(t) PROVE StopsMove(t)
      BY <2>8
    <2>9. ASSUME FinishStart(t) PROVE StopsMove(t)
      BY <2>9
    <2>10. ASSUME StartError(t) PROVE StopsMove(t)
      BY <2>10
    <2>11. ASSUME MarkStartCrashed(t) PROVE StopsMove(t)
      BY <2>11
    <2> QED
      BY <2>1, <2>2, <2>3, <2>4, <2>5, <2>6, <2>7, <2>8, <2>9, <2>10, <2>11 DEF StartStep
  <1>5. BringsMove(t)
    <2> USE DEF BringsMove, Brings, Strays, Restarting, Restarted, WillLook, Launching,
       TakesOver, Stopped, StartPc
    <2>1. ASSUME StartRequest(t) PROVE BringsMove(t)
      BY <2>1
    <2>2. ASSUME StartRefused(t) PROVE BringsMove(t)
      BY <2>2
    <2>3. ASSUME ReadToken(t) PROVE BringsMove(t)
      BY <2>3
    <2>4. ASSUME Plan(t) PROVE BringsMove(t)
      BY <2>4
    <2>5. ASSUME CheckCancel(t) PROVE BringsMove(t)
      BY <2>5
    <2>6. ASSUME Spawn(t) PROVE BringsMove(t)
      BY <2>6
    <2>7. ASSUME Insert(t) PROVE BringsMove(t)
      BY <2>7
    <2>8. ASSUME Recheck(t) PROVE BringsMove(t)
      BY <2>8
    <2>9. ASSUME FinishStart(t) PROVE BringsMove(t)
      BY <2>9
    <2>10. ASSUME StartError(t) PROVE BringsMove(t)
      BY <2>10
    <2>11. ASSUME MarkStartCrashed(t) PROVE BringsMove(t)
      BY <2>11
    <2> QED
      BY <2>1, <2>2, <2>3, <2>4, <2>5, <2>6, <2>7, <2>8, <2>9, <2>10, <2>11 DEF StartStep
  <1>6. RunsMove(t)
    <2> USE DEF RunsMove, Restarting, Restarted
    <2>1. ASSUME StartRequest(t) PROVE RunsMove(t)
      BY <2>1
    <2>2. ASSUME StartRefused(t) PROVE RunsMove(t)
      BY <2>2
    <2>3. ASSUME ReadToken(t) PROVE RunsMove(t)
      BY <2>3
    <2>4. ASSUME Plan(t) PROVE RunsMove(t)
      BY <2>4
    <2>5. ASSUME CheckCancel(t) PROVE RunsMove(t)
      BY <2>5
    <2>6. ASSUME Spawn(t) PROVE RunsMove(t)
      BY <2>6
    <2>7. ASSUME Insert(t) PROVE RunsMove(t)
      BY <2>7
    <2>8. ASSUME Recheck(t) PROVE RunsMove(t)
      BY <2>8
    <2>9. ASSUME FinishStart(t) PROVE RunsMove(t)
      BY <2>9
    <2>10. ASSUME StartError(t) PROVE RunsMove(t)
      BY <2>10
    <2>11. ASSUME MarkStartCrashed(t) PROVE RunsMove(t)
      BY <2>11
    <2> QED
      BY <2>1, <2>2, <2>3, <2>4, <2>5, <2>6, <2>7, <2>8, <2>9, <2>10, <2>11 DEF StartStep
  <1>7. KillsMove(t)
    <2> USE DEF KillsMove, Kills
    <2>1. ASSUME StartRequest(t) PROVE KillsMove(t)
      BY <2>1
    <2>2. ASSUME StartRefused(t) PROVE KillsMove(t)
      BY <2>2
    <2>3. ASSUME ReadToken(t) PROVE KillsMove(t)
      BY <2>3
    <2>4. ASSUME Plan(t) PROVE KillsMove(t)
      BY <2>4
    <2>5. ASSUME CheckCancel(t) PROVE KillsMove(t)
      BY <2>5
    <2>6. ASSUME Spawn(t) PROVE KillsMove(t)
      BY <2>6
    <2>7. ASSUME Insert(t) PROVE KillsMove(t)
      BY <2>7
    <2>8. ASSUME Recheck(t) PROVE KillsMove(t)
      BY <2>8
    <2>9. ASSUME FinishStart(t) PROVE KillsMove(t)
      BY <2>9
    <2>10. ASSUME StartError(t) PROVE KillsMove(t)
      BY <2>10
    <2>11. ASSUME MarkStartCrashed(t) PROVE KillsMove(t)
      BY <2>11
    <2> QED
      BY <2>1, <2>2, <2>3, <2>4, <2>5, <2>6, <2>7, <2>8, <2>9, <2>10, <2>11 DEF StartStep
  <1> QED
    BY <1>3, <1>4, <1>5, <1>6, <1>7 DEF SettleMove

LEMMA StopSettles ==
    ASSUME TypeOK, Table!IInv, OpsAreInStep, Grows, NEW t \in Tasks, StopStep(t)
    PROVE  SettleMove(t)
  <1>1. StopEffects(t) /\ StopNotes(t) /\ KindIsRight(t)
    BY StopStepEffects, StopStepNotes DEF OpsAreInStep
  <1>2. Resting.pc = "rest" /\ Resting.kind = "none"
    BY OpFacts
  <1> USE <1>1, <1>2
          DEF StopEffects, StopNotes, KindIsRight, Stopped, StopPc, Goes, Moves, Rests,
              ActorStays, ActorBegins, ActorTurns, ActorCancels
  <1>3. Steers(t)
    <2>1. ASSUME Look(t) PROVE Steers(t)
      BY <2>1 DEF Steers, AfterBackendStop
    <2>2. ASSUME Request(t) PROVE Steers(t)
      BY <2>2 DEF Steers, AfterBackendStop
    <2>3. ASSUME Queue(t) PROVE Steers(t)
      BY <2>3 DEF Steers, AfterBackendStop
    <2>4. ASSUME Status(t) PROVE Steers(t)
      BY <2>4 DEF Steers, AfterBackendStop
    <2>5. ASSUME BackendStop(t) PROVE Steers(t)
      BY <2>5 DEF Steers, AfterBackendStop
    <2>6. ASSUME BackendKills(t) PROVE Steers(t)
      BY <2>6 DEF Steers, AfterBackendStop
    <2>7. ASSUME BackendStopped(t) PROVE Steers(t)
      BY <2>7 DEF Steers, AfterBackendStop
    <2>8. ASSUME StopFailed(t) PROVE Steers(t)
      BY <2>8 DEF Steers, AfterBackendStop
    <2>9. ASSUME Confirm(t) PROVE Steers(t)
      BY <2>9 DEF Steers, AfterBackendStop
    <2>10. ASSUME DisposePoller(t) PROVE Steers(t)
      BY <2>10 DEF Steers, AfterBackendStop
    <2>11. ASSUME DisposeEndpoint(t) PROVE Steers(t)
      BY <2>11 DEF Steers, AfterBackendStop
    <2>12. ASSUME After(t) PROVE Steers(t)
      BY <2>12 DEF Steers, AfterBackendStop
    <2> QED
      BY <2>1, <2>2, <2>3, <2>4, <2>5, <2>6, <2>7, <2>8, <2>9, <2>10, <2>11, <2>12 DEF StopStep
  <1>4. StopsMove(t)
    <2> USE DEF StopsMove, Stops, Restarting, Restarted, Strays, Queued, AfterBackendStop
    <2>1. ASSUME Look(t) PROVE StopsMove(t)
      BY <2>1
    <2>2. ASSUME Request(t) PROVE StopsMove(t)
      BY <2>2
    <2>3. ASSUME Queue(t) PROVE StopsMove(t)
      BY <2>3
    <2>4. ASSUME Status(t) PROVE StopsMove(t)
      BY <2>4
    <2>5. ASSUME BackendStop(t) PROVE StopsMove(t)
      BY <2>5
    <2>6. ASSUME BackendKills(t) PROVE StopsMove(t)
      BY <2>6
    <2>7. ASSUME BackendStopped(t) PROVE StopsMove(t)
      BY <2>7
    <2>8. ASSUME StopFailed(t) PROVE StopsMove(t)
      BY <2>8
    <2>9. ASSUME Confirm(t) PROVE StopsMove(t)
      BY <2>9
    <2>10. ASSUME DisposePoller(t) PROVE StopsMove(t)
      BY <2>10
    <2>11. ASSUME DisposeEndpoint(t) PROVE StopsMove(t)
      BY <2>11
    <2>12. ASSUME After(t) PROVE StopsMove(t)
      BY <2>12
    <2> QED
      BY <2>1, <2>2, <2>3, <2>4, <2>5, <2>6, <2>7, <2>8, <2>9, <2>10, <2>11, <2>12 DEF StopStep
  <1>5. BringsMove(t)
    <2> USE DEF BringsMove, Brings, Strays, Restarting, Restarted, WillLook, Launching,
       TakesOver, Stopped, StartPc, AfterBackendStop
    <2>1. ASSUME Look(t) PROVE BringsMove(t)
      BY <2>1
    <2>2. ASSUME Request(t) PROVE BringsMove(t)
      BY <2>2
    <2>3. ASSUME Queue(t) PROVE BringsMove(t)
      BY <2>3
    <2>4. ASSUME Status(t) PROVE BringsMove(t)
      BY <2>4
    <2>5. ASSUME BackendStop(t) PROVE BringsMove(t)
      BY <2>5
    <2>6. ASSUME BackendKills(t) PROVE BringsMove(t)
      BY <2>6
    <2>7. ASSUME BackendStopped(t) PROVE BringsMove(t)
      BY <2>7
    <2>8. ASSUME StopFailed(t) PROVE BringsMove(t)
      BY <2>8
    <2>9. ASSUME Confirm(t) PROVE BringsMove(t)
      BY <2>9
    <2>10. ASSUME DisposePoller(t) PROVE BringsMove(t)
      BY <2>10
    <2>11. ASSUME DisposeEndpoint(t) PROVE BringsMove(t)
      BY <2>11
    <2>12. ASSUME After(t) PROVE BringsMove(t)
      BY <2>12
    <2> QED
      BY <2>1, <2>2, <2>3, <2>4, <2>5, <2>6, <2>7, <2>8, <2>9, <2>10, <2>11, <2>12 DEF StopStep
  <1>6. RunsMove(t)
    <2> USE DEF RunsMove, Restarting, Restarted, AfterBackendStop
    <2>1. ASSUME Look(t) PROVE RunsMove(t)
      BY <2>1
    <2>2. ASSUME Request(t) PROVE RunsMove(t)
      BY <2>2
    <2>3. ASSUME Queue(t) PROVE RunsMove(t)
      BY <2>3
    <2>4. ASSUME Status(t) PROVE RunsMove(t)
      BY <2>4
    <2>5. ASSUME BackendStop(t) PROVE RunsMove(t)
      BY <2>5
    <2>6. ASSUME BackendKills(t) PROVE RunsMove(t)
      BY <2>6
    <2>7. ASSUME BackendStopped(t) PROVE RunsMove(t)
      BY <2>7
    <2>8. ASSUME StopFailed(t) PROVE RunsMove(t)
      BY <2>8
    <2>9. ASSUME Confirm(t) PROVE RunsMove(t)
      BY <2>9
    <2>10. ASSUME DisposePoller(t) PROVE RunsMove(t)
      BY <2>10
    <2>11. ASSUME DisposeEndpoint(t) PROVE RunsMove(t)
      BY <2>11
    <2>12. ASSUME After(t) PROVE RunsMove(t)
      BY <2>12
    <2> QED
      BY <2>1, <2>2, <2>3, <2>4, <2>5, <2>6, <2>7, <2>8, <2>9, <2>10, <2>11, <2>12 DEF StopStep
  <1>7. KillsMove(t)
    <2>1. ~Look(t) /\ ~Request(t) /\ Kills(t) => Status(t) \/ BackendStop(t) \/ BackendKills(t) \/ BackendStopped(t)
      BY DEF StopStep, Kills
    <2>2. ASSUME Lives' PROVE Record'.generation = Record.generation /\ proc'[Record.generation].alive
      <3>1. TableShrinks
        BY DEF TableShrinks, StopStep, Look, Request, Queue, Status, BackendStop, BackendKills,
               BackendStopped, StopFailed, Confirm, DisposePoller, DisposeEndpoint, After
      <3> QED
        BY <2>2, <3>1, ShrinksStep, LivesOn DEF Lives
    <2>3. EndMove(t) /\ CallFacts(t)
      BY StopMove, TableFacts DEF TaskMove
    <2>4. ASSUME Status(t) PROVE KillsMove(t)
      BY <2>4 DEF KillsMove, Kills
    <2>5. ASSUME BackendStop(t) PROVE KillsMove(t)
      BY <2>3, <2>5 DEF KillsMove, Kills, EndMove, Ends, AfterBackendStop
    <2>6. ASSUME BackendKills(t) PROVE KillsMove(t)
      BY <2>2, <2>3, <2>6 DEF KillsMove, Kills, EndMove, Ends
    <2>7. ASSUME BackendStopped(t) PROVE KillsMove(t)
      <3>1. call[t].pc = "settle"
        BY <2>7 DEF BackendStopped, Native!StopSettle
      <3>2. CASE call[t].result = "ok"
        BY <2>2, <2>3, <2>7, <3>1, <3>2 DEF KillsMove, Kills, CallFacts, BackendStopped, Native!StopSettle
      <3>3. CASE call[t].result # "ok"
        BY <2>3, <3>1, <3>3 DEF KillsMove, CallFacts, Grows
      <3> QED
        BY <3>2, <3>3
    <2> QED
      BY <2>1, <2>4, <2>5, <2>6, <2>7 DEF KillsMove, Kills
  <1> QED
    BY <1>3, <1>4, <1>5, <1>6, <1>7 DEF SettleMove

-----------------------------------------------------------------------------
(* Every step is a task's, or that of an onlooker: a call, a watcher, a     *)
(* listener or a process.                                                  *)

\* What an onlooker leaves of a task, and of the actor.
Waits(t) ==
    \/ op'[t] = op[t] /\ call'[t] = call[t]
    \/ /\ op[t] = Resting /\ op'[t].pc \in {"start", "request", "look"} /\ call'[t] = call[t]
       /\ op'[t].kind = "switch" => "switched" \in faults'
       /\ op'[t].pc = "look" => op'[t].kind # "stop"
LooksOn ==
    /\ Queued' => Queued
    /\ snapshot'.state \in {"Stopping", "Running"} => snapshot.state = snapshot'.state
    /\ ActorBegins => Queued
    /\ Aborted' => Aborted
    /\ \A t \in Tasks : Waits(t)
Acts(t) == TaskStep(t) /\ SettleMove(t) /\ Others(t)

LEMMA NextActs ==
    ASSUME TypeOK, Table!IInv, OpsAreInStep, [Next]_vars
    PROVE  LooksOn \/ \E t \in Tasks : Acts(t)
  <1>1. Grows
    BY GrowsStep
  <1>2. UNCHANGED actor =>
          /\ Queued' => Queued
          /\ snapshot'.state \in {"Stopping", "Running"} => snapshot.state = snapshot'.state
          /\ ~ActorBegins
    BY <1>1 DEF actor, Queued, ActorBegins, Token, Grows
  <1>3. ASSUME NEW t \in Tasks, TaskStep(t) PROVE Acts(t)
    BY <1>1, <1>3, StartSettles, StopSettles, OthersStay DEF TaskStep, Acts
  <1>4. ASSUME NEW t \in Tasks, NEW kind \in Operations, Call(t, kind) PROVE LooksOn
    <2>1. call' = call
      BY <1>4, CallStays DEF deployment
    <2>2. Waits(t)
      BY <1>4, <2>1, CallStays, OperationsAssumption DEF Call, Waits
    <2>3. ASSUME NEW u \in Tasks, u # t PROVE Waits(u)
      BY <1>4, <2>1, <2>3, CallStays DEF Waits
    <2>4. Aborted' => Aborted
      BY <1>4 DEF Call, Aborted
    <2>5. UNCHANGED actor
      BY <1>4 DEF Call
    <2> QED
      BY <1>2, <2>2, <2>3, <2>4, <2>5 DEF LooksOn
  <1>5. ASSUME \/ \E g \in Generation : ProcessExits(g) \/ PublishWebui(g) \/ WatcherStep(g)
               \/ ListenerStep \/ LoginStep \/ UNCHANGED vars
        PROVE  LooksOn
    <2>1. \A u \in Tasks : Waits(u)
      BY <1>5, EnvironmentStays DEF Waits
    <2>2. Aborted' => Aborted
      <3>1. ListenerStep \/ LoginStep => (Aborted' => Aborted)
        BY DEF ListenerStep, LoginStep, ListenerTakes, ListenerTells, LoginTakesWebui,
               LoginSpawnsPoller, LoginTakesExit, LateWebui, Aborted
      <3>2. (\E g \in Generation : ProcessExits(g) \/ PublishWebui(g) \/ WatcherStep(g))
              => faults' = faults
        BY DEF ProcessExits, PublishWebui, WatcherStep, WatcherSeesExit, PublishExit
      <3> QED
        BY <1>5, <3>1, <3>2 DEF vars, Aborted
    <2>3. CASE ListenerTells
      <3>1. PICK cmd \in {"confirm_stopped", "mark_crashed"} : Tell(cmd)
        BY <2>3 DEF ListenerTells, TypeOK
      <3>2. /\ Queued' => Queued
            /\ snapshot'.state = "Stopping" => snapshot.state = "Stopping"
            /\ cmd = "confirm_stopped" /\ ActorBegins => Queued
        BY <3>1, PendingTold
      <3>3. /\ snapshot'.state = "Running" => snapshot.state = "Running"
            /\ cmd = "mark_crashed" => ~ActorBegins
        BY <3>1, ConfirmTold, CrashTold
        DEF ActorBegins, ActorStays, ActorTurns, ActorCancels
      <3> QED
        BY <2>1, <2>2, <3>1, <3>2, <3>3 DEF LooksOn
    <2>4. CASE ~ListenerTells
      <3>1. UNCHANGED actor
        BY <1>5, <2>4 DEF ProcessExits, PublishWebui, WatcherStep, WatcherSeesExit, PublishExit,
           ListenerStep, ListenerTakes, LoginStep, LoginTakesWebui, LoginSpawnsPoller,
           LoginTakesExit, vars
      <3> QED
        BY <1>2, <2>1, <2>2, <3>1 DEF LooksOn
    <2> QED
      BY <2>3, <2>4
  <1> QED
    BY <1>3, <1>4, <1>5 DEF Next

-----------------------------------------------------------------------------
(* The invariant.                                                          *)

\* The steps of a switch, of a call on the table and of a queued restart; a restart
\* can only find the bot Stopping when an earlier one gave up.
StepsMatch ==
    /\ \A t \in Tasks :
          /\ op[t].kind = "switch" => "switched" \in faults
          /\ call[t].pc \in {"kill", "settle"} => op[t].pc = "await"
          /\ op[t].pc = "look" => op[t].kind # "stop"
          /\ op[t].pc = "queue" => op[t].kind = "restart" /\ Aborted
    /\ Aborted => "kill_failed" \in faults

\* A Stopping bot is being stopped, and a restart it holds is somebody's.
StoppingEnds ==
    snapshot.state = "Stopping" => Aborted \/ \E t \in Tasks : Stops(t) \/ Restarting(t)
PendingIsOwned == Queued => Aborted \/ \E t \in Tasks : Restarting(t)
PendingIsAlone ==
    Queued /\ "switched" \notin faults => \A t \in Tasks : ~Launching(t) /\ ~TakesOver(t)

\* The run of a Starting or Running bot is not cancelled, and a Starting one is
\* being brought up.
RunIsLive == snapshot.state \in {"Starting", "Running"} => Token \notin cancelled
StartingIsOwned ==
    snapshot.state = "Starting" =>
        \/ Aborted \/ "switch_stranded" \in faults
        \/ \E t \in Tasks : Brings(t) \/ Strays(t)
RestartIsOver ==
    \A t \in Tasks : (op[t].kind = "restart" /\ (Restarting(t) \/ Restarted(t)))
        => snapshot.state # "Running"

\* A bot that runs, or is about to, has a record; or somebody will find out.
Signs == \/ \E g \in Generation : watcher[g] = "publishing"
         \/ exitBox # <<>> \/ listener.tells = "mark_crashed"
ComesUp == \/ snapshot.state = "Running"
           \/ snapshot.state = "Starting" /\ \E t \in Tasks : op[t].pc = "confirm_running"
GoneIsNoticed ==
    (ComesUp /\ faults \cap {"exit_ignored", "switched", "stop_refused"} = {}) =>
        Observed \/ Signs \/ \E t \in Tasks : Stops(t) \/ WillLook(t)

\* The process of a bot that was stopped is killed.
KilledSoon ==
    (/\ snapshot.state \in {"Stopped", "Stopping"} /\ Lives
     /\ faults \cap {"stale_start", "kill_failed"} = {}) => \E t \in Tasks : Kills(t)

\* Though kills may fail: while no task and no event acts on a later run than its
\* own, who confirms the end of a run has seen its process end.
Steady == Apart /\ faults \cap {"stale_exit", "stale_start", "late_confirm"} = {}
SeesItEnd ==
    \A t \in Tasks : (Ends(t) /\ op[t].token = Token /\ Lives)
        => op[t].pc = "await" /\ call[t].gen = Record.generation
SteadyInv == /\ RecordIsLatest /\ InsertIsLatest /\ SeesItEnd
             /\ snapshot.state = "Stopped" => ~Lives

SettleInv == /\ StepsMatch /\ StoppingEnds /\ PendingIsOwned /\ PendingIsAlone
             /\ RunIsLive /\ StartingIsOwned /\ RestartIsOver /\ GoneIsNoticed /\ KilledSoon
             /\ Steady => SteadyInv

Alone == "restart" \notin Overlapping

\* Beside a restart nobody does anything.
LEMMA RestartAlone ==
    ASSUME TypeOK, OpsAreInStep, Alone, NEW t \in Tasks, op[t].kind = "restart",
           NEW u \in Tasks, u # t
    PROVE  op[u].pc = "rest" /\ op[u].kind = "none"
  BY OpFacts DEF OpsAreInStep, RestartIsAlone, Alone

LEMMA NextStepsMatch ==
    ASSUME IInv, SettleInv, Alone, [Next]_vars PROVE StepsMatch'
  <1>1. TypeOK /\ Table!IInv /\ OpsAreInStep /\ StepsMatch /\ StoppingEnds
    BY DEF IInv, SettleInv
  <1>2. Grows /\ \A t \in Tasks : CallFacts(t)
    BY <1>1, GrowsStep, TableFacts
  <1>3. Resting.pc = "rest" /\ Resting.kind = "none"
    BY <1>1, OpFacts DEF Resting
  <1>4. Aborted => Aborted'
    BY <1>2 DEF Aborted, Grows
  <1> DEFINE Matches(t) ==
          /\ op[t].kind = "switch" => "switched" \in faults
          /\ call[t].pc \in {"kill", "settle"} => op[t].pc = "await"
          /\ op[t].pc = "look" => op[t].kind # "stop"
          /\ op[t].pc = "queue" => op[t].kind = "restart" /\ Aborted
  <1>5. ASSUME NEW u \in Tasks, Waits(u) PROVE Matches(u)'
    BY <1>1, <1>2, <1>3, <1>4, <1>5 DEF Waits, StepsMatch, Grows
  <1>6. CASE LooksOn
    BY <1>1, <1>2, <1>5, <1>6 DEF LooksOn, StepsMatch, Grows
  <1>7. ASSUME NEW t \in Tasks, Acts(t) PROVE StepsMatch'
    <2>1. \A u \in Tasks : u # t => Waits(u)
      BY <1>7 DEF Acts, Others, Waits
    <2>2. Steers(t) /\ KindIsRight(t)
      BY <1>1, <1>7 DEF Acts, SettleMove, OpsAreInStep
    <2>3. ASSUME op'[t].pc = "queue" PROVE op'[t].kind = "restart" /\ Aborted
      <3>1. op[t].kind = "restart" /\ op[t].pc = "look" /\ snapshot.state = "Stopping"
        BY <1>1, <2>2, <2>3 DEF Steers, StepsMatch, KindIsRight, StopPc
      <3>2. \A u \in Tasks : u = t \/ op[u].pc = "rest"
        BY <1>1, <3>1, RestartAlone
      <3>3. Aborted
        BY <1>1, <3>1, <3>2 DEF StoppingEnds, Stops, Restarting
      <3> QED
        BY <1>3, <2>2, <2>3, <3>1, <3>3 DEF Steers
    <2>4. Matches(t)'
      BY <1>1, <1>2, <1>3, <1>4, <2>2, <2>3 DEF Steers, StepsMatch, Grows
    <2>5. Aborted' => "kill_failed" \in faults'
      BY <1>1, <1>2, <2>2 DEF Steers, StepsMatch, Grows
    <2> QED
      BY <1>5, <2>1, <2>4, <2>5 DEF StepsMatch
  <1> QED
    BY <1>1, <1>6, <1>7, NextActs

LEMMA NextStopping ==
    ASSUME IInv, SettleInv, Alone, [Next]_vars
    PROVE  StoppingEnds' /\ PendingIsOwned' /\ PendingIsAlone'
  <1>1. /\ TypeOK /\ Table!IInv /\ OpsAreInStep /\ StepsMatch
        /\ StoppingEnds /\ PendingIsOwned /\ PendingIsAlone
    BY DEF IInv, SettleInv
  <1>2. Grows /\ (Aborted => Aborted')
    BY <1>1, GrowsStep DEF Aborted, Grows
  <1>3. Resting.pc = "rest" /\ Resting.kind = "none"
    BY <1>1, OpFacts DEF Resting
  <1>4. ASSUME NEW u \in Tasks, Waits(u)
        PROVE  /\ Stops(u) => Stops(u)'
               /\ Restarting(u) => Restarting(u)'
               /\ Launching(u)' \/ TakesOver(u)' => Launching(u) \/ TakesOver(u)
    BY <1>3, <1>4 DEF Waits, Stops, Restarting, Launching, TakesOver, Stopped, StartPc
  <1>5. CASE LooksOn
    <2>1. StoppingEnds'
      BY <1>1, <1>2, <1>4, <1>5 DEF LooksOn, StoppingEnds
    <2>2. PendingIsOwned'
      BY <1>1, <1>2, <1>4, <1>5 DEF LooksOn, PendingIsOwned
    <2>3. PendingIsAlone'
      BY <1>1, <1>2, <1>4, <1>5 DEF LooksOn, PendingIsAlone, Grows
    <2> QED
      BY <2>1, <2>2, <2>3
  <1>6. ASSUME NEW t \in Tasks, Acts(t)
        PROVE  StoppingEnds' /\ PendingIsOwned' /\ PendingIsAlone'
    <2>1. \A u \in Tasks : u # t => Waits(u)
      BY <1>6 DEF Acts, Others, Waits
    <2>2. Steers(t) /\ StopsMove(t) /\ BringsMove(t) /\ KindIsRight(t)
      BY <1>1, <1>6 DEF Acts, SettleMove, OpsAreInStep
    <2>3. op[t].pc = "queue" => op[t].kind = "restart" /\ Aborted
      BY <1>1 DEF StepsMatch
    <2>4. StoppingEnds'
      <3> SUFFICES ASSUME snapshot'.state = "Stopping", ~Aborted'
                   PROVE  \E u \in Tasks : Stops(u)' \/ Restarting(u)'
        BY DEF StoppingEnds
      <3>1. CASE snapshot.state # "Stopping"
        BY <1>2, <2>2, <2>3, <3>1 DEF StopsMove
      <3>2. CASE snapshot.state = "Stopping"
        <4>1. PICK u \in Tasks : Stops(u) \/ Restarting(u)
          BY <1>1, <1>2, <3>2 DEF StoppingEnds
        <4>2. CASE u # t
          BY <1>4, <2>1, <4>1, <4>2
        <4>3. CASE u = t
          BY <2>2, <3>2, <4>1, <4>3 DEF StopsMove
        <4> QED
          BY <4>2, <4>3
      <3> QED
        BY <3>1, <3>2
    <2>5. PendingIsOwned'
      <3> SUFFICES ASSUME Queued', ~Aborted' PROVE \E u \in Tasks : Restarting(u)'
        BY DEF PendingIsOwned
      <3>1. CASE ~Queued
        BY <1>2, <2>2, <2>3, <3>1 DEF StopsMove
      <3>2. CASE Queued
        <4>1. PICK u \in Tasks : Restarting(u)
          BY <1>1, <1>2, <3>2 DEF PendingIsOwned
        <4>2. CASE u # t
          BY <1>4, <2>1, <4>1, <4>2
        <4>3. CASE u = t
          BY <2>2, <4>1, <4>3 DEF StopsMove, Queued
        <4> QED
          BY <4>2, <4>3
      <3> QED
        BY <3>1, <3>2
    <2>6. PendingIsAlone'
      <3> SUFFICES ASSUME Queued', "switched" \notin faults', NEW u \in Tasks
                   PROVE  ~Launching(u)' /\ ~TakesOver(u)'
        BY DEF PendingIsAlone
      <3>1. CASE Queued
        BY <1>1, <1>2, <1>4, <2>1, <2>2, <3>1 DEF PendingIsAlone, BringsMove, Queued, Grows
      <3>2. CASE ~Queued
        <4>1. op[t].pc = "queue" \/ Restarting(t)'
          BY <2>2, <3>2 DEF StopsMove
        <4>2. op[t].kind = "restart"
          <5>1. op'[t].kind \in {"restart", "switch"} => op[t].kind = op'[t].kind
            BY <1>3, <2>2 DEF Steers
          <5>2. op[t].kind # "switch"
            BY <1>1, <1>2 DEF StepsMatch, Grows
          <5> QED
            BY <2>3, <4>1, <5>1, <5>2 DEF Restarting
        <4>3. u # t => op[u].pc = "rest" /\ op[u].kind = "none"
          BY <1>1, <4>2, RestartAlone
        <4>4. u # t => ~Launching(u)' /\ ~TakesOver(u)'
          BY <1>4, <2>1, <4>3 DEF Launching, TakesOver, StartPc
        <4>5. CASE u = t /\ Restarting(t)'
          BY <4>5 DEF Restarting, Launching, TakesOver, StartPc
        <4>6. CASE u = t /\ op[t].pc = "queue"
          BY <2>2, <4>6 DEF BringsMove, Launching, TakesOver, Stopped, StartPc, Queued
        <4> QED
          BY <4>1, <4>4, <4>5, <4>6
      <3> QED
        BY <3>1, <3>2
    <2> QED
      BY <2>4, <2>5, <2>6
  <1> QED
    BY <1>1, <1>5, <1>6, NextActs

LEMMA NextRunIsLive ==
    ASSUME IInv, RunIsLive, [Next]_vars PROVE RunIsLive'
  <1>1. TypeOK /\ TokensAreOrdered /\ OpsAreInStep
    BY DEF IInv
  <1>2. Token \in Nat /\ \A k \in cancelled : k <= Token
    BY <1>1, OpFacts DEF TypeOK, TokensAreOrdered, Token, Snapshot
  <1>3. CASE ActorBegins
    BY <1>2, <1>3 DEF ActorBegins, RunIsLive
  <1>4. CASE ~ActorBegins
    BY <1>1, <1>4, ActorStep DEF ActorMoves, ActorStays, ActorTurns, ActorCancels, RunIsLive
  <1> QED
    BY <1>3, <1>4

LEMMA NextStartingIsOwned ==
    ASSUME IInv, SettleInv, Alone, [Next]_vars PROVE StartingIsOwned'
  <1>1. /\ TypeOK /\ Table!IInv /\ OpsAreInStep /\ StepsMatch /\ PendingIsOwned /\ RunIsLive
        /\ StartingIsOwned
    BY DEF IInv, SettleInv
  <1>2. Grows /\ (Aborted => Aborted')
    BY <1>1, GrowsStep DEF Aborted, Grows
  <1>3. Resting.pc = "rest" /\ Resting.kind = "none"
    BY <1>1, OpFacts DEF Resting
  <1> SUFFICES ASSUME snapshot'.state = "Starting", ~Aborted', "switch_stranded" \notin faults'
               PROVE  \E u \in Tasks : (Brings(u) \/ Strays(u))'
    BY DEF StartingIsOwned
  <1>4. ActorBegins \/ (ActorStays /\ snapshot.state = "Starting")
    BY <1>1, ActorStep DEF ActorMoves, ActorStays, ActorTurns, ActorCancels
  <1>5. ASSUME NEW u \in Tasks, Waits(u)
        PROVE  /\ Restarting(u) => Restarting(u)'
               /\ ActorStays /\ (Brings(u) \/ Strays(u)) => (Brings(u) \/ Strays(u))'
    BY <1>3, <1>5 DEF Waits, ActorStays, Brings, Strays, Restarting, Restarted, Launching,
       TakesOver, Stopped, StartPc
  <1>6. ActorStays => /\ Token \notin cancelled
                      /\ \E u \in Tasks : Brings(u) \/ Strays(u)
    BY <1>1, <1>2, <1>4 DEF ActorStays, RunIsLive, StartingIsOwned, Grows
  <1>7. CASE LooksOn
    <2>1. CASE ActorBegins
      <3>1. PICK u \in Tasks : Restarting(u)
        BY <1>1, <1>2, <1>7, <2>1 DEF LooksOn, PendingIsOwned
      <3>2. Restarting(u)'
        BY <1>5, <1>7, <3>1 DEF LooksOn
      <3> QED
        BY <3>2 DEF Brings
    <2>2. CASE ActorStays
      BY <1>5, <1>6, <1>7, <2>2 DEF LooksOn
    <2> QED
      BY <1>4, <2>1, <2>2
  <1>8. ASSUME NEW t \in Tasks, Acts(t) PROVE \E u \in Tasks : (Brings(u) \/ Strays(u))'
    <2>1. \A u \in Tasks : u # t => Waits(u)
      BY <1>8 DEF Acts, Others, Waits
    <2>2. BringsMove(t) /\ op[t].pc # "queue"
      BY <1>1, <1>2, <1>8 DEF Acts, SettleMove, StepsMatch
    <2>3. CASE ActorBegins
      BY <2>2, <2>3 DEF BringsMove
    <2>4. CASE ActorStays
      <3>1. PICK u \in Tasks : Brings(u) \/ Strays(u)
        BY <1>6, <2>4
      <3>2. CASE u # t
        BY <1>5, <2>1, <2>4, <3>1, <3>2
      <3>3. CASE u = t
        BY <1>4, <1>6, <2>2, <2>4, <3>1, <3>3 DEF BringsMove, ActorBegins
      <3> QED
        BY <3>2, <3>3
    <2> QED
      BY <1>4, <2>3, <2>4
  <1> QED
    BY <1>1, <1>7, <1>8, NextActs

LEMMA NextRestartIsOver ==
    ASSUME IInv, SettleInv, Alone, [Next]_vars PROVE RestartIsOver'
  <1>1. TypeOK /\ Table!IInv /\ OpsAreInStep /\ RestartIsOver
    BY DEF IInv, SettleInv
  <1>2. Resting.pc = "rest" /\ Resting.kind = "none"
    BY <1>1, OpFacts DEF Resting
  <1> SUFFICES ASSUME NEW u \in Tasks, op'[u].kind = "restart", (Restarting(u) \/ Restarted(u))',
                      snapshot'.state = "Running"
               PROVE  FALSE
    BY DEF RestartIsOver
  <1>3. ASSUME Waits(u)
        PROVE  op[u].kind = "restart" /\ (Restarting(u) \/ Restarted(u))
    BY <1>2, <1>3 DEF Waits, Restarting, Restarted
  <1>4. CASE LooksOn
    BY <1>1, <1>3, <1>4 DEF LooksOn, RestartIsOver
  <1>5. ASSUME NEW t \in Tasks, Acts(t) PROVE FALSE
    <2>1. u # t => Waits(u)
      BY <1>5 DEF Acts, Others, Waits
    <2>2. Steers(t) /\ RunsMove(t)
      BY <1>5 DEF Acts, SettleMove
    <2>3. op[u].kind = "restart" /\ (Restarting(u) \/ Restarted(u))
      BY <1>2, <1>3, <2>1, <2>2 DEF Steers, RunsMove
    <2>4. snapshot.state # "Running"
      BY <1>1, <2>3 DEF RestartIsOver
    <2>5. op[t].pc = "confirm_running" /\ op'[t] = Resting
      BY <2>2, <2>4 DEF RunsMove
    <2>6. u # t
      BY <1>2, <2>5
    <2> QED
      BY <1>1, <2>3, <2>5, <2>6, RestartAlone
  <1> QED
    BY <1>1, <1>4, <1>5, NextActs

LEMMA NextKilledSoon ==
    ASSUME IInv, SettleInv, [Next]_vars PROVE KilledSoon'
  <1>1. /\ TypeOK /\ Table!IInv /\ TokensAreOrdered /\ OpsAreInStep /\ StepsMatch /\ KilledSoon
    BY DEF IInv, SettleInv
  <1>2. Grows
    BY <1>1, GrowsStep
  <1>3. Resting.pc = "rest"
    BY <1>1, OpFacts DEF Resting
  <1> SUFFICES ASSUME snapshot'.state \in {"Stopped", "Stopping"}, Lives',
                      faults' \cap {"stale_start", "kill_failed"} = {}
               PROVE  \E u \in Tasks : Kills(u)'
    BY DEF KilledSoon
  <1>4. ASSUME NEW t \in Tasks, Insert(t) PROVE FALSE
    <2>1. ActorStays /\ op[t].pc = "insert" /\ op[t].token \notin cancelled
      BY <1>1, <1>4, ActorFrame, StartStepEffects
      DEF StartEffects, Insert, Stale, TokenCancelled, actor, ActorStays, Token
    <2>2. op[t].token # 0 /\ TokenIsKnown(t)
      BY <1>1, <2>1 DEF OpsAreInStep, TokenIsKnown, Launching, StartPc
    <2> QED
      BY <1>1, <2>1, <2>2, TokenIsCurrent DEF ActorStays
  <1>5. Lives /\ Record'.generation = Record.generation
    BY <1>1, <1>4, NextShrinks, LivesOn
  <1>6. ASSUME NEW u \in Tasks, Waits(u), Kills(u) PROVE Kills(u)'
    BY <1>3, <1>5, <1>6 DEF Waits, Kills
  <1>7. snapshot.state \in {"Stopped", "Stopping"} => \E u \in Tasks : Kills(u)
    BY <1>1, <1>2, <1>5 DEF KilledSoon, Grows
  <1>8. snapshot.state \notin {"Stopped", "Stopping"} => snapshot'.state = "Stopping"
    BY <1>1, ActorStep DEF ActorMoves, ActorStays, ActorBegins, ActorTurns, ActorCancels
  <1>9. CASE LooksOn
    BY <1>6, <1>7, <1>8, <1>9 DEF LooksOn
  <1>10. ASSUME NEW t \in Tasks, Acts(t) PROVE \E u \in Tasks : Kills(u)'
    <2>1. \A u \in Tasks : u # t => Waits(u)
      BY <1>10 DEF Acts, Others, Waits
    <2>2. KillsMove(t) /\ StopsMove(t)
      BY <1>10 DEF Acts, SettleMove
    <2>3. CASE snapshot.state \in {"Stopped", "Stopping"}
      <3>1. PICK u \in Tasks : Kills(u)
        BY <1>7, <2>3
      <3> QED
        BY <1>6, <2>1, <2>2, <3>1 DEF KillsMove
    <2>4. CASE snapshot.state \notin {"Stopped", "Stopping"}
      <3>1. op[t].pc # "queue"
        BY <1>1, <1>2 DEF StepsMatch, Grows
      <3> QED
        BY <1>8, <2>2, <2>4, <3>1 DEF StopsMove, Kills
    <2> QED
      BY <2>3, <2>4
  <1> QED
    BY <1>1, <1>9, <1>10, NextActs

-----------------------------------------------------------------------------
\* A record that goes leaves a sign, or a stop is at it.
LEMMA RecordGoes ==
    ASSUME TypeOK, Table!IInv, [Next]_vars, Observed, ~Observed'
    PROVE  Signs' \/ \E t \in Tasks : call[t].pc \in {"kill", "settle"}
  <1>1. TableTypes /\ RecordFacts /\ Table!StopFlagHasOwner /\ \A t \in Tasks : CallFacts(t)
    BY TypeFacts, TableFacts DEF Table!IInv
  <1>2. processes' # processes
    BY DEF Observed
  <1>3. ASSUME NEW g \in Generation, Native!WatcherSeesExit(g)
        PROVE  Signs' \/ \E t \in Tasks : call[t].pc \in {"kill", "settle"}
    <2>1. watcher'[g] = "publishing" => Signs'
      BY DEF Signs
    <2>2. CASE Native!Watches(g, processes[proc[g].bot]) /\ ~processes[proc[g].bot].stop_requested
      BY <1>1, <1>3, <2>1, <2>2 DEF TableTypes, Native!WatcherSeesExit, Native!WatcherClears
    <2>3. CASE processes[Bot].stop_requested
      BY <1>1, <2>3 DEF Table!StopFlagHasOwner
    <2>4. processes' = processes \/ Native!Watches(g, processes[proc[g].bot])
      BY <1>3 DEF Native!WatcherSeesExit, Native!WatcherClears
    <2>5. processes' = processes \/ proc[g].bot = Bot
      BY <1>1, <1>3, <2>4 DEF TableTypes, Native!WatcherSeesExit, Native!WatcherClears, Observed
    <2> QED
      BY <1>2, <2>2, <2>3, <2>4, <2>5
  <1>4. ASSUME NEW t \in Tasks, Native!LaunchInsert(t) \/ Native!StopMark(t, Bot) PROVE FALSE
    <2>1. processes'[Bot].generation \in Generation
      BY <1>1, <1>4 DEF TableTypes, RecordFacts, CallFacts, Native!LaunchInsert, Native!StopMark,
         Native!ManagedProcess
    <2> QED
      BY <1>1, <2>1 DEF Observed, TableTypes, RecordFacts
  <1>5. ASSUME NEW t \in Tasks, Native!StopSettle(t) PROVE call[t].pc \in {"kill", "settle"}
    BY <1>5 DEF Native!StopSettle
  <1>6. TableStep
    BY NextIsTableStep
  <1>7. ASSUME TableStep
        PROVE  \/ processes' = processes
               \/ \E g \in Generation : Native!WatcherSeesExit(g)
               \/ \E t \in Tasks : \/ Native!LaunchInsert(t) \/ Native!StopMark(t, Bot)
                                   \/ Native!StopSettle(t)
    BY <1>7 DEF TableStep, deployment, Native!LaunchSpawn, Native!LaunchFails,
       Native!StopNothing, Native!StopKill, Native!StopKillFails, Native!ProcessExits,
       Native!LogReaderSeesWebui, Native!WatcherPublishes
  <1> QED
    BY <1>2, <1>3, <1>4, <1>5, <1>6, <1>7

\* An exit that is about to be published is published.
LEMMA PublishingStays ==
    ASSUME TypeOK, Table!IInv, [Next]_vars, NEW g \in Generation, watcher[g] = "publishing",
           \A h \in Generation : ~PublishExit(h)
    PROVE  watcher'[g] = "publishing"
  <1>1. TableTypes /\ \A t \in Tasks : CallFacts(t)
    BY TypeFacts, TableFacts
  <1>2. ASSUME NEW t \in Tasks, NEW kind \in Operations, Call(t, kind) PROVE watcher' = watcher
    BY <1>2, CallStays DEF deployment
  <1>3. ASSUME NEW t \in Tasks, StartStep(t), ~Insert(t) PROVE watcher' = watcher
    BY <1>3, DeploymentFrame DEF StartStep, Spawn, deployment, Native!LaunchSpawn,
       Native!LaunchFails
  <1>4. ASSUME NEW t \in Tasks, Insert(t) PROVE watcher'[g] = "publishing"
    BY <1>1, <1>4 DEF Insert, TableTypes, CallFacts, Native!LaunchInsert
  <1>5. ASSUME NEW t \in Tasks, StopStep(t) PROVE watcher' = watcher
    BY <1>5, DeploymentFrame DEF StopStep, BackendStop, BackendKills, BackendStopped,
       deployment, Native!StopMark, Native!StopNothing, Native!StopKill,
       Native!StopKillFails, Native!StopSettle
  <1>6. ASSUME NEW h \in Generation, ProcessExits(h) \/ PublishWebui(h) PROVE watcher' = watcher
    BY <1>6 DEF ProcessExits, PublishWebui, Native!ProcessExits, Native!LogReaderSeesWebui
  <1>7. ASSUME NEW h \in Generation, WatcherSeesExit(h) PROVE watcher'[g] = "publishing"
    BY <1>1, <1>7 DEF WatcherSeesExit, TableTypes, Native!WatcherSeesExit,
       Native!WatcherClears
  <1>8. ListenerStep \/ LoginStep \/ UNCHANGED vars => watcher' = watcher
    BY DEF ListenerStep, ListenerTakes, ListenerTells, LoginStep, LoginTakesWebui,
       LoginSpawnsPoller, LoginTakesExit, deployment, vars
  <1> QED
    BY <1>2, <1>3, <1>4, <1>5, <1>6, <1>7, <1>8 DEF Next, TaskStep, WatcherStep

\* A sign stays until it is told, or read too early.
LEMMA SignsStay ==
    ASSUME TypeOK, Table!IInv, [Next]_vars, Signs, snapshot.state \in {"Starting", "Running"},
           snapshot'.state \in {"Starting", "Running"}
    PROVE  Signs' \/ "exit_ignored" \in faults'
  <1>1. TableTypes /\ \A t \in Tasks : CallFacts(t)
    BY TypeFacts, TableFacts
  <1>2. ASSUME NEW g \in Generation, watcher[g] = "publishing",
               \A h \in Generation : ~PublishExit(h)
        PROVE  watcher'[g] = "publishing"
    BY <1>2, PublishingStays
  <1>3. ASSUME NEW g \in Generation, PublishExit(g) PROVE exitBox' # <<>>
    BY <1>3 DEF PublishExit, TypeOK
  <1>4. CASE ListenerTakes
    BY <1>4 DEF ListenerTakes, Verdict, Signs
  <1>5. CASE ListenerTells
    <2>1. listener.tells # "mark_crashed"
      BY <1>5, CrashTold DEF ListenerTells, ActorCancels, ActorStays
    <2>2. exitBox' = exitBox /\ watcher' = watcher
      BY <1>5 DEF ListenerTells, boxes, deployment
    <2> QED
      BY <2>1, <2>2 DEF Signs
  <1>6. ASSUME ~ListenerStep, \A g \in Generation : ~PublishExit(g) PROVE Signs'
    <2>1. exitBox' = exitBox /\ listener' = listener
      <3>1. ASSUME NEW t \in Tasks, NEW kind \in Operations, Call(t, kind)
            PROVE  exitBox' = exitBox /\ listener' = listener
        BY <3>1, CallStays
      <3>2. ASSUME NEW t \in Tasks, TaskStep(t) PROVE exitBox' = exitBox /\ listener' = listener
        BY <3>2, TaskFrame DEF boxes
      <3>3. ASSUME NEW g \in Generation, ProcessExits(g) \/ PublishWebui(g) \/ WatcherSeesExit(g)
            PROVE  exitBox' = exitBox /\ listener' = listener
        BY <3>3 DEF ProcessExits, PublishWebui, WatcherSeesExit, boxes
      <3>4. LoginStep => exitBox' = exitBox /\ listener' = listener
        BY DEF LoginStep, LoginTakesWebui, LoginSpawnsPoller, LoginTakesExit, boxes
      <3>5. UNCHANGED vars => exitBox' = exitBox /\ listener' = listener
        BY DEF vars, boxes
      <3> QED
        BY <1>6, <3>1, <3>2, <3>3, <3>4, <3>5 DEF Next, WatcherStep
    <2> QED
      BY <1>2, <1>6, <2>1 DEF Signs
  <1> QED
    BY <1>3, <1>4, <1>5, <1>6 DEF ListenerStep, Signs

LEMMA NextGoneIsNoticed ==
    ASSUME IInv, SettleInv, Alone, [Next]_vars PROVE GoneIsNoticed'
  <1>1. /\ TypeOK /\ Table!IInv /\ OpsAreInStep /\ StepsMatch /\ PendingIsAlone /\ RunIsLive
        /\ RestartIsOver /\ GoneIsNoticed
    BY DEF IInv, SettleInv
  <1>2. Grows
    BY <1>1, GrowsStep
  <1>3. Resting.pc = "rest" /\ Resting.kind = "none"
    BY <1>1, OpFacts DEF Resting
  <1> SUFFICES ASSUME ComesUp', faults' \cap {"exit_ignored", "switched", "stop_refused"} = {},
                      ~Observed', ~Signs'
               PROVE  \E t \in Tasks : Stops(t)' \/ WillLook(t)'
    BY DEF GoneIsNoticed
  <1>4. \A t \in Tasks : op[t].kind # "switch"
    BY <1>1, <1>2 DEF StepsMatch, Grows
  <1>5. LooksOn \/ \E t \in Tasks : Acts(t)
    BY <1>1, NextActs
  <1>6. \A t \in Tasks : Waits(t) \/ Acts(t)
    BY <1>5 DEF LooksOn, Acts, Others, Waits
  <1>7. ASSUME NEW t \in Tasks, Acts(t)
        PROVE  StopsMove(t) /\ BringsMove(t) /\ RunsMove(t)
    BY <1>7 DEF Acts, SettleMove
  <1>8. ASSUME NEW u \in Tasks, op'[u].pc = "confirm_running" PROVE op[u].pc = "confirm_running"
    BY <1>3, <1>4, <1>6, <1>7, <1>8 DEF Waits, RunsMove
  <1>9. ASSUME ActorBegins PROVE \E t \in Tasks : WillLook(t)'
    <2>1. PICK u \in Tasks : op[u].pc = "confirm_running"
      BY <1>8, <1>9 DEF ComesUp, ActorBegins
    <2>2. ~Queued
      BY <1>1, <1>2, <2>1 DEF PendingIsAlone, Launching, StartPc, Grows
    <2>3. PICK t \in Tasks : Acts(t)
      BY <1>5, <1>9, <2>2 DEF LooksOn
    <2>4. WillLook(t)' \/ op[t].pc = "queue" \/ op[t].kind = "restart"
      BY <1>4, <1>7, <1>9, <2>2, <2>3 DEF BringsMove
    <2>5. op[t].kind # "restart"
      <3>1. CASE u = t
        <4>1. ~op'[t].pc = "confirm_running"
          BY <1>4, <1>7, <2>3 DEF RunsMove
        <4>2. PICK v \in Tasks : op'[v].pc = "confirm_running"
          BY <1>9 DEF ComesUp, ActorBegins
        <4> QED
          BY <1>1, <1>8, <4>1, <4>2, RestartAlone
      <3> QED
        BY <1>1, <2>1, <3>1, RestartAlone
    <2> QED
      BY <1>1, <2>4, <2>5 DEF StepsMatch
  <1>10. ASSUME ~ActorBegins PROVE \E t \in Tasks : Stops(t)' \/ WillLook(t)'
    <2>1. /\ Token' = Token /\ snapshot.state \in {"Starting", "Running"}
          /\ snapshot'.state \in {"Starting", "Running"}
          /\ ActorStays \/ ActorTurns("Starting", "Running")
      BY <1>1, <1>10, ActorStep DEF ActorMoves, ActorStays, ActorTurns, ActorCancels, ComesUp
    <2>2. ComesUp
      <3>1. CASE snapshot'.state = "Starting"
        BY <1>8, <2>1, <3>1 DEF ComesUp, ActorStays, ActorTurns
      <3>2. CASE snapshot'.state = "Running"
        BY <1>5, <1>7, <2>1, <3>2 DEF LooksOn, RunsMove, ComesUp
      <3> QED
        BY <2>1, <3>1, <3>2
    <2>3. ASSUME Observed PROVE \E t \in Tasks : Stops(t)
      <3>1. PICK t \in Tasks : op[t].pc = "await"
        BY <1>1, <2>3, RecordGoes DEF StepsMatch
      <3>2. op[t].kind \in {"stop", "restart"}
        BY <1>1, <1>4, <3>1 DEF OpsAreInStep, KindIsRight, StopPc
      <3>3. op[t].kind # "restart"
        <4>1. ASSUME op[t].kind = "restart" PROVE snapshot.state # "Running"
          BY <1>1, <3>1, <4>1 DEF RestartIsOver, Restarting
        <4> QED
          BY <1>1, <2>2, <3>1, <4>1, RestartAlone DEF ComesUp
      <3> QED
        BY <3>1, <3>2, <3>3 DEF Stops
    <2>4. ~Signs
      BY <1>1, <2>1, SignsStay
    <2>5. PICK t \in Tasks : Stops(t) \/ WillLook(t)
      BY <1>1, <1>2, <2>2, <2>3, <2>4 DEF GoneIsNoticed, Grows
    <2>6. CASE Waits(t)
      BY <1>3, <2>1, <2>5, <2>6 DEF Waits, Stops, WillLook, Launching, TakesOver, Stopped, StartPc
    <2>7. CASE Acts(t) /\ Stops(t)
      BY <1>7, <2>1, <2>7 DEF StopsMove, ActorStays, ActorTurns
    <2>8. CASE Acts(t) /\ WillLook(t)
      <3>1. op[t].pc # "confirm_running"
        BY <2>8 DEF WillLook, TakesOver, Stopped
      <3>2. ActorStays
        BY <1>7, <2>1, <2>8, <3>1 DEF RunsMove, ActorTurns
      <3> QED
        BY <1>1, <1>4, <1>7, <2>1, <2>8, <3>2 DEF BringsMove, RunIsLive
    <2> QED
      BY <1>6, <2>5, <2>6, <2>7, <2>8
  <1> QED
    BY <1>9, <1>10

-----------------------------------------------------------------------------
\* Whoever makes a Steady bot Stopped has seen its process end.
LEMMA StoppedHasSeenTheEnd ==
    ASSUME IInv, SteadyInv, [Next]_vars, Steady', ActorTurns("Stopping", "Stopped")
    PROVE  ~Lives
  <1>1. TypeOK /\ OpsAreInStep /\ Token \in Nat
    BY OpFacts DEF IInv, TypeOK, Token, Snapshot
  <1>2. snapshot.state = "Stopping" /\ snapshot'.state = "Stopped"
    BY DEF ActorTurns
  <1> USE <1>2 DEF ActorStays, ActorBegins, ActorTurns, ActorCancels
  <1>3. ~UNCHANGED actor
    BY DEF actor
  <1>4. ASSUME NEW t \in Tasks, StartStep(t) PROVE FALSE
    BY <1>1, <1>3, <1>4, StartStepEffects, ActorFrame DEF StartStep, StartEffects
  <1>5. ASSUME NEW t \in Tasks, StopStep(t), ~Confirm(t) PROVE FALSE
    BY <1>1, <1>3, <1>5, StopStepEffects, ActorFrame DEF StopStep, StopEffects, OpsAreInStep
  <1>6. ASSUME NEW t \in Tasks, Confirm(t) PROVE ~Lives
    <2>1. op[t].pc = "confirm" /\ op[t].token = Token
      BY <1>1, <1>6, StopStepEffects DEF StopEffects, OpsAreInStep, Steady
    <2> QED
      BY <2>1 DEF SteadyInv, SeesItEnd, Ends
  <1>7. CASE ListenerTells
    BY <1>7, ExitIsNews DEF ListenerTells, Steady, SteadyInv
  <1>8. ASSUME NEW t \in Tasks, NEW kind \in Operations, Call(t, kind) PROVE FALSE
    BY <1>3, <1>8 DEF Call
  <1>9. ASSUME NEW g \in Generation, ProcessExits(g) \/ PublishWebui(g) \/ WatcherStep(g)
        PROVE  FALSE
    BY <1>3, <1>9 DEF ProcessExits, PublishWebui, WatcherStep, WatcherSeesExit, PublishExit
  <1>10. ListenerTakes \/ LoginStep \/ UNCHANGED vars => FALSE
    BY <1>3 DEF ListenerTakes, LoginStep, LoginTakesWebui, LoginSpawnsPoller, LoginTakesExit, vars
  <1> QED
    BY <1>4, <1>5, <1>6, <1>7, <1>8, <1>9, <1>10 DEF Next, TaskStep, ListenerStep

LEMMA ShrinksKeepsSteady ==
    ASSUME IInv, SteadyInv, [Next]_vars, Steady', Shrinks PROVE SteadyInv'
  <1>1. TypeOK /\ Table!IInv /\ TokensAreOrdered /\ OpsAreInStep
    BY DEF IInv
  <1>2. Grows
    BY <1>1, GrowsStep
  <1>3. \A t \in Tasks : Known(t)
    BY <1>1, NextKnown
  <1>4. Lives' => Lives /\ Record'.generation = Record.generation
    BY <1>1, LivesOn
  <1>5. \A g \in Generation : Inserted(g)' <=> Inserted(g)
    BY DEF Shrinks
  <1>6. RecordIsLatest'
    BY <1>5 DEF SteadyInv, RecordIsLatest, Shrinks
  <1>7. InsertIsLatest'
    <2>1. SUFFICES ASSUME NEW t \in Tasks, op'[t].pc = "insert", op'[t].token \notin cancelled'
                   PROVE  \A h \in Generation : Inserted(h)' => h <= call'[t].gen
      BY DEF InsertIsLatest
    <2>2. CASE op'[t] = op[t] /\ call'[t] = call[t]
      BY <1>2, <1>5, <2>1, <2>2 DEF SteadyInv, InsertIsLatest, Grows
    <2> QED
      BY <1>3, <2>1, <2>2 DEF Known, TaskMove, InsertMove
  <1>8. SeesItEnd'
    <2>1. SUFFICES ASSUME NEW u \in Tasks, Ends(u)', op'[u].token = Token', Lives'
                   PROVE  op'[u].pc = "await" /\ call'[u].gen = Record'.generation
      BY DEF SeesItEnd
    <2>2. Lives /\ Record'.generation = Record.generation
      BY <1>4, <2>1
    <2>3. ASSUME Ends(u), op'[u].token = op[u].token
          PROVE  op[u].pc = "await" /\ call[u].gen = Record.generation
      <3>1. op[u].token \in 0 .. Token
        BY <1>1 DEF OpsAreInStep, TokenIsKnown
      <3>2. op[u].token = Token
        BY <1>2, <2>1, <2>3, <3>1 DEF Grows
      <3> QED
        BY <2>2, <2>3, <3>2 DEF SteadyInv, SeesItEnd
    <2>4. CASE op'[u] = op[u] /\ call'[u] = call[u]
      BY <2>1, <2>2, <2>3, <2>4 DEF Ends
    <2>5. CASE TaskMove(u)
      BY <2>1, <2>2, <2>3, <2>5 DEF TaskMove, EndMove, Lives
    <2>6. ~(op'[u].pc \in {"start", "request", "look"})
      BY <2>1 DEF Ends
    <2> QED
      BY <1>3, <2>4, <2>5, <2>6 DEF Known
  <1>9. snapshot'.state = "Stopped" => ~Lives'
    <2>1. snapshot'.state = "Stopped" =>
            \/ ActorTurns("Stopping", "Stopped")
            \/ snapshot.state = "Stopped"
      BY <1>1, ActorStep DEF ActorMoves, ActorStays, ActorBegins, ActorTurns, ActorCancels
    <2> QED
      BY <1>4, <2>1, StoppedHasSeenTheEnd DEF SteadyInv
  <1> QED
    BY <1>6, <1>7, <1>8, <1>9 DEF SteadyInv

LEMMA InsertKeepsSteady ==
    ASSUME IInv, Alone, [Next]_vars, SteadyInv, Steady', NEW t \in Tasks, Insert(t)
    PROVE  SteadyInv'
  <1>1. TypeOK /\ Table!IInv /\ TokensAreOrdered /\ OpsAreInStep
    BY DEF IInv
  <1>2. Grows
    BY <1>1, GrowsStep
  <1>3. OneClaim
    BY <1>2 DEF IInv, Steady, Apart, Grows
  <1>4. op[t].pc = "insert" /\ Goes(t, "recheck") /\ Native!LaunchInsert(t)
    BY <1>1, StartStepEffects DEF StartEffects
  <1>5. RecordFacts /\ TableTypes /\ CallFacts(t)
    BY <1>1, TableFacts, TypeFacts
  <1>6. ActorStays /\ snapshot' = snapshot /\ cancelled' = cancelled /\ Token' = Token
    BY ActorFrame DEF actor, ActorStays, Token
  <1>7. op[t].token \notin cancelled
    BY DEF Insert, Stale, TokenCancelled, Steady
  <1>8. Launching(t) /\ Claims(t)
    BY <1>4 DEF Launching, StartPc, Claims
  <1>9. /\ op[t].token = Token /\ Token # 0 /\ Token \notin cancelled
        /\ snapshot.state \in {"Starting", "Running"}
    BY <1>1, <1>7, <1>8, TokenIsCurrent DEF OpsAreInStep, TokenIsKnown
  <1> DEFINE g == call[t].gen
  <1>10. /\ g \in Generation /\ watcher[g] = "none" /\ call[t].bot = Bot
         /\ \A h \in Generation : Inserted(h) => h <= g
    BY <1>4, <1>5, <1>7 DEF Native!LaunchInsert, CallFacts, SteadyInv, InsertIsLatest
  <1>11. /\ Record'.generation = g
         /\ \A h \in Generation : Inserted(h)' <=> Inserted(h) \/ h = g
    BY <1>1, InsertFacts
  <1>12. Others(t) /\ op'[t].pc = "recheck" /\ op'[t].token = op[t].token
    BY <1>1, <1>4, OthersStay DEF TaskStep, StartStep, Goes, Moves
  <1>13. g \in Nat
    BY <1>5, <1>10 DEF TableTypes
  <1> HIDE DEF g
  <1>14. RecordIsLatest'
    BY <1>10, <1>11, <1>13 DEF RecordIsLatest
  <1>15. InsertIsLatest'
    <2>1. ASSUME NEW u \in Tasks, op'[u].pc = "insert", op'[u].token \notin cancelled'
          PROVE  FALSE
      <3>1. u # t /\ op[u].pc = "insert" /\ op[u].token \notin cancelled
        BY <1>6, <1>12, <2>1 DEF Others
      <3>2. Launching(u) /\ Claims(u)
        BY <3>1 DEF Launching, Claims, StartPc
      <3>3. op[u].token = Token
        BY <1>1, <3>1, <3>2, TokenIsCurrent DEF OpsAreInStep, TokenIsKnown
      <3> QED
        BY <1>3, <1>8, <1>9, <3>1, <3>2, <3>3 DEF OneClaim
    <2> QED
      BY <2>1 DEF InsertIsLatest
  <1>16. SeesItEnd'
    <2>1. ASSUME NEW u \in Tasks, Ends(u)', op'[u].token = Token' PROVE FALSE
      <3>1. u # t /\ Ends(u) /\ op[u].token = Token
        BY <1>6, <1>12, <2>1 DEF Others, Ends
      <3>2. op[u].kind \in {"stop", "restart", "switch"} /\ TokenIsKnown(u)
        BY <1>1, <3>1 DEF OpsAreInStep, KindIsRight, StopPc, Ends
      <3>3. CASE op[u].kind = "stop"
        BY <1>9, <3>1, <3>2, <3>3 DEF TokenIsKnown, Ends
      <3>4. CASE op[u].kind = "restart"
        BY <1>1, <1>4, <3>1, <3>4, RestartAlone
      <3>5. CASE op[u].kind = "switch"
        <4>1. Claims(u)
          BY <1>9, <3>1, <3>5 DEF Claims, Ends
        <4> QED
          BY <1>3, <1>8, <1>9, <3>1, <4>1 DEF OneClaim
      <3> QED
        BY <3>2, <3>3, <3>4, <3>5
    <2> QED
      BY <2>1 DEF SeesItEnd
  <1> QED
    BY <1>6, <1>9, <1>14, <1>15, <1>16 DEF SteadyInv

-----------------------------------------------------------------------------
LEMMA InitSettle == Init => SettleInv
  <1> SUFFICES ASSUME Init PROVE SettleInv
    OBVIOUS
  <1>1. /\ snapshot = NewSnapshot /\ cancelled = {} /\ op = [t \in Tasks |-> Resting]
        /\ faults = {} /\ snapshot.state = "Stopped" /\ ~snapshot.pending_restart
    BY DEF Init, NewSnapshot
  <1>2. processes[Bot] = Native!NoRecord /\ \A t \in Tasks : call[t].pc = "idle"
    BY DEF Init, Native!Init, Native!IdleCall
  <1>3. \A t \in Tasks : op[t].pc = "rest" /\ op[t].kind = "none"
    BY <1>1 DEF Resting
  <1>4. ~Lives /\ Record = Native!NoRecord
    BY <1>2 DEF Lives, Record
  <1>5. SteadyInv
    BY <1>3, <1>4 DEF SteadyInv, RecordIsLatest, InsertIsLatest, SeesItEnd
  <1>6. StepsMatch /\ StoppingEnds /\ PendingIsOwned /\ PendingIsAlone
    BY <1>1, <1>2, <1>3 DEF StepsMatch, StoppingEnds, PendingIsOwned, PendingIsAlone, Queued, Aborted
  <1>7. RunIsLive /\ StartingIsOwned /\ RestartIsOver /\ GoneIsNoticed /\ KilledSoon
    BY <1>1, <1>3, <1>4 DEF RunIsLive, StartingIsOwned, RestartIsOver, GoneIsNoticed, ComesUp, KilledSoon
  <1> QED
    BY <1>5, <1>6, <1>7 DEF SettleInv

LEMMA NextSettle == ASSUME Alone PROVE IInv /\ SettleInv /\ [Next]_vars => SettleInv'
  <1> SUFFICES ASSUME IInv, SettleInv, [Next]_vars PROVE SettleInv'
    OBVIOUS
  <1>1. StepsMatch' /\ StoppingEnds' /\ PendingIsOwned' /\ PendingIsAlone'
    BY NextStepsMatch, NextStopping
  <1>2. RunIsLive' /\ StartingIsOwned' /\ RestartIsOver'
    BY NextRunIsLive, NextStartingIsOwned, NextRestartIsOver DEF SettleInv
  <1>3. GoneIsNoticed' /\ KilledSoon'
    BY NextGoneIsNoticed, NextKilledSoon
  <1>4. Steady' => SteadyInv'
    <2>1. TypeOK /\ Table!IInv /\ OpsAreInStep
      BY DEF IInv
    <2>2. Steady' => Steady
      BY <2>1, GrowsStep DEF Grows, Steady, Apart
    <2> QED
      BY <2>1, <2>2, NextShrinks, ShrinksKeepsSteady, InsertKeepsSteady DEF SettleInv
  <1> QED
    BY <1>1, <1>2, <1>3, <1>4 DEF SettleInv

\* When a bot comes to rest, nobody is left who would have brought it there.
LEMMA RestsWell == ASSUME IInv, SettleInv, Alone PROVE SettledStateIsTrue
  <1> SUFFICES ASSUME Quiet
               PROVE  /\ snapshot.state = "Running" => Observed \/ faults \cap {"exit_ignored", "switched", "stop_refused"} # {}
                      /\ snapshot.state = "Stopped" =>
                            \/ ~Observed \/ "stale_start" \in faults
                            \/ "kill_failed" \in faults /\ faults \cap {"stale_exit", "late_confirm", "other_token"} # {}
                      /\ snapshot.state = "Stopping" => "restart_aborted" \in faults
                      /\ snapshot.state = "Starting" => faults \cap {"restart_aborted", "switch_stranded"} # {}
    BY DEF SettledStateIsTrue
  <1>1. \A t \in Tasks : op[t].pc = "rest" /\ op[t].kind = "none"
    BY OpFacts DEF Quiet, IInv
  <1>2. \A t \in Tasks : /\ ~Stops(t) /\ ~Restarting(t) /\ ~Kills(t)
                         /\ ~Brings(t) /\ ~Strays(t) /\ ~WillLook(t)
    BY <1>1 DEF Stops, Restarting, Kills, Brings, Strays, WillLook, Restarted, Launching,
       TakesOver, StartPc
  <1>3. ~Signs
    BY DEF Quiet, Signs, boxes, Receiving
  <1>4. Observed => Lives
    <2>1. RecordFacts
      BY TableFacts DEF IInv
    <2> QED
      BY <2>1 DEF Quiet, RecordFacts, Observed, Lives, Record
  <1>5. snapshot.state = "Running" => Observed \/ faults \cap {"exit_ignored", "switched", "stop_refused"} # {}
    BY <1>2, <1>3 DEF SettleInv, GoneIsNoticed, ComesUp
  <1>6. ASSUME snapshot.state = "Stopped", Observed, "stale_start" \notin faults
        PROVE  "kill_failed" \in faults /\ faults \cap {"stale_exit", "late_confirm", "other_token"} # {}
    <2>1. "kill_failed" \in faults
      BY <1>2, <1>4, <1>6 DEF SettleInv, KilledSoon
    <2>2. ~Steady
      BY <1>4, <1>6 DEF SettleInv, SteadyInv
    <2> QED
      BY <1>6, <2>1, <2>2 DEF Steady, Apart, Alone
  <1>7. /\ snapshot.state = "Stopping" => "restart_aborted" \in faults
        /\ snapshot.state = "Starting" => faults \cap {"restart_aborted", "switch_stranded"} # {}
    BY <1>2 DEF SettleInv, StoppingEnds, StartingIsOwned, Aborted
  <1> QED
    BY <1>5, <1>6, <1>7

-----------------------------------------------------------------------------
(* Who disposes of the poller and the endpoint of a process that has gone,  *)
(* and who still has to register those of the process that is recorded,     *)
(* while one operation runs at a time.                                      *)

Single == Overlapping = {}

\* One task runs an operation, and a launch that comes to its insert is the latest.
OneAtATime == \A t, u \in Tasks : op[t] # Resting /\ op[u] # Resting => t = u
InsertsInOrder ==
    \A t \in Tasks : op[t].pc = "insert" =>
        \A h \in Generation : Inserted(h) => h <= call[t].gen

\* A stop that is past backend.stop leaves no record; while it waits for the kill,
\* the record is gone or is the one it marked.
StopsItsOwn ==
    \A t \in Tasks :
        /\ op[t].pc \in {"confirm", "dispose", "endpoint"} => ~Observed
        /\ (op[t].pc = "await" /\ Observed) =>
              Record.stop_requested /\ Record.pid = call[t].pid

\* Nothing is told of a process that is not inserted, nor of a WebUI that none
\* announces; and the exits the login listener has yet to read are over.
NewsIsNew ==
    /\ \A g \in Generation : watcher[g] = "none" => published[g] = {}
    /\ Announcing = {} => loginTask = 0 /\ poller = 0 /\ endpoint = 0 /\ webuiBox = <<>>
    /\ \A i \in 1 .. Len(loginExitBox) : watcher[loginExitBox[i]] = "done"

IsIn(g, box) == \E i \in 1 .. Len(box) : box[i] = g
Excused == faults \cap LoginFaults # {}

\* A stop is at the steps pcs, or at the confirm_stopped that precedes them.
Disposes(pcs) ==
    ~Observed /\ \E t \in Tasks : \/ op[t].pc \in pcs
                                  \/ op[t].kind = "stop" /\ op[t].pc = "confirm"

\* Process g is recorded or was dropped, its exit is on its way to the login
\* listener, or a stop comes to dispose_poller: what was registered for it will go.
Minded(g, pcs) ==
    \/ Record.generation = g \/ g \in dropped \/ watcher[g] = "publishing"
    \/ IsIn(g, loginExitBox) \/ Disposes(pcs)
GoneIsDisposed ==
    \/ Excused
    \/ /\ poller # 0 => Minded(poller, {"await", "dispose"})
       /\ endpoint # 0 => Minded(endpoint, {"await", "dispose", "endpoint"})

\* The WebUI that the recorded process announced is registered, or is about to be.
Told(g) == IsIn(g, webuiBox) \/ (endpoint = g /\ (loginTask = g \/ poller = g))
NewsIsTold ==
    \/ Excused
    \/ \A g \in Generation :
          Record.generation = g /\ "webui_available" \in published[g] => Told(g)

LoginInv == /\ OneAtATime /\ InsertsInOrder /\ RecordIsLatest /\ StopsItsOwn
            /\ NewsIsNew /\ GoneIsDisposed /\ NewsIsTold

\* What is appended to a subscription is in it until it is read.
LEMMA BoxFacts ==
    ASSUME NEW box \in Seq(Generation), NEW e \in Generation, NEW g \in Generation
    PROVE  /\ IsIn(e, Append(box, e))
           /\ IsIn(g, box) => IsIn(g, Append(box, e))
           /\ IsIn(g, box) => Head(box) = g \/ IsIn(g, Tail(box))
           /\ box # <<>> => Head(box) \in Generation
  <1>1. Len(box) \in Nat /\ Len(Append(box, e)) = Len(box) + 1
    OBVIOUS
  <1>2. IsIn(e, Append(box, e))
    BY <1>1, Append(box, e)[Len(box) + 1] = e DEF IsIn
  <1>3. ASSUME IsIn(g, box) PROVE IsIn(g, Append(box, e))
    <2>1. PICK i \in 1 .. Len(box) : box[i] = g
      BY <1>3 DEF IsIn
    <2>2. Append(box, e)[i] = g /\ i \in 1 .. Len(Append(box, e))
      BY <1>1, <2>1
    <2> QED
      BY <2>2 DEF IsIn
  <1>4. ASSUME IsIn(g, box), Head(box) # g PROVE IsIn(g, Tail(box))
    <2>1. PICK i \in 1 .. Len(box) : box[i] = g
      BY <1>4 DEF IsIn
    <2>2. i # 1 /\ box # <<>>
      BY <1>4, <2>1
    <2>3. Tail(box)[i - 1] = g /\ i - 1 \in 1 .. Len(Tail(box))
      BY <1>1, <2>1, <2>2
    <2> QED
      BY <2>3 DEF IsIn
  <1> QED
    BY <1>2, <1>3, <1>4

\* Beside a task that takes a step, none runs an operation.
LEMMA ActsAlone ==
    ASSUME TypeOK, OpsAreInStep, OneAtATime, NEW t \in Tasks, TaskStep(t)
    PROVE  op[t].pc \in StartPc \cup StopPc /\ \A u \in Tasks : u # t => op[u] = Resting
  <1>1. op[t].pc \in StartPc \cup StopPc
    BY StartStepEffects, StopStepEffects
    DEF TaskStep, StartStep, StopStep, StartEffects, StopEffects, OpsAreInStep, StartPc, StopPc
  <1>2. op[t] # Resting
    BY <1>1, OpFacts DEF StartPc, StopPc
  <1> QED
    BY <1>1, <1>2 DEF OneAtATime

LEMMA NextOneAtATime ==
    ASSUME Single, TypeOK, Table!IInv, OpsAreInStep, OneAtATime, [Next]_vars
    PROVE  OneAtATime'
  <1>1. ASSUME NEW t \in Tasks, NEW kind \in Operations, Call(t, kind) PROVE OneAtATime'
    <2>1. \A u \in Tasks : u # t => op'[u] = op[u] /\ op[u] = Resting
      BY <1>1, CallStays DEF Single
    <2> QED
      BY <2>1 DEF OneAtATime, Resting
  <1>2. ASSUME NEW t \in Tasks, TaskStep(t) PROVE OneAtATime'
    BY <1>2, ActsAlone, OthersStay DEF Others, OneAtATime, Resting
  <1>3. op' = op => OneAtATime'
    BY DEF OneAtATime, Resting
  <1> QED
    BY <1>1, <1>2, <1>3, EnvironmentStays DEF Next

LEMMA NextInsertsInOrder ==
    ASSUME Single, TypeOK, Table!IInv, TokensAreOrdered, OpsAreInStep,
           OneAtATime, InsertsInOrder, RecordIsLatest, [Next]_vars
    PROVE  InsertsInOrder' /\ RecordIsLatest'
  <1>1. TableTypes /\ Resting.pc = "rest"
    BY TypeFacts DEF Resting
  <1>2. CASE Shrinks
    <2>1. RecordIsLatest'
      BY <1>2 DEF RecordIsLatest, Shrinks
    <2>2. ASSUME NEW t \in Tasks, op'[t].pc = "insert"
          PROVE  \A h \in Generation : Inserted(h)' => h <= call'[t].gen
      <3>1. Known(t)
        BY NextKnown
      <3>2. CASE op'[t] = op[t] /\ call'[t] = call[t]
        BY <1>2, <2>2, <3>2 DEF InsertsInOrder, Shrinks
      <3> QED
        BY <2>2, <3>1, <3>2 DEF Known, TaskMove, InsertMove
    <2> QED
      BY <2>1, <2>2 DEF InsertsInOrder
  <1>3. ASSUME NEW t \in Tasks, Insert(t) PROVE InsertsInOrder' /\ RecordIsLatest'
    <2> DEFINE g == call[t].gen
    <2>1. /\ op[t].pc = "insert" /\ g \in Generation /\ Record'.generation = g
          /\ \A h \in Generation : Inserted(h)' <=> Inserted(h) \/ h = g
          /\ op'[t].pc = "recheck"
      BY <1>3, InsertFacts DEF Goes, Moves
    <2>2. g \in Nat
      BY <1>1, <2>1 DEF TableTypes
    <2>3. RecordIsLatest'
      BY <2>1, <2>2 DEF InsertsInOrder, RecordIsLatest
    <2>4. \A u \in Tasks : op'[u].pc # "insert"
      BY <1>1, <1>3, <2>1, ActsAlone, OthersStay DEF Others, TaskStep, StartStep
    <2> QED
      BY <2>3, <2>4 DEF InsertsInOrder
  <1> QED
    BY <1>2, <1>3, NextShrinks

\* Everybody but the tasks leaves the record alone or, as a watcher, removes it.
LEMMA EnvironmentRecord ==
    ASSUME Table!IInv,
           \/ \E g \in Generation : ProcessExits(g) \/ PublishWebui(g) \/ WatcherStep(g)
           \/ ListenerStep \/ LoginStep \/ UNCHANGED vars
           \/ \E t \in Tasks, kind \in Operations : Call(t, kind)
    PROVE  Record' = Record \/ ~Observed'
  <1>1. TableTypes
    BY TypeFacts
  <1>2. ASSUME NEW g \in Generation, ProcessExits(g) \/ PublishWebui(g) \/ WatcherStep(g)
        PROVE  Record' = Record \/ ~Observed'
    BY <1>1, <1>2 DEF ProcessExits, PublishWebui, WatcherStep, WatcherSeesExit, PublishExit,
       Native!ProcessExits, Native!LogReaderSeesWebui, Native!WatcherSeesExit,
       Native!WatcherClears, Native!WatcherPublishes, TableTypes, Record, Observed
  <1>3. ASSUME \/ ListenerStep \/ LoginStep \/ UNCHANGED vars
               \/ \E t \in Tasks, kind \in Operations : Call(t, kind)
        PROVE  Record' = Record
    BY <1>3 DEF ListenerStep, ListenerTakes, ListenerTells, LoginStep, LoginTakesWebui,
       LoginSpawnsPoller, LoginTakesExit, Call, deployment, vars, Record
  <1> QED
    BY <1>2, <1>3

\* A stop's call holds the pid it marked.
LEMMA CallIsTyped ==
    ASSUME TypeOK, NEW t \in Tasks, call[t].pc = "kill" PROVE call[t] \in Native!StopCall
  <1>1. call[t] \in Native!LaunchCall \cup Native!StopCall
                      \cup {Native!IdleCall(r) : r \in Native!Outcome}
    BY DEF TypeOK, Native!TypeOK
  <1> QED
    BY <1>1 DEF Native!LaunchCall, Native!IdleCall

\* A stop acts on the record it marked, or on none.
LEMMA NextStopsItsOwn ==
    ASSUME Single, TypeOK, Table!IInv, OpsAreInStep, OneAtATime, StopsItsOwn, [Next]_vars
    PROVE  StopsItsOwn'
  <1>1. TableTypes /\ RecordFacts /\ \A t \in Tasks : CallFacts(t)
    BY TypeFacts, TableFacts
  <1>2. Resting.pc = "rest" /\ (Observed <=> Record # Native!NoRecord)
    BY DEF Resting, Observed, Record
  <1> DEFINE Own(t) == /\ op[t].pc \in {"confirm", "dispose", "endpoint"} => ~Observed
                       /\ (op[t].pc = "await" /\ Observed) =>
                             Record.stop_requested /\ Record.pid = call[t].pid
  <1>3. ASSUME op' = op, call' = call, Record' = Record \/ ~Observed' PROVE StopsItsOwn'
    BY <1>2, <1>3 DEF StopsItsOwn, Observed, Record
  <1>4. ASSUME NEW t \in Tasks, NEW kind \in Operations, Call(t, kind) PROVE StopsItsOwn'
    <2>1. call' = call /\ (Record' = Record \/ ~Observed')
      BY <1>4, CallStays, EnvironmentRecord DEF deployment
    <2>2. op'[t].pc \in {"start", "request", "look"} /\ \A u \in Tasks : u # t => op'[u] = op[u]
      BY <1>4, CallStays
    <2> QED
      BY <1>2, <2>1, <2>2 DEF StopsItsOwn, Observed, Record
  <1>5. ASSUME NEW t \in Tasks, TaskStep(t), Own(t)' PROVE StopsItsOwn'
    <2>1. \A u \in Tasks : u # t => op'[u].pc = "rest"
      BY <1>2, <1>5, ActsAlone, OthersStay DEF Others
    <2> QED
      BY <1>5, <2>1 DEF StopsItsOwn
  <1>6. ASSUME NEW t \in Tasks, StartStep(t) PROVE Own(t)'
    BY <1>2, <1>6, StartStepEffects DEF StartStep, StartEffects, Goes, Moves, Rests
  <1>7. ASSUME NEW t \in Tasks, StopStep(t) PROVE Own(t)'
    <2>1. StopEffects(t) /\ Own(t) /\ CallFacts(t)
      BY <1>1, StopStepEffects DEF OpsAreInStep, StopsItsOwn
    <2>2. UNCHANGED deployment => (Observed' <=> Observed)
      BY DEF deployment, Observed
    <2>3. ASSUME \/ Look(t) \/ Request(t) \/ Queue(t) \/ Status(t) \/ StopFailed(t)
                 \/ Confirm(t) \/ DisposePoller(t) \/ DisposeEndpoint(t) \/ After(t)
          PROVE  Own(t)'
      BY <1>2, <2>1, <2>2, <2>3, DeploymentFrame DEF StopEffects, Goes, Moves, Rests
    <2>4. ASSUME BackendStop(t) PROVE Own(t)'
      <3>1. CASE Native!StopNothing(t, Bot)
        <4>1. ~Observed'
          BY <3>1 DEF Native!StopNothing, Observed
        <4> QED
          BY <4>1
      <3>2. CASE Native!StopMark(t, Bot) /\ Goes(t, "await")
        <4>1. /\ call'[t].pid = Record.pid
              /\ Record' = [Record EXCEPT !.stop_requested = TRUE]
              /\ Record \in Native!ManagedProcess
          BY <1>1, <3>2 DEF Native!StopMark, TableTypes, Record
        <4>2. Record'.stop_requested /\ Record'.pid = call'[t].pid
          BY <4>1 DEF Native!ManagedProcess
        <4> QED
          BY <3>2, <4>2 DEF Goes, Moves
      <3> QED
        BY <2>1, <2>4, <3>1, <3>2 DEF StopEffects
    <2>5. ASSUME BackendKills(t) PROVE Own(t)'
      <3>1. op[t].pc = "await" /\ op' = op /\ (Native!StopKill(t) \/ Native!StopKillFails(t))
        BY <2>1, <2>5 DEF StopEffects
      <3>2. call[t] \in Native!StopCall
        BY <3>1, CallIsTyped DEF Native!StopKill, Native!StopKillFails
      <3>3. processes' = processes /\ call'[t].pid = call[t].pid
        BY <1>1, <3>1, <3>2 DEF TableTypes, Native!StopKill, Native!StopKillFails, Native!StopCall
      <3> QED
        BY <2>1, <3>1, <3>3 DEF Record, Observed
    <2>6. ASSUME BackendStopped(t) PROVE Own(t)'
      <3>1. CASE call[t].result = "ok"
        <4>1. call[t].bot = Bot /\ Native!StopSettle(t) /\ op[t].pc = "await"
          BY <2>1, <2>6 DEF StopEffects, CallFacts, Native!StopSettle
        <4>2. Record' = Native!Settled(Record, call[t])
          BY <1>1, <4>1 DEF Native!StopSettle, TableTypes, Record
        <4>3. Observed => Record' = Native!NoRecord
          BY <2>1, <3>1, <4>1, <4>2 DEF Native!Settled
        <4>4. ~Observed => Record' = Native!NoRecord
          BY <1>2, <3>1, <4>2 DEF Native!Settled, Native!NoRecord
        <4> QED
          BY <1>2, <4>3, <4>4 DEF Observed, Record
      <3>2. CASE call[t].result # "ok"
        BY <1>2, <2>1, <2>6, <3>2 DEF StopEffects, Goes, Moves, Rests
      <3> QED
        BY <3>1, <3>2
    <2> QED
      BY <1>7, <2>3, <2>4, <2>5, <2>6 DEF StopStep
  <1> QED
    BY <1>3, <1>4, <1>5, <1>6, <1>7, EnvironmentStays, EnvironmentRecord DEF Next, TaskStep

LEMMA NextNewsIsNew ==
    ASSUME TypeOK, Table!IInv, NewsIsNew, [Next]_vars PROVE NewsIsNew'
  <1>1. /\ TableTypes /\ TableStep /\ \A t \in Tasks : CallFacts(t)
        /\ published \in [Generation -> SUBSET Native!EventKind]
    BY TypeFacts, TableFacts, NextIsTableStep, SameTable DEF TypeOK, Native!TypeOK
  <1>2. Shrinks \/ \E t \in Tasks : Insert(t)
    BY NextShrinks
  <1>3. \A g \in Generation : /\ watcher'[g] = "none" => watcher[g] = "none"
                              /\ watcher[g] = "done" => watcher'[g] = "done"
    <2>1. Shrinks => \A g \in Generation : /\ watcher'[g] = "none" => watcher[g] = "none"
                                           /\ watcher[g] = "done" => watcher'[g] = "done"
      BY DEF Shrinks, Inserted
    <2>2. ASSUME NEW t \in Tasks, Insert(t), NEW g \in Generation
          PROVE  /\ watcher'[g] = "none" => watcher[g] = "none"
                 /\ watcher[g] = "done" => watcher'[g] = "done"
      BY <1>1, <2>2, InsertFacts DEF TableTypes
    <2> QED
      BY <1>2, <2>1, <2>2
  <1>4. \A g \in Generation : watcher'[g] = "none" => published'[g] = {}
    <2>1. ASSUME published' = published
          PROVE  \A g \in Generation : watcher'[g] = "none" => published'[g] = {}
      BY <1>3, <2>1 DEF NewsIsNew
    <2>2. ASSUME NEW h \in Generation, Native!LogReaderSeesWebui(h) \/ Native!WatcherPublishes(h)
          PROVE  \A g \in Generation : watcher'[g] = "none" => published'[g] = {}
      <3>1. watcher[h] # "none" /\ \A g \in Generation : g # h => published'[g] = published[g]
        BY <1>1, <2>2 DEF Native!LogReaderSeesWebui, Native!WatcherPublishes
      <3> QED
        BY <1>3, <3>1 DEF NewsIsNew
    <2> QED
      BY <1>1, <2>1, <2>2 DEF TableStep, deployment, Native!LaunchSpawn, Native!LaunchFails,
         Native!LaunchInsert, Native!StopNothing, Native!StopMark, Native!StopKill,
         Native!StopKillFails, Native!StopSettle, Native!ProcessExits, Native!WatcherSeesExit
  <1> DEFINE Silence == Announcing = {} =>
                           loginTask = 0 /\ poller = 0 /\ endpoint = 0 /\ webuiBox = <<>>
             Exits == \A i \in 1 .. Len(loginExitBox) : watcher[loginExitBox[i]] = "done"
  <1>5. loginExitBox \in Seq(Generation) /\ Silence /\ Exits
    BY DEF TypeOK, NewsIsNew
  <1>6. ASSUME UNCHANGED <<webuiBox, loginExitBox, loginTask>>,
               poller' \in {0, poller}, endpoint' \in {0, endpoint}
        PROVE  Silence' /\ Exits'
    BY <1>3, <1>5, <1>6
  <1>7. ASSUME NEW g \in Generation, PublishExit(g) PROVE Silence' /\ Exits'
    <2>1. watcher'[g] = "done"
      BY <1>1, <1>7 DEF TableTypes, PublishExit, Native!WatcherPublishes
    <2>2. loginExitBox' = <<>> \/ loginExitBox' = Append(loginExitBox, g)
      BY <1>7 DEF PublishExit
    <2>3. Exits'
      BY <1>3, <1>5, <2>1, <2>2
    <2> QED
      BY <1>5, <1>7, <2>3 DEF PublishExit, login
  <1>8. ASSUME NEW g \in Generation, PublishWebui(g) PROVE Silence' /\ Exits'
    BY <1>3, <1>5, <1>8 DEF PublishWebui, login
  <1>9. ASSUME LoginTakesWebui \/ LoginSpawnsPoller PROVE Silence' /\ Exits'
    BY <1>3, <1>5, <1>9 DEF LoginTakesWebui, LoginSpawnsPoller, boxes
  <1>10. ASSUME LoginTakesExit PROVE Silence' /\ Exits'
    <2>1. \A i \in 1 .. Len(Tail(loginExitBox)) :
             Tail(loginExitBox)[i] = loginExitBox[i + 1] /\ i + 1 \in 1 .. Len(loginExitBox)
      BY <1>5, <1>10 DEF LoginTakesExit
    <2>2. Exits'
      BY <1>3, <1>5, <1>10, <2>1 DEF LoginTakesExit
    <2> QED
      BY <1>5, <1>10, <2>2 DEF LoginTakesExit
  <1>11. ASSUME NEW t \in Tasks, TaskStep(t) PROVE Silence' /\ Exits'
    BY <1>6, <1>11, TaskFrame DEF boxes
  <1>12. ASSUME \/ \E t \in Tasks, kind \in Operations : Call(t, kind)
                \/ \E g \in Generation : ProcessExits(g) \/ WatcherSeesExit(g)
                \/ ListenerStep \/ UNCHANGED vars
         PROVE  Silence' /\ Exits'
    BY <1>6, <1>12 DEF Call, ProcessExits, WatcherSeesExit, ListenerStep, ListenerTakes,
       ListenerTells, boxes, login, vars
  <1> QED
    BY <1>4, <1>7, <1>8, <1>9, <1>10, <1>11, <1>12 DEF NewsIsNew, Next, LoginStep, WatcherStep

-----------------------------------------------------------------------------
\* What a step leaves of the record of g: it is replaced, or its process's exit is
\* about to be published, or a stop is at it.
LEMMA RecordIsMinded ==
    ASSUME TypeOK, Table!IInv, OpsAreInStep, StepsMatch, [Next]_vars, ~Excused',
           NEW g \in Generation, Record.generation = g,
           NEW pcs, {"await", "dispose"} \subseteq pcs
    PROVE  Minded(g, pcs)'
  <1>1. /\ TableTypes /\ RecordFacts /\ Table!StopFlagHasOwner
        /\ \A t \in Tasks : CallFacts(t) /\ KindIsRight(t)
    BY TypeFacts, TableFacts DEF Table!IInv, OpsAreInStep
  <1>2. Record # Native!NoRecord /\ 0 \notin Generation
    BY <1>1 DEF RecordFacts, TableTypes
  <1>3. (Record' = Record \/ Record'.generation = Record.generation) => Minded(g, pcs)'
    BY DEF Minded
  <1>4. ASSUME NEW h \in Generation, WatcherSeesExit(h) PROVE Minded(g, pcs)'
    <2>1. Native!WatcherSeesExit(h) /\ op' = op /\ call' = call
      BY <1>4 DEF WatcherSeesExit, Native!WatcherSeesExit
    <2>2. CASE /\ Native!Watches(h, processes[proc[h].bot]) /\ proc[h].bot = Bot
               /\ ~processes[Bot].stop_requested
      <3>1. h = g /\ watcher'[h] = "publishing"
        BY <1>1, <2>1, <2>2 DEF TableTypes, Native!WatcherSeesExit, Native!WatcherClears,
           Native!Watches, Record
      <3> QED
        BY <3>1 DEF Minded
    <2>3. CASE /\ Native!Watches(h, processes[proc[h].bot]) /\ proc[h].bot = Bot
               /\ processes[Bot].stop_requested
      <3>1. PICK t \in Tasks : call[t].pc \in {"kill", "settle"}
        BY <1>1, <2>3 DEF Table!StopFlagHasOwner
      <3>2. op'[t].pc = "await"
        BY <2>1, <3>1 DEF StepsMatch
      <3>3. ~Observed'
        BY <1>1, <2>1, <2>3 DEF TableTypes, Native!WatcherSeesExit, Native!WatcherClears, Observed
      <3> QED
        BY <3>2, <3>3 DEF Minded, Disposes
    <2>4. CASE ~(Native!Watches(h, processes[proc[h].bot]) /\ proc[h].bot = Bot)
      <3>1. Record' = Record
        BY <1>1, <2>1, <2>4 DEF TableTypes, Native!WatcherSeesExit, Native!WatcherClears, Record
      <3> QED
        BY <1>3, <3>1
    <2> QED
      BY <2>2, <2>3, <2>4
  <1>5. ASSUME NEW t \in Tasks, Insert(t) PROVE Minded(g, pcs)'
    BY <1>2, <1>5, InsertFacts DEF Minded
  <1>6. ASSUME NEW t \in Tasks, Native!StopMark(t, Bot) PROVE Record'.generation = Record.generation
    BY <1>1, <1>2, <1>6 DEF TableTypes, Native!StopMark, Native!ManagedProcess, Record
  <1>7. ASSUME NEW t \in Tasks, BackendStopped(t) PROVE Minded(g, pcs)'
    <2>1. /\ StopEffects(t) /\ call[t].bot = Bot /\ Native!StopSettle(t) /\ op[t].pc = "await"
          /\ call[t].result \in {"ok", "err"}
      BY <1>1, <1>7, StopStepEffects DEF StopEffects, CallFacts, Native!StopSettle
    <2>2. Record' = Native!Settled(Record, call[t])
      BY <1>1, <2>1 DEF Native!StopSettle, TableTypes, Record
    <2>3. Record \in Native!ManagedProcess
      BY <1>1, <1>2 DEF TableTypes
    <2>4. CASE call[t].result = "err"
      <3>1. Record'.generation = Record.generation
        BY <2>2, <2>3, <2>4 DEF Native!Settled, Native!ManagedProcess
      <3> QED
        BY <1>3, <3>1
    <2>5. CASE call[t].result = "ok" /\ Record' # Record
      <3>1. ~Observed'
        BY <2>2, <2>5 DEF Native!Settled, Observed, Record
      <3>2. op[t].kind \in {"stop", "restart"}
        <4>1. op[t].kind \in {"stop", "restart", "switch"}
          BY <1>1, <2>1 DEF KindIsRight, StopPc
        <4>2. op[t].kind = "switch" => "switched" \in faults'
          BY <1>7 DEF StepsMatch, BackendStopped
        <4> QED
          BY <4>1, <4>2 DEF Excused, LoginFaults
      <3>3. op'[t].kind = op[t].kind /\ op'[t].pc = AfterBackendStop(t)
        BY <1>7, <2>1, <2>5 DEF StopEffects, Goes, Moves
      <3> QED
        BY <3>1, <3>2, <3>3 DEF Minded, Disposes, AfterBackendStop
    <2> QED
      BY <1>3, <2>1, <2>4, <2>5
  <1>8. \/ Record' = Record
        \/ \E h \in Generation : WatcherSeesExit(h)
        \/ \E t \in Tasks : Insert(t) \/ Native!StopMark(t, Bot) \/ BackendStopped(t)
    <2> USE DEF Record, deployment
    <2>1. ASSUME NEW t \in Tasks, StartStep(t), ~Insert(t) PROVE Record' = Record
      BY <2>1, DeploymentFrame DEF StartStep, Spawn, Native!LaunchSpawn, Native!LaunchFails
    <2>2. ASSUME NEW t \in Tasks, StopStep(t), ~BackendStopped(t), ~Native!StopMark(t, Bot)
          PROVE  Record' = Record
      BY <2>2, DeploymentFrame DEF StopStep, BackendStop, BackendKills, Native!StopNothing,
         Native!StopKill, Native!StopKillFails
    <2>3. ASSUME NEW h \in Generation, ProcessExits(h) \/ PublishWebui(h) \/ PublishExit(h)
          PROVE  Record' = Record
      BY <2>3 DEF ProcessExits, PublishWebui, PublishExit, Native!ProcessExits,
         Native!LogReaderSeesWebui, Native!WatcherPublishes
    <2>4. ASSUME \/ \E t \in Tasks, kind \in Operations : Call(t, kind)
                 \/ ListenerStep \/ LoginStep \/ UNCHANGED vars
          PROVE  Record' = Record
      BY <2>4 DEF Call, ListenerStep, ListenerTakes, ListenerTells, LoginStep, LoginTakesWebui,
         LoginSpawnsPoller, LoginTakesExit, vars
    <2> QED
      BY <2>1, <2>2, <2>3, <2>4 DEF Next, TaskStep, WatcherStep
  <1> QED
    BY <1>3, <1>4, <1>5, <1>6, <1>7, <1>8

\* Whoever will dispose of the poller, or of the endpoint, goes on until he has.
LEMMA DisposesStays ==
    ASSUME Single, TypeOK, Table!IInv, OpsAreInStep, StepsMatch, OneAtATime, StopsItsOwn,
           [Next]_vars, ~Excused',
           NEW pcs \in {{"await", "dispose"}, {"await", "dispose", "endpoint"}}, Disposes(pcs),
           \A t \in Tasks : /\ DisposePoller(t) => "endpoint" \in pcs
                            /\ DisposeEndpoint(t) => "endpoint" \notin pcs
    PROVE  Disposes(pcs)'
  <1>1. PICK t \in Tasks : \/ op[t].pc \in pcs
                           \/ op[t].kind = "stop" /\ op[t].pc = "confirm"
    BY DEF Disposes
  <1>2. ~Observed /\ op[t] # Resting /\ op[t].pc # "insert" /\ Resting.pc = "rest"
    BY <1>1 DEF Disposes, Resting
  <1>3. ~Observed'
    <2>1. ASSUME NEW u \in Tasks, Insert(u) PROVE FALSE
      BY <1>2, <2>1, ActsAlone, InsertFacts DEF TaskStep, StartStep
    <2>2. Shrinks
      BY <2>1, NextShrinks
    <2> QED
      BY <1>2, <2>2 DEF Shrinks, Observed, Record
  <1>4. op'[t] = op[t] => Disposes(pcs)'
    BY <1>1, <1>3 DEF Disposes
  <1>5. ASSUME TaskStep(t) PROVE Disposes(pcs)'
    <2>1. StartStep(t) => op[t].pc \in StartPc
      BY StartStepEffects DEF StartStep, StartEffects, StartPc
    <2>2. StopStep(t)
      BY <1>1, <1>5, <2>1 DEF TaskStep, StartPc
    <2>3. StopEffects(t) /\ KindIsRight(t)
      BY StopStepEffects DEF OpsAreInStep
    <2>4. ASSUME BackendStopped(t) PROVE Disposes(pcs)'
      <3>1. call[t].result = "ok"
        BY <1>2, <1>3, <2>4 DEF BackendStopped, Excused, LoginFaults
      <3>2. op[t].kind \in {"stop", "restart"}
        <4>1. op[t].kind \in {"stop", "restart", "switch"}
          BY <2>3, <2>4 DEF KindIsRight, StopPc, StopEffects
        <4>2. op[t].kind = "switch" => "switched" \in faults'
          BY <2>4 DEF StepsMatch, BackendStopped
        <4> QED
          BY <4>1, <4>2 DEF Excused, LoginFaults
      <3>3. op'[t].kind = op[t].kind /\ op'[t].pc = AfterBackendStop(t)
        BY <2>3, <2>4, <3>1 DEF StopEffects, Goes, Moves
      <3> QED
        BY <1>3, <3>2, <3>3 DEF Disposes, AfterBackendStop
    <2>5. ASSUME Confirm(t) PROVE Disposes(pcs)'
      <3>1. op[t].kind = "stop" /\ "stop_refused" \notin faults'
        BY <1>1, <2>3, <2>5 DEF StopEffects, Excused, LoginFaults
      <3>2. op'[t].pc = "dispose"
        BY <2>3, <2>5, <3>1 DEF StopEffects, Moves
      <3> QED
        BY <1>3, <3>2 DEF Disposes
    <2>6. ASSUME DisposePoller(t) PROVE Disposes(pcs)'
      BY <1>3, <2>3, <2>6 DEF StopEffects, Goes, Moves, Disposes
    <2>7. ASSUME BackendKills(t) PROVE Disposes(pcs)'
      BY <1>4, <2>3, <2>7 DEF StopEffects
    <2> QED
      BY <1>1, <2>2, <2>3, <2>4, <2>5, <2>6, <2>7 DEF StopStep, StopEffects
  <1>6. ASSUME NEW u \in Tasks, TaskStep(u), u # t PROVE FALSE
    BY <1>2, <1>6, ActsAlone
  <1>7. ASSUME NEW u \in Tasks, NEW kind \in Operations, Call(u, kind) PROVE op'[t] = op[t]
    BY <1>2, <1>7, CallStays
  <1> QED
    BY <1>4, <1>5, <1>6, <1>7, EnvironmentStays DEF Next

LEMMA MindedStays ==
    ASSUME Single, TypeOK, Table!IInv, OpsAreInStep, StepsMatch, OneAtATime, StopsItsOwn,
           [Next]_vars, ~Excused', Announcing # {}, ~LoginTakesExit,
           NEW pcs \in {{"await", "dispose"}, {"await", "dispose", "endpoint"}},
           \A t \in Tasks : /\ DisposePoller(t) => "endpoint" \in pcs
                            /\ DisposeEndpoint(t) => "endpoint" \notin pcs,
           NEW g \in Generation, Minded(g, pcs)
    PROVE  Minded(g, pcs)'
  <1>1. TableTypes /\ loginExitBox \in Seq(Generation) /\ \A t \in Tasks : CallFacts(t)
    BY TypeFacts, TableFacts DEF TypeOK
  <1>2. ASSUME Record.generation = g PROVE Minded(g, pcs)'
    BY <1>2, RecordIsMinded
  <1>3. ASSUME Disposes(pcs) PROVE Minded(g, pcs)'
    BY <1>3, DisposesStays DEF Minded
  <1>4. ASSUME g \in dropped PROVE Minded(g, pcs)'
    <2>1. g \in dropped'
      BY <1>4, NextShrinks, InsertFacts DEF Shrinks
    <2> QED
      BY <2>1 DEF Minded
  <1>5. ASSUME IsIn(g, loginExitBox) PROVE Minded(g, pcs)'
    <2>1. ASSUME loginExitBox' = loginExitBox PROVE IsIn(g, loginExitBox')
      BY <1>5, <2>1
    <2>2. ASSUME NEW h \in Generation, PublishExit(h) PROVE IsIn(g, loginExitBox')
      BY <1>1, <1>5, <2>2, BoxFacts DEF PublishExit
    <2>3. ASSUME ~(\E h \in Generation : PublishExit(h)) PROVE loginExitBox' = loginExitBox
      <3>1. ASSUME NEW t \in Tasks, TaskStep(t) PROVE loginExitBox' = loginExitBox
        BY <3>1, TaskFrame DEF boxes
      <3> QED
        BY <2>3, <3>1 DEF Next, Call, ProcessExits, PublishWebui, WatcherStep, WatcherSeesExit,
           ListenerStep, ListenerTakes, ListenerTells, LoginStep, LoginTakesWebui,
           LoginSpawnsPoller, boxes, vars
    <2>4. IsIn(g, loginExitBox')
      BY <2>1, <2>2, <2>3
    <2> QED
      BY <2>4 DEF Minded, IsIn
  <1>6. ASSUME watcher[g] = "publishing" PROVE Minded(g, pcs)'
    <2>1. ASSUME NEW h \in Generation, PublishExit(h)
          PROVE  watcher'[g] = "publishing" \/ IsIn(g, loginExitBox')
      <3>1. CASE h = g
        BY <1>1, <2>1, <3>1, BoxFacts DEF PublishExit
      <3>2. CASE h # g
        BY <1>1, <1>6, <2>1, <3>2 DEF TableTypes, PublishExit, Native!WatcherPublishes
      <3> QED
        BY <3>1, <3>2
    <2>2. ASSUME \A h \in Generation : ~PublishExit(h) PROVE watcher'[g] = "publishing"
      BY <1>6, <2>2, PublishingStays
    <2> QED
      BY <2>1, <2>2 DEF Minded, IsIn
  <1> QED
    BY <1>2, <1>3, <1>4, <1>5, <1>6 DEF Minded

-----------------------------------------------------------------------------
\* What is registered is that of the recorded process, unless it comes late.
LEMMA RegistersTheRecorded ==
    ASSUME TypeOK, [Next]_vars, ~Excused'
    PROVE  /\ ~Excused
           /\ LoginTakesWebui => Record.generation = Head(webuiBox)
           /\ LoginSpawnsPoller => Record.generation = loginTask
  <1>1. faults \subseteq faults'
    BY FaultsGrow
  <1> QED
    BY <1>1 DEF Excused, LoginFaults, LoginTakesWebui, LoginSpawnsPoller, LateWebui, Record

\* Who else changes the poller or the endpoint disposes of it.
LEMMA LoginFrame ==
    ASSUME TypeOK, [Next]_vars
    PROVE  \/ LoginTakesWebui \/ LoginSpawnsPoller \/ LoginTakesExit
           \/ /\ loginTask' = loginTask
              /\ webuiBox' = webuiBox \/ \E g \in Generation : PublishWebui(g)
              /\ poller' = poller \/ (poller' = 0 /\ \E t \in Tasks : DisposePoller(t))
              /\ endpoint' = endpoint \/ (endpoint' = 0 /\ \E t \in Tasks : DisposeEndpoint(t))
  <1> DEFINE Goal ==
          /\ loginTask' = loginTask
          /\ webuiBox' = webuiBox \/ \E g \in Generation : PublishWebui(g)
          /\ poller' = poller \/ (poller' = 0 /\ \E t \in Tasks : DisposePoller(t))
          /\ endpoint' = endpoint \/ (endpoint' = 0 /\ \E t \in Tasks : DisposeEndpoint(t))
  <1> USE DEF login, boxes
  <1>1. ASSUME NEW t \in Tasks, StartStep(t) PROVE Goal
    BY <1>1 DEF StartStep, StartRequest, StartRefused, ReadToken, Plan, CheckCancel, Spawn,
       Insert, Recheck, FinishStart, StartError, MarkStartCrashed
  <1>2. ASSUME NEW t \in Tasks, StopStep(t) PROVE Goal
    BY <1>2 DEF StopStep, Look, Request, Queue, Status, BackendStop, BackendKills,
       BackendStopped, StopFailed, Confirm, DisposePoller, DisposeEndpoint, After
  <1>3. ASSUME NEW t \in Tasks, NEW kind \in Operations, Call(t, kind) PROVE Goal
    BY <1>3 DEF Call
  <1>4. ASSUME NEW g \in Generation, ProcessExits(g) \/ PublishWebui(g) \/ WatcherStep(g)
        PROVE  Goal
    BY <1>4 DEF ProcessExits, PublishWebui, WatcherStep, WatcherSeesExit, PublishExit
  <1>5. ASSUME ListenerStep \/ UNCHANGED vars PROVE Goal
    BY <1>5 DEF ListenerStep, ListenerTakes, ListenerTells, vars
  <1> QED
    BY <1>1, <1>2, <1>3, <1>4, <1>5 DEF Next, TaskStep, LoginStep

LEMMA NextGoneIsDisposed ==
    ASSUME Single, TypeOK, Table!IInv, OpsAreInStep, StepsMatch, OneAtATime, StopsItsOwn,
           NewsIsNew, GoneIsDisposed, [Next]_vars
    PROVE  GoneIsDisposed'
  <1> SUFFICES ASSUME ~Excused'
               PROVE  /\ poller' # 0 => Minded(poller, {"await", "dispose"})'
                      /\ endpoint' # 0 => Minded(endpoint, {"await", "dispose", "endpoint"})'
    BY DEF GoneIsDisposed
  <1>1. /\ poller # 0 => Minded(poller, {"await", "dispose"})
        /\ endpoint # 0 => Minded(endpoint, {"await", "dispose", "endpoint"})
    BY RegistersTheRecorded DEF GoneIsDisposed
  <1>2. /\ poller \in Generation \cup {0} /\ endpoint \in Generation \cup {0}
        /\ loginTask \in Generation \cup {0} /\ webuiBox \in Seq(Generation)
        /\ Resting.pc = "rest"
    BY DEF TypeOK, Resting
  <1>3. poller # 0 \/ endpoint # 0 => Announcing # {}
    BY DEF NewsIsNew
  <1>4. ASSUME NEW t \in Tasks, DisposePoller(t) PROVE poller' = 0
    BY <1>4 DEF DisposePoller
  <1>5. ASSUME NEW t \in Tasks, DisposeEndpoint(t) PROVE endpoint' = 0
    BY <1>5 DEF DisposeEndpoint
  <1>6. ASSUME NEW t \in Tasks, NEW u \in Tasks, DisposePoller(t), DisposeEndpoint(u) PROVE FALSE
    BY <1>6, StopStepEffects DEF OpsAreInStep, StopEffects, Goes, Moves, OneAtATime, Resting
  <1>7. ASSUME NEW g \in Generation, g = poller, poller' = poller, ~LoginTakesExit
        PROVE  Minded(g, {"await", "dispose"})'
    <2>1. \A t \in Tasks : /\ DisposePoller(t) => "endpoint" \in {"await", "dispose"}
                           /\ DisposeEndpoint(t) => "endpoint" \notin {"await", "dispose"}
      BY <1>2, <1>4, <1>7, LaunchesAssumption DEF Generation
    <2>2. Announcing # {} /\ Minded(g, {"await", "dispose"})
      BY <1>1, <1>3, <1>7, LaunchesAssumption DEF Generation
    <2> QED
      BY <1>7, <2>1, <2>2, MindedStays
  <1>8. ASSUME NEW g \in Generation, g = endpoint, endpoint' = endpoint, ~LoginTakesExit
        PROVE  Minded(g, {"await", "dispose", "endpoint"})'
    <2>1. \A t \in Tasks :
             /\ DisposePoller(t) => "endpoint" \in {"await", "dispose", "endpoint"}
             /\ DisposeEndpoint(t) => "endpoint" \notin {"await", "dispose", "endpoint"}
      BY <1>5, <1>8, LaunchesAssumption DEF Generation
    <2>2. Announcing # {} /\ Minded(g, {"await", "dispose", "endpoint"})
      BY <1>1, <1>3, <1>8, LaunchesAssumption DEF Generation
    <2> QED
      BY <1>8, <2>1, <2>2, MindedStays
  <1>9. ~LoginTakesExit /\ poller' = poller /\ poller # 0 => Minded(poller, {"await", "dispose"})'
    BY <1>2, <1>7 DEF Minded
  <1>10. ~LoginTakesExit /\ endpoint' = endpoint /\ endpoint # 0
            => Minded(endpoint, {"await", "dispose", "endpoint"})'
    BY <1>2, <1>8 DEF Minded
  <1>11. CASE LoginTakesWebui
    <2>1. Minded(endpoint, {"await", "dispose", "endpoint"})'
      BY <1>11, RegistersTheRecorded DEF LoginTakesWebui, deployment, Minded, Record
    <2>2. poller' = poller /\ ~LoginTakesExit
      BY <1>2, <1>11, BoxFacts DEF LoginTakesWebui, LoginTakesExit
    <2> QED
      BY <1>9, <2>1, <2>2
  <1>12. CASE LoginSpawnsPoller
    <2>1. Minded(poller, {"await", "dispose"})'
      BY <1>12, RegistersTheRecorded DEF LoginSpawnsPoller, deployment, Minded, Record
    <2>2. endpoint' = endpoint /\ ~LoginTakesExit
      BY <1>12 DEF LoginSpawnsPoller, LoginTakesExit
    <2> QED
      BY <1>10, <2>1, <2>2
  <1>13. CASE LoginTakesExit
    BY <1>13 DEF LoginTakesExit
  <1> QED
    BY <1>9, <1>10, <1>11, <1>12, <1>13, LoginFrame

LEMMA NextNewsIsTold ==
    ASSUME TypeOK, Table!IInv, OpsAreInStep, RecordIsLatest, StopsItsOwn, NewsIsNew,
           NewsIsTold, [Next]_vars
    PROVE  NewsIsTold'
  <1> SUFFICES ASSUME ~Excused', NEW g \in Generation, Record'.generation = g,
                      "webui_available" \in published'[g]
               PROVE  Told(g)'
    BY DEF NewsIsTold
  <1>1. /\ TableTypes /\ RecordFacts /\ 0 \notin Generation
        /\ webuiBox \in Seq(Generation) /\ loginExitBox \in Seq(Generation)
        /\ published \in [Generation -> SUBSET Native!EventKind]
    BY TypeFacts, TableFacts, SameTable DEF TypeOK, Native!TypeOK, TableTypes
  <1>2. Record.generation = g /\ Observed
    <2>1. ASSUME NEW t \in Tasks, Insert(t) PROVE FALSE
      <3>1. watcher[g] = "none" /\ published' = published
        BY <2>1, InsertFacts
      <3> QED
        BY <3>1 DEF NewsIsNew
    <2>2. Shrinks
      BY <2>1, NextShrinks
    <2> QED
      BY <1>1, <2>2 DEF Shrinks, RecordFacts, Observed, Record
  <1>3. "webui_available" \in published[g] => Told(g)
    BY <1>2, RegistersTheRecorded DEF NewsIsTold
  <1>4. CASE LoginTakesExit
    <2> DEFINE e == Head(loginExitBox)
    <2>1. e \in Generation /\ watcher[e] = "done"
      <3>1. 1 \in 1 .. Len(loginExitBox) /\ e = loginExitBox[1]
        BY <1>1, <1>4 DEF LoginTakesExit
      <3> QED
        BY <1>1, <3>1 DEF NewsIsNew
    <2>2. e <= g /\ e # g
      BY <1>1, <1>2, <2>1 DEF RecordIsLatest, Inserted, RecordFacts, Observed, Record
    <2>3. proc[g].bot = Bot
      BY <1>2, SameTable DEF Table!IInv, Table!EveryRecordIsWatched, Observed, Record
    <2>4. proc[g] # Native!NoProcess
      BY <2>3, BotAssumption DEF Native!NoProcess
    <2>5. g \in e + 1 .. MaxLaunches
      BY <2>1, <2>2, LaunchesAssumption DEF Generation
    <2>6. LaterProcess(e)
      BY <2>4, <2>5 DEF LaterProcess
    <2> QED
      BY <1>4, <2>6 DEF LoginTakesExit, Excused, LoginFaults
  <1>5. CASE LoginTakesWebui
    <2>1. Head(webuiBox) = g /\ Told(g)
      BY <1>2, <1>3, <1>5, RegistersTheRecorded DEF LoginTakesWebui, deployment
    <2> QED
      BY <1>5, <2>1 DEF LoginTakesWebui, Told
  <1>6. CASE LoginSpawnsPoller
    <2>1. loginTask = g /\ Told(g)
      BY <1>2, <1>3, <1>6, RegistersTheRecorded DEF LoginSpawnsPoller, deployment
    <2> QED
      BY <1>6, <2>1 DEF LoginSpawnsPoller, Told, IsIn, boxes
  <1>7. ASSUME NEW t \in Tasks, DisposePoller(t) \/ DisposeEndpoint(t) PROVE FALSE
    BY <1>2, <1>7 DEF DisposePoller, DisposeEndpoint, At, StopsItsOwn
  <1>8. ASSUME NEW h \in Generation, PublishWebui(h), h = g PROVE Told(g)'
    <2>1. IsIn(g, webuiBox')
      BY <1>1, <1>8, BoxFacts DEF PublishWebui
    <2> QED
      BY <2>1 DEF Told, IsIn
  <1>9. ASSUME ~(\E h \in Generation : PublishWebui(h) /\ h = g)
        PROVE  "webui_available" \in published[g]
    <2>1. ASSUME NEW t \in Tasks, TaskStep(t) PROVE published' = published
      BY <2>1, DeploymentFrame DEF TaskStep, StartStep, StopStep, Spawn, Insert, BackendStop,
         BackendKills, BackendStopped, deployment, Native!LaunchSpawn, Native!LaunchFails,
         Native!LaunchInsert, Native!StopMark, Native!StopNothing, Native!StopKill,
         Native!StopKillFails, Native!StopSettle
    <2>2. ASSUME NEW h \in Generation, ProcessExits(h) \/ WatcherSeesExit(h)
          PROVE  published' = published
      BY <2>2 DEF ProcessExits, WatcherSeesExit, Native!ProcessExits, Native!WatcherSeesExit
    <2>3. ASSUME NEW h \in Generation, PublishExit(h) PROVE "webui_available" \in published[g]
      BY <1>1, <2>3 DEF PublishExit, Native!WatcherPublishes
    <2>4. ASSUME NEW h \in Generation, PublishWebui(h) PROVE "webui_available" \in published[g]
      BY <1>1, <1>9, <2>4 DEF PublishWebui, Native!LogReaderSeesWebui
    <2>5. ASSUME \/ \E t \in Tasks, kind \in Operations : Call(t, kind)
                 \/ ListenerStep \/ LoginStep \/ UNCHANGED vars
          PROVE  published' = published
      BY <2>5 DEF Call, ListenerStep, ListenerTakes, ListenerTells, LoginStep,
         LoginTakesWebui, LoginSpawnsPoller, LoginTakesExit, deployment, vars
    <2> QED
      BY <2>1, <2>2, <2>3, <2>4, <2>5 DEF Next, WatcherStep
  <1>10. ASSUME IsIn(g, webuiBox), UNCHANGED webuiBox \/ \E h \in Generation : PublishWebui(h)
         PROVE  Told(g)'
    <2>1. IsIn(g, webuiBox')
      BY <1>1, <1>10, BoxFacts DEF PublishWebui
    <2> QED
      BY <2>1 DEF Told, IsIn
  <1> QED
    BY <1>3, <1>4, <1>5, <1>6, <1>7, <1>8, <1>9, <1>10, LoginFrame DEF Told

-----------------------------------------------------------------------------
LEMMA InitLogin == Init => LoginInv
  <1> SUFFICES ASSUME Init PROVE LoginInv
    OBVIOUS
  <1>1. /\ op = [t \in Tasks |-> Resting] /\ loginExitBox = <<>> /\ webuiBox = <<>>
        /\ loginTask = 0 /\ poller = 0 /\ endpoint = 0
    BY DEF Init
  <1>2. /\ processes[Bot] = Native!NoRecord
        /\ \A g \in Generation : published[g] = {}
    BY SameTable DEF Init, Native!Init
  <1>3. \A t \in Tasks : op[t] = Resting /\ op[t].pc = "rest"
    BY <1>1 DEF Resting
  <1>4. OneAtATime /\ InsertsInOrder /\ StopsItsOwn
    BY <1>3 DEF OneAtATime, InsertsInOrder, StopsItsOwn
  <1>5. RecordIsLatest /\ NewsIsNew /\ GoneIsDisposed /\ NewsIsTold
    BY <1>1, <1>2 DEF RecordIsLatest, Record, NewsIsNew, GoneIsDisposed, NewsIsTold
  <1> QED
    BY <1>4, <1>5 DEF LoginInv

LEMMA SingleIsAlone == Single => Alone
  BY DEF Single, Alone

LEMMA NextLogin ==
    ASSUME Single PROVE IInv /\ SettleInv /\ LoginInv /\ [Next]_vars => LoginInv'
  <1> SUFFICES ASSUME IInv, SettleInv, LoginInv, [Next]_vars PROVE LoginInv'
    OBVIOUS
  <1>1. TypeOK /\ Table!IInv /\ TokensAreOrdered /\ OpsAreInStep /\ StepsMatch
    BY DEF IInv, SettleInv
  <1>2. OneAtATime' /\ InsertsInOrder' /\ RecordIsLatest'
    BY <1>1, NextOneAtATime, NextInsertsInOrder DEF LoginInv
  <1>3. StopsItsOwn' /\ NewsIsNew'
    BY <1>1, NextStopsItsOwn, NextNewsIsNew DEF LoginInv
  <1>4. GoneIsDisposed' /\ NewsIsTold'
    BY <1>1, NextGoneIsDisposed, NextNewsIsTold DEF LoginInv
  <1> QED
    BY <1>2, <1>3, <1>4 DEF LoginInv

\* When everything has settled, nobody has news to tell or a WebUI to dispose of.
LEMMA LoginRestsWell == ASSUME IInv, LoginInv PROVE SettledLoginIsTrue
  <1> SUFFICES ASSUME Quiet, ~Excused
               PROVE  /\ \A g \in {poller, endpoint} \ {0} : proc[g].alive \/ g \in dropped
                      /\ \A g \in Generation :
                            (processes[Bot].generation = g /\ "webui_available" \in published[g])
                                => poller = g /\ endpoint = g
    BY DEF SettledLoginIsTrue, Excused
  <1>1. /\ \A t \in Tasks : op[t].pc = "rest" /\ op[t].kind = "none"
        /\ poller \in Generation \cup {0} /\ endpoint \in Generation \cup {0}
        /\ 0 \notin Generation /\ loginTask = 0 /\ loginExitBox = <<>> /\ webuiBox = <<>>
    BY OpFacts, LaunchesAssumption DEF Quiet, IInv, TypeOK, Generation, boxes
  <1>2. ASSUME NEW g \in Generation, NEW pcs, "rest" \notin pcs, Minded(g, pcs)
        PROVE  proc[g].alive \/ g \in dropped
    <2>1. ~Disposes(pcs) /\ ~IsIn(g, loginExitBox)
      BY <1>1, <1>2 DEF Disposes, IsIn
    <2>2. Record.generation = g => watcher[g] = "waiting"
      BY <1>1, TableFacts DEF IInv, RecordFacts
    <2> QED
      BY <1>2, <2>1, <2>2 DEF Minded, Quiet
  <1>3. \A g \in {poller, endpoint} \ {0} : proc[g].alive \/ g \in dropped
    BY <1>1, <1>2 DEF LoginInv, GoneIsDisposed
  <1>4. ASSUME NEW g \in Generation, Told(g) PROVE poller = g /\ endpoint = g
    BY <1>1, <1>4 DEF Told, IsIn
  <1> QED
    BY <1>3, <1>4 DEF LoginInv, NewsIsTold, Record

-----------------------------------------------------------------------------
(* The theorems.                                                           *)

\* Type correctness of the composed manager (BotManager's maps, the actor's
\* snapshot, the process table, the event subscriptions and the operations) for
\* any tasks, operations and bounds.
THEOREM TypeCorrect == Spec => []TypeOK
  <1>1. IInv => TypeOK
    BY DEF IInv
  <1> QED
    BY <1>1, Invariance, PTL

\* The manager drives the native deployment as NativeDeployment allows: whatever
\* the operations, the listeners and the actor do in between, its process table
\* starts and moves by the deployment's own steps, so that all that is proved of
\* NativeDeployment's table holds under start_bot, stop_bot and restart_bot.
THEOREM DrivesTheDeployment == Spec => Table!Init /\ [][Table!Next]_(Table!vars)
  <1>1. Init => Table!Init
    BY SameTable DEF Init, Native!Init, Table!Init, Native!IdleCall, Table!IdleCall
  <1>2. [Next]_vars => [Table!Next]_(Table!vars)
    BY NextIsTableStep, TableStepIsNext
  <1> QED
    BY <1>1, <1>2, PTL DEF Spec

\* Where restarts do not overlap other operations, a run of the bot has one task in
\* its start pipeline, however many start_bot, stop_bot and backend switches
\* overlap, unless start_runtime_from_starting read the token of a later run.
THEOREM LaunchesAreSingle ==
    ASSUME "restart" \notin Overlapping PROVE Spec => []OneLaunchAtATime
  <1>1. IInv => OneLaunchAtATime
    BY DEF IInv, Apart, OneClaim, OneLaunchAtATime, Claims
  <1> QED
    BY <1>1, Invariance, PTL

\* Where restarts do not overlap other operations, a process that lives on outside
\* the table was left there by a failed kill, an exit event handled after the next
\* launch, a slow stop that confirmed the end of a later run, or a start that went
\* on after its run was over; and by nothing else.
THEOREM OrphansExplained ==
    ASSUME "restart" \notin Overlapping PROVE Spec => []OrphanNeedsFault
  <1>1. IInv => OrphanNeedsFault
    <2> SUFFICES ASSUME IInv, NEW g \in Generation, proc[g].alive, g \in dropped
                 PROVE  faults \cap {"kill_failed", "stale_exit", "stale_start", "other_token",
                                     "late_confirm"} # {}
      BY DEF OrphanNeedsFault
    <2>1. ~Clean
      BY DEF IInv, CleanInv, DroppedAreDead
    <2> QED
      BY <2>1 DEF Clean, Apart
  <1> QED
    BY <1>1, Invariance, PTL

\* Where restarts do not overlap other operations, a bot that start_bot, stop_bot,
\* restart_bot, a backend switch and the exit listener leave alone is in the state
\* the user is shown: nobody has left it Starting or Stopping, no living process is
\* recorded for a Stopped bot, and a Running bot has its record, but for the faults
\* SettledStateIsTrue excuses.
THEOREM SettledStateHolds ==
    ASSUME "restart" \notin Overlapping PROVE Spec => []SettledStateIsTrue
  <1>1. Alone
    BY DEF Alone
  <1>2. Spec => [](IInv /\ SettleInv)
    <2>1. IInv /\ SettleInv /\ [Next]_vars => (IInv /\ SettleInv)'
      BY <1>1, NextIInv, NextSettle
    <2>2. Init => IInv /\ SettleInv
      BY InitIInv, InitSettle
    <2> QED
      BY <2>1, <2>2, PTL DEF Spec
  <1>3. IInv /\ SettleInv => SettledStateIsTrue
    BY <1>1, RestsWell
  <1> QED
    BY <1>2, <1>3, PTL

\* Where one operation runs at a time, the bot's login poller and WebUI endpoint
\* end up as those of the recorded process that announced its WebUI, and none points
\* at a process that is gone: handle_webui_available, the login listener's and
\* stop_bot's dispose_poller see to it between them, whatever the order in which
\* log readers, exit watchers and the two listeners come to act, but for the faults
\* SettledLoginIsTrue excuses.
THEOREM SettledLoginHolds ==
    ASSUME Overlapping = {} PROVE Spec => []SettledLoginIsTrue
  <1>1. Single /\ Alone
    BY DEF Single, Alone
  <1>2. Spec => [](IInv /\ SettleInv /\ LoginInv)
    <2>1. IInv /\ SettleInv /\ LoginInv /\ [Next]_vars => (IInv /\ SettleInv /\ LoginInv)'
      BY <1>1, NextIInv, NextSettle, NextLogin
    <2>2. Init => IInv /\ SettleInv /\ LoginInv
      BY InitIInv, InitSettle, InitLogin
    <2> QED
      BY <2>1, <2>2, PTL DEF Spec
  <1>3. IInv /\ LoginInv => SettledLoginIsTrue
    BY LoginRestsWell
  <1> QED
    BY <1>2, <1>3, PTL
=============================================================================
