----------------------- MODULE NativeDeploymentProofs -----------------------
(***************************************************************************)
(* Proofs about NativeDeployment for any set of bots, tasks and pids and   *)
(* any number of launches.                                                 *)
(***************************************************************************)
EXTENDS NativeDeployment, TLAPS

(***************************************************************************)
(* The strengthening.  A generation is used once: what is not launched yet *)
(* has neither process nor watcher, and a call in flight knows the pid and *)
(* the bot of the generation it is about.                                  *)
(***************************************************************************)
Counted ==
    /\ \A g \in Generation : g >= generation => watcher[g] = "none" /\ proc[g] = NoProcess
    /\ \A g \in Generation : g < generation => proc[g] \in Process
    /\ \A g \in Generation : watcher[g] # "none" => g < generation

CallsAreCurrent ==
    \A t \in Tasks : call[t].pc # "idle" =>
        LET c == call[t]
        IN /\ c.gen \in Generation /\ c.gen < generation
           /\ proc[c.gen].pid = c.pid /\ proc[c.gen].bot = c.bot
           /\ c.pc = "settle" => c.result \in {"ok", "err"}

InsertsAreFresh ==
    \A t \in Tasks : call[t].pc = "insert" =>
        /\ watcher[call[t].gen] = "none"
        /\ \A u \in Tasks : call[u].pc = "insert" /\ call[u].gen = call[t].gen => u = t

\* The operating system gives a pid away only when its process is dead.
PidsAreReusedLater ==
    \A g, h \in Generation :
        (g < h /\ h < generation /\ proc[g].pid = proc[h].pid) => ~proc[g].alive

IInv == /\ TypeOK /\ Counted /\ CallsAreCurrent /\ InsertsAreFresh /\ PidsAreReusedLater
        /\ EveryRecordIsWatched /\ StopFlagHasOwner /\ StopOkMeansDead /\ OrphansExplained

-----------------------------------------------------------------------------
LEMMA NoRecordFacts ==
    /\ NoRecord \notin ManagedProcess /\ 0 \notin Generation /\ Generation \subseteq Nat
    /\ NoRecord.stop_requested = FALSE /\ NoRecord.generation = 0
  BY LaunchesAssumption DEF NoRecord, ManagedProcess, Generation

\* Killing a process changes nothing but that it lives.
LEMMA EndedFacts ==
    ASSUME NEW x \in Process \cup {NoProcess}
    PROVE  LET y == Ended(x)
           IN  /\ y \in Process \cup {NoProcess} /\ (x \in Process => y \in Process)
               /\ x = NoProcess => y = NoProcess
               /\ y.bot = x.bot /\ y.pid = x.pid /\ y.alive = FALSE
  <1> DEFINE e == FALSE
             y == [x EXCEPT !.alive = e]
  <1>1. e \in BOOLEAN
    OBVIOUS
  <1>2. NoProcess = [bot |-> "none", pid |-> "none", alive |-> e]
    BY DEF NoProcess
  <1> HIDE DEF e
  <1> DEFINE Goal == /\ y \in Process \cup {NoProcess} /\ (x \in Process => y \in Process)
                     /\ x = NoProcess => y = NoProcess
                     /\ y.bot = x.bot /\ y.pid = x.pid /\ y.alive = e
  <1>3. ASSUME x \in Process PROVE Goal
    <2>1. y \in Process /\ y.bot = x.bot /\ y.pid = x.pid /\ y.alive = e
      BY <1>1, <1>3 DEF Process
    <2>2. x = NoProcess => y = x
      BY <1>2
    <2> QED
      BY <1>3, <2>1, <2>2
  <1>4. ASSUME x = NoProcess PROVE Goal
    <2>1. y = NoProcess /\ NoProcess.alive = e
      BY <1>2, <1>4
    <2>2. x \in Process => y \in Process
      BY <1>4, <2>1
    <2> QED
      BY <1>2, <1>4, <2>1, <2>2
  <1> QED
    BY <1>3, <1>4 DEF Ended, e

\* What a stop makes of the record: it goes, or stays with another mark.
SettlesTo(r, c, q) ==
    /\ q \in ManagedProcess \cup {NoRecord}
    /\ r = NoRecord => q = NoRecord
    /\ q # NoRecord => q.generation = r.generation /\ q.pid = r.pid
    /\ q.stop_requested = TRUE =>
         r.stop_requested = TRUE /\ (c.result \in {"ok", "err"} => r.pid # c.pid)
    /\ q = NoRecord /\ r # NoRecord => c.result # "err" /\ r.pid = c.pid

LEMMA SettledFacts ==
    ASSUME NEW r \in ManagedProcess \cup {NoRecord}, NEW c
    PROVE  SettlesTo(r, c, Settled(r, c))
  <1> DEFINE e == FALSE
             q == [r EXCEPT !.stop_requested = e]
  <1>1. e \in BOOLEAN
    OBVIOUS
  <1>2. NoRecord = [pid |-> "none", generation |-> 0, stop_requested |-> e]
    BY DEF NoRecord
  <1> HIDE DEF e
  <1>3. CASE r \in ManagedProcess
    <2>1. /\ q \in ManagedProcess /\ q.generation = r.generation /\ q.pid = r.pid
          /\ q.stop_requested = e
      BY <1>1, <1>3 DEF ManagedProcess
    <2>2. r # NoRecord /\ q # NoRecord
      BY <1>3, <2>1, NoRecordFacts
    <2>3. r.stop_requested \in BOOLEAN /\ NoRecord.stop_requested = e
      BY <1>2, <1>3 DEF ManagedProcess
    <2>4. Settled(r, c) \in {r, q, NoRecord}
      BY DEF Settled, e
    <2> QED
      BY <1>3, <2>1, <2>2, <2>3, <2>4 DEF Settled, SettlesTo, e
  <1>4. CASE r = NoRecord
    <2>1. q = NoRecord /\ NoRecord.stop_requested = e
      BY <1>2, <1>4
    <2> QED
      BY <1>4, <2>1 DEF Settled, SettlesTo, e
  <1> QED
    BY <1>3, <1>4

LEMMA InitIInv == Init => IInv
  <1> SUFFICES ASSUME Init PROVE IInv
    OBVIOUS
  <1>1. TypeOK
    BY LaunchesAssumption DEF Init, TypeOK, IdleCall, Outcome, Generation
  <1>2. Counted
    BY LaunchesAssumption DEF Init, Counted, Generation
  <1>3. CallsAreCurrent /\ InsertsAreFresh /\ StopOkMeansDead
    BY DEF Init, CallsAreCurrent, InsertsAreFresh, StopOkMeansDead, IdleCall
  <1>4. PidsAreReusedLater /\ OrphansExplained
    BY DEF Init, PidsAreReusedLater, OrphansExplained, NoProcess
  <1>5. EveryRecordIsWatched /\ StopFlagHasOwner
    BY DEF Init, EveryRecordIsWatched, StopFlagHasOwner, NoRecord
  <1> QED
    BY <1>1, <1>2, <1>3, <1>4, <1>5 DEF IInv

-----------------------------------------------------------------------------
(* Type correctness, action by action.                                     *)

LEMMA NextTypeOK == TypeOK /\ [Next]_vars => TypeOK'
  <1> SUFFICES ASSUME TypeOK, [Next]_vars PROVE TypeOK'
    OBVIOUS
  <1> USE DEF TypeOK
  <1>1. ASSUME NEW t \in Tasks, NEW b \in Bots, NEW p \in Pids, LaunchSpawn(t, b, p)
        PROVE  TypeOK'
    <2>1. [bot |-> b, pid |-> p, alive |-> TRUE] \in Process
      BY DEF Process
    <2>2. [pc |-> "insert", bot |-> b, gen |-> generation, pid |-> p, result |-> "none"]
            \in LaunchCall
      BY <1>1 DEF LaunchSpawn, LaunchCall
    <2>3. generation' \in 1 .. MaxLaunches + 1
      BY <1>1, LaunchesAssumption DEF LaunchSpawn, Generation
    <2> QED
      BY <1>1, <2>1, <2>2, <2>3 DEF LaunchSpawn
  <1>2. ASSUME NEW t \in Tasks, LaunchFails(t) \/ \E b \in Bots : StopNothing(t, b)
        PROVE  TypeOK'
    BY <1>2 DEF LaunchFails, StopNothing, Outcome
  <1>3. ASSUME NEW t \in Tasks, LaunchInsert(t) PROVE TypeOK'
    <2>1. call[t] \in LaunchCall
      BY <1>3 DEF LaunchInsert, LaunchCall, StopCall, IdleCall
    <2>2. [pid |-> call[t].pid, generation |-> call[t].gen, stop_requested |-> FALSE]
            \in ManagedProcess
      BY <2>1 DEF LaunchCall, ManagedProcess
    <2>3. processes' \in [Bots -> ManagedProcess \cup {NoRecord}]
      BY <1>3, <2>2 DEF LaunchInsert
    <2>4. dropped' \in SUBSET Generation
      BY <1>3, <2>1 DEF LaunchInsert, LaunchCall, ManagedProcess
    <2> QED
      BY <1>3, <2>3, <2>4 DEF LaunchInsert, Outcome
  <1>4. ASSUME NEW t \in Tasks, NEW b \in Bots, StopMark(t, b) PROVE TypeOK'
    <2>1. processes[b] \in ManagedProcess
      BY <1>4 DEF StopMark
    <2>2. /\ [processes[b] EXCEPT !.stop_requested = TRUE] \in ManagedProcess
          /\ processes[b].generation \in Generation /\ processes[b].pid \in Pids
      BY <2>1 DEF ManagedProcess
    <2>3. [pc |-> "kill", bot |-> b, gen |-> processes[b].generation,
           pid |-> processes[b].pid, result |-> "none"] \in StopCall
      BY <2>2 DEF StopCall, Outcome
    <2> QED
      BY <1>4, <2>2, <2>3 DEF StopMark
  <1>5. ASSUME NEW t \in Tasks, StopKill(t) \/ StopKillFails(t) PROVE TypeOK'
    <2>1. call[t] \in StopCall
      BY <1>5 DEF StopKill, StopKillFails, LaunchCall, StopCall, IdleCall
    <2>2. \A r \in Outcome : [call[t] EXCEPT !.pc = "settle", !.result = r] \in StopCall
      BY <2>1 DEF StopCall
    <2>3. \A r \in Outcome : [call EXCEPT ![t].pc = "settle", ![t].result = r]
                               = [call EXCEPT ![t] = [call[t] EXCEPT !.pc = "settle", !.result = r]]
      OBVIOUS
    <2>4. call' \in [Tasks -> LaunchCall \cup StopCall \cup {IdleCall(r) : r \in Outcome}]
      BY <1>5, <2>2, <2>3 DEF StopKill, StopKillFails, Outcome
    <2>5. \A g \in Generation : Ended(proc[g]) \in Process \cup {NoProcess}
      BY EndedFacts
    <2>6. proc' \in [Generation -> Process \cup {NoProcess}]
      BY <1>5, <2>5 DEF StopKill, StopKillFails
    <2> QED
      BY <1>5, <2>4, <2>6 DEF StopKill, StopKillFails
  <1>6. ASSUME NEW t \in Tasks, StopSettle(t) PROVE TypeOK'
    <2>1. call[t] \in StopCall
      BY <1>6 DEF StopSettle, LaunchCall, StopCall, IdleCall
    <2>2. call[t].bot \in Bots /\ call[t].result \in Outcome
      BY <2>1 DEF StopCall
    <2>3. Settled(processes[call[t].bot], call[t]) \in ManagedProcess \cup {NoRecord}
      BY <2>2, SettledFacts DEF SettlesTo
    <2> QED
      BY <1>6, <2>2, <2>3 DEF StopSettle
  <1>7. ASSUME NEW g \in Generation, ProcessExits(g) PROVE TypeOK'
    <2>1. Ended(proc[g]) \in Process \cup {NoProcess}
      BY EndedFacts
    <2>2. proc' = [proc EXCEPT ![g] = Ended(proc[g])]
      BY <1>7 DEF ProcessExits
    <2> QED
      BY <1>7, <2>1, <2>2 DEF ProcessExits
  <1>8. ASSUME NEW g \in Generation, LogReaderSeesWebui(g) PROVE TypeOK'
    BY <1>8 DEF LogReaderSeesWebui, EventKind
  <1>9. ASSUME NEW g \in Generation, WatcherSeesExit(g) \/ WaitFails(g) PROVE TypeOK'
    BY <1>9 DEF WatcherSeesExit, WaitFails, WatcherClears
  <1>10. ASSUME NEW g \in Generation, WatcherPublishes(g) PROVE TypeOK'
    BY <1>10 DEF WatcherPublishes, EventKind
  <1>11. CASE UNCHANGED vars
    BY <1>11 DEF vars
  <1> QED
    BY <1>1, <1>2, <1>3, <1>4, <1>5, <1>6, <1>7, <1>8, <1>9, <1>10, <1>11
    DEF Next, TaskBegins, TaskProceeds, WatcherStep

-----------------------------------------------------------------------------
(* The other conjuncts of IInv, action by action.                          *)

LEMMA LaunchSpawnStep ==
    ASSUME IInv, TypeOK', NEW t \in Tasks, NEW b \in Bots, NEW p \in Pids, LaunchSpawn(t, b, p)
    PROVE  IInv'
  <1> USE NoRecordFacts DEF IInv
  <1>1. Counted'
    <2>1. [bot |-> b, pid |-> p, alive |-> TRUE] \in Process
      BY DEF Process
    <2>2. /\ proc' = [proc EXCEPT ![generation] = [bot |-> b, pid |-> p, alive |-> TRUE]]
          /\ generation \in Generation /\ generation' = generation + 1 /\ watcher' = watcher
      BY DEF LaunchSpawn
    <2>3. \A g \in Generation : g \in Nat /\ (g < generation' <=> g < generation \/ g = generation)
      BY <2>2
    <2> QED
      BY <2>1, <2>2, <2>3 DEF Counted, TypeOK
  <1>2. CallsAreCurrent'
    BY DEF CallsAreCurrent, TypeOK, LaunchSpawn
  <1>3. InsertsAreFresh'
    BY DEF InsertsAreFresh, Counted, CallsAreCurrent, LaunchSpawn
  <1>4. PidsAreReusedLater'
    <2>1. /\ proc' = [proc EXCEPT ![generation] = [bot |-> b, pid |-> p, alive |-> TRUE]]
          /\ generation \in Generation /\ generation' = generation + 1
          /\ \A g \in Generation : proc[g].pid = p => ~proc[g].alive
      BY DEF LaunchSpawn, PidTaken
    <2> SUFFICES ASSUME NEW g \in Generation, NEW h \in Generation, g < h, h < generation',
                        proc'[g].pid = proc'[h].pid
                 PROVE  ~proc'[g].alive
      BY DEF PidsAreReusedLater
    <2>2. g # generation /\ proc'[g] = proc[g]
      BY <2>1 DEF TypeOK
    <2>3. CASE h = generation
      BY <2>1, <2>2, <2>3 DEF TypeOK
    <2>4. CASE h # generation
      BY <2>1, <2>2, <2>4 DEF PidsAreReusedLater, TypeOK
    <2> QED
      BY <2>3, <2>4
  <1>5. EveryRecordIsWatched'
    BY DEF EveryRecordIsWatched, Counted, CallsAreCurrent, LaunchSpawn
  <1>6. StopFlagHasOwner'
    BY DEF StopFlagHasOwner, TypeOK, Idle, IdleCall, LaunchSpawn
  <1>7. StopOkMeansDead'
    BY DEF StopOkMeansDead, CallsAreCurrent, TypeOK, LaunchSpawn
  <1>8. OrphansExplained'
    BY DEF OrphansExplained, Counted, CallsAreCurrent, Recorded, LaunchSpawn
  <1> QED
    BY <1>1, <1>2, <1>3, <1>4, <1>5, <1>6, <1>7, <1>8

LEMMA ReturnStep ==
    ASSUME IInv, TypeOK', NEW t \in Tasks, LaunchFails(t) \/ \E b \in Bots : StopNothing(t, b)
    PROVE  IInv'
  <1> USE NoRecordFacts DEF IInv
  <1>0. UNCHANGED <<processes, generation, proc, watcher, dropped>>
    BY DEF LaunchFails, StopNothing
  <1>1. Counted'
    BY <1>0 DEF Counted
  <1>2. CallsAreCurrent'
    BY DEF CallsAreCurrent, TypeOK, IdleCall, LaunchFails, StopNothing
  <1>3. InsertsAreFresh'
    BY DEF InsertsAreFresh, TypeOK, IdleCall, LaunchFails, StopNothing
  <1>4. PidsAreReusedLater'
    BY <1>0 DEF PidsAreReusedLater
  <1>5. EveryRecordIsWatched'
    BY <1>0 DEF EveryRecordIsWatched
  <1>6. StopFlagHasOwner'
    BY DEF StopFlagHasOwner, TypeOK, Idle, IdleCall, LaunchFails, StopNothing
  <1>7. StopOkMeansDead'
    BY DEF StopOkMeansDead, TypeOK, IdleCall, LaunchFails, StopNothing
  <1>8. OrphansExplained'
    BY <1>0 DEF OrphansExplained, Recorded
  <1> QED
    BY <1>1, <1>2, <1>3, <1>4, <1>5, <1>6, <1>7, <1>8

LEMMA LaunchInsertStep ==
    ASSUME IInv, TypeOK', NEW t \in Tasks, LaunchInsert(t)
    PROVE  IInv'
  <1> USE NoRecordFacts DEF IInv
  <1>1. Counted'
    <2>1. /\ call[t].gen \in Generation /\ call[t].gen < generation
          /\ watcher' = [watcher EXCEPT ![call[t].gen] = "waiting"]
          /\ proc' = proc /\ generation' = generation
      BY DEF CallsAreCurrent, LaunchInsert
    <2> QED
      BY <2>1 DEF Counted, TypeOK
  <1>2. CallsAreCurrent'
    BY DEF CallsAreCurrent, TypeOK, IdleCall, LaunchInsert
  <1>3. InsertsAreFresh'
    BY DEF InsertsAreFresh, TypeOK, IdleCall, LaunchInsert
  <1>4. PidsAreReusedLater'
    BY DEF PidsAreReusedLater, LaunchInsert
  <1>5. EveryRecordIsWatched'
    BY DEF EveryRecordIsWatched, CallsAreCurrent, TypeOK, LaunchInsert
  <1>6. StopFlagHasOwner'
    BY DEF StopFlagHasOwner, LaunchInsert
  <1>7. StopOkMeansDead'
    BY DEF StopOkMeansDead, TypeOK, IdleCall, LaunchInsert
  <1>8. OrphansExplained'
    BY DEF OrphansExplained, TypeOK, Recorded, LaunchInsert
  <1> QED
    BY <1>1, <1>2, <1>3, <1>4, <1>5, <1>6, <1>7, <1>8

LEMMA StopMarkStep ==
    ASSUME IInv, TypeOK', NEW t \in Tasks, NEW b \in Bots, StopMark(t, b)
    PROVE  IInv'
  <1> USE NoRecordFacts DEF IInv
  <1>1. Counted'
    BY DEF Counted, StopMark
  <1>2. CallsAreCurrent'
    <2> DEFINE g == processes[b].generation
    <2>1. /\ call' = [call EXCEPT ![t] = [pc |-> "kill", bot |-> b, gen |-> g,
                                        pid |-> processes[b].pid, result |-> "none"]]
          /\ processes[b] # NoRecord /\ proc' = proc /\ generation' = generation
      BY DEF StopMark
    <2>2. processes[b] \in ManagedProcess
      BY <2>1 DEF TypeOK
    <2>3. g \in Generation /\ watcher[g] = "waiting" /\ proc[g].bot = b /\ proc[g].pid = processes[b].pid
      BY <2>1, <2>2 DEF EveryRecordIsWatched, ManagedProcess
    <2>4. g < generation
      BY <2>3 DEF Counted
    <2> QED
      BY <2>1, <2>3, <2>4 DEF CallsAreCurrent, TypeOK
  <1>3. InsertsAreFresh'
    BY DEF InsertsAreFresh, StopMark
  <1>4. PidsAreReusedLater'
    BY DEF PidsAreReusedLater, StopMark
  <1>5. EveryRecordIsWatched'
    BY DEF EveryRecordIsWatched, StopMark
  <1>6. StopFlagHasOwner'
    BY DEF StopFlagHasOwner, TypeOK, Idle, IdleCall, StopMark
  <1>7. StopOkMeansDead'
    BY DEF StopOkMeansDead, StopMark
  <1>8. OrphansExplained'
    BY DEF OrphansExplained, Recorded, StopMark
  <1> QED
    BY <1>1, <1>2, <1>3, <1>4, <1>5, <1>6, <1>7, <1>8

\* A step that changes the processes only by ending some of them.
OnlyKills ==
    \A g \in Generation :
        /\ proc'[g].bot = proc[g].bot /\ proc'[g].pid = proc[g].pid
        /\ proc'[g].alive => proc[g].alive
        /\ proc[g] \in Process => proc'[g] \in Process
        /\ proc[g] = NoProcess => proc'[g] = NoProcess

LEMMA StopKillStep ==
    ASSUME IInv, TypeOK', NEW t \in Tasks, StopKill(t) \/ StopKillFails(t)
    PROVE  IInv'
  <1> USE NoRecordFacts DEF IInv
  <1>11. /\ OnlyKills /\ processes' = processes /\ generation' = generation
         /\ watcher' = watcher /\ dropped' = dropped
    <2>1. /\ processes' = processes /\ generation' = generation
          /\ watcher' = watcher /\ dropped' = dropped
      BY DEF StopKill, StopKillFails
    <2>2. \A g \in Generation : proc[g] \in Process \cup {NoProcess}
      BY DEF TypeOK
    <2>3. \A g \in Generation : proc'[g] = proc[g] \/ proc'[g] = Ended(proc[g])
      BY DEF StopKill, StopKillFails
    <2>4. OnlyKills
      BY <2>2, <2>3, EndedFacts DEF OnlyKills
    <2> QED
      BY <2>1, <2>4
  <1>12. /\ call[t].pc = "kill" /\ call'[t].pc = "settle" /\ call'[t].bot = call[t].bot
         /\ call'[t].pid = call[t].pid /\ call'[t].gen = call[t].gen
         /\ \A u \in Tasks \ {t} : call'[u] = call[u]
         /\ call'[t].result \in {"ok", "err"}
    <2>1. call[t] \in StopCall
      BY DEF StopKill, StopKillFails, TypeOK, LaunchCall, StopCall, IdleCall
    <2> QED
      BY <2>1 DEF StopKill, StopKillFails, StopCall, TypeOK
  <1>13. call'[t].result = "ok" => \A g \in Generation : proc[g].pid = call[t].pid => ~proc'[g].alive
    <2>1. call[t] \in StopCall
      BY <1>12 DEF TypeOK, LaunchCall, StopCall, IdleCall
    <2>2. StopKillFails(t) => call'[t].result = "err"
      BY <2>1 DEF StopKillFails, StopCall, TypeOK
    <2>3. StopKill(t) => \A g \in Generation : proc[g].pid = call[t].pid => ~proc'[g].alive
      <3>1. \A g \in Generation : proc[g] \in Process \cup {NoProcess}
        BY DEF TypeOK
      <3>2. \A g \in Generation : Ended(proc[g]).alive = FALSE
        BY <3>1, EndedFacts
      <3> QED
        BY <3>2 DEF StopKill
    <2> QED
      BY <2>2, <2>3
  <1>1. Counted'
    BY <1>11 DEF OnlyKills, Counted, TypeOK
  <1>2. CallsAreCurrent'
    <2> SUFFICES ASSUME NEW u \in Tasks, call'[u].pc # "idle"
                 PROVE  LET d == call'[u]
                        IN  /\ d.gen \in Generation /\ d.gen < generation'
                            /\ proc'[d.gen].pid = d.pid /\ proc'[d.gen].bot = d.bot
                            /\ d.pc = "settle" => d.result \in {"ok", "err"}
      BY DEF CallsAreCurrent
    <2>1. /\ call[u].pc # "idle" /\ call'[u].gen = call[u].gen
          /\ call'[u].pid = call[u].pid /\ call'[u].bot = call[u].bot
      BY <1>12
    <2>2. /\ call[u].gen \in Generation /\ call[u].gen < generation
          /\ proc[call[u].gen].pid = call[u].pid /\ proc[call[u].gen].bot = call[u].bot
          /\ call[u].pc = "settle" => call[u].result \in {"ok", "err"}
      BY <2>1 DEF CallsAreCurrent
    <2>3. call'[u].pc = "settle" => call'[u].result \in {"ok", "err"}
      <3>1. CASE u = t
        BY <1>12, <3>1
      <3>2. CASE u # t
        <4>1. call'[u] = call[u]
          BY <1>12, <3>2
        <4> QED
          BY <2>2, <4>1
      <3> QED
        BY <3>1, <3>2
    <2> QED
      BY <1>11, <2>1, <2>2, <2>3 DEF OnlyKills
  <1>3. InsertsAreFresh'
    BY <1>11, <1>12 DEF InsertsAreFresh
  <1>4. PidsAreReusedLater'
    BY <1>11 DEF OnlyKills, PidsAreReusedLater
  <1>5. EveryRecordIsWatched'
    <2>1. \A b \in Bots : processes[b] # NoRecord => processes[b].generation \in Generation
      BY DEF TypeOK, ManagedProcess
    <2> QED
      BY <1>11, <2>1 DEF OnlyKills, EveryRecordIsWatched
  <1>6. StopFlagHasOwner'
    BY <1>11, <1>12 DEF StopFlagHasOwner
  <1>7. StopOkMeansDead'
    <2> SUFFICES ASSUME NEW u \in Tasks, call'[u].pc = "settle", call'[u].result = "ok"
                 PROVE  ~proc'[call'[u].gen].alive
      BY DEF StopOkMeansDead
    <2>1. CASE u = t
      <3>1. call[t].gen \in Generation /\ proc[call[t].gen].pid = call[t].pid
        BY <1>12 DEF CallsAreCurrent
      <3> QED
        BY <1>12, <1>13, <2>1, <3>1
    <2>2. CASE u # t
      <3>1. call'[u] = call[u]
        BY <1>12, <2>2
      <3>2. call[u].gen \in Generation /\ ~proc[call[u].gen].alive
        BY <3>1 DEF CallsAreCurrent, StopOkMeansDead
      <3> QED
        BY <1>11, <3>1, <3>2 DEF OnlyKills
    <2> QED
      BY <2>1, <2>2
  <1>8. OrphansExplained'
    <2> SUFFICES ASSUME NEW k \in Generation, proc'[k].alive, watcher'[k] # "none", ~Recorded(k)'
                 PROVE  k \in dropped' \/ \E h \in 1 .. k - 1 : proc'[h].pid = proc'[k].pid
      BY DEF OrphansExplained
    <2>1. proc[k].alive /\ watcher[k] # "none" /\ ~Recorded(k)
      BY <1>11 DEF OnlyKills, Recorded
    <2>2. k \in dropped \/ \E h \in 1 .. k - 1 : proc[h].pid = proc[k].pid
      BY <2>1 DEF OrphansExplained
    <2>3. 1 .. k - 1 \subseteq Generation
      BY LaunchesAssumption DEF Generation
    <2>4. \A h \in Generation : proc'[h].pid = proc[h].pid
      BY <1>11 DEF OnlyKills
    <2> QED
      BY <1>11, <2>2, <2>3, <2>4
  <1> QED
    BY <1>1, <1>2, <1>3, <1>4, <1>5, <1>6, <1>7, <1>8

LEMMA StopSettleStep ==
    ASSUME IInv, TypeOK', NEW t \in Tasks, StopSettle(t)
    PROVE  IInv'
  <1> USE NoRecordFacts DEF IInv
  <1>11. /\ call[t].pc = "settle" /\ call[t].result \in {"ok", "err"}
         /\ processes' = [processes EXCEPT ![call[t].bot] = Settled(@, call[t])]
         /\ call' = [call EXCEPT ![t] = IdleCall(call[t].result)]
         /\ generation' = generation /\ proc' = proc /\ watcher' = watcher /\ dropped' = dropped
    BY DEF StopSettle, CallsAreCurrent
  <1>12. \A b \in Bots : processes'[b] # NoRecord =>
            /\ processes[b] # NoRecord
            /\ processes'[b].generation = processes[b].generation /\ processes'[b].pid = processes[b].pid
            /\ processes'[b].stop_requested = TRUE =>
                 processes[b].stop_requested = TRUE /\ (b = call[t].bot => processes[b].pid # call[t].pid)
    <2> SUFFICES ASSUME NEW b \in Bots, processes'[b] # NoRecord
                 PROVE  /\ processes[b] # NoRecord
                        /\ processes'[b].generation = processes[b].generation /\ processes'[b].pid = processes[b].pid
                        /\ processes'[b].stop_requested = TRUE =>
                             processes[b].stop_requested = TRUE /\ (b = call[t].bot => processes[b].pid # call[t].pid)
      OBVIOUS
    <2>1. processes[b] \in ManagedProcess \cup {NoRecord}
      BY DEF TypeOK
    <2>2. CASE b = call[t].bot
      <3>1. processes'[b] = Settled(processes[b], call[t])
        BY <1>11, <2>2 DEF TypeOK
      <3> QED
        <4> DEFINE q == Settled(processes[b], call[t])
        <4>1. SettlesTo(processes[b], call[t], q)
          BY <2>1, SettledFacts
        <4>2. processes'[b] = q /\ call[t].result \in {"ok", "err"}
          BY <1>11, <3>1
        <4> HIDE DEF q
        <4> QED
          BY <4>1, <4>2, <2>1 DEF SettlesTo
    <2>3. CASE b # call[t].bot
      BY <1>11, <2>3 DEF TypeOK
    <2> QED
      BY <2>2, <2>3
  <1>13. \A b \in Bots : processes'[b] = NoRecord /\ processes[b] # NoRecord =>
            b = call[t].bot /\ call[t].result # "err" /\ processes[b].pid = call[t].pid
    <2> SUFFICES ASSUME NEW b \in Bots, processes'[b] = NoRecord, processes[b] # NoRecord
                 PROVE  b = call[t].bot /\ call[t].result # "err" /\ processes[b].pid = call[t].pid
      OBVIOUS
    <2>1. processes[b] \in ManagedProcess \cup {NoRecord}
      BY DEF TypeOK
    <2>2. b = call[t].bot
      BY <1>11 DEF TypeOK
    <2>3. processes'[b] = Settled(processes[b], call[t])
      BY <1>11, <2>2 DEF TypeOK
    <2> QED
      <3>1. SettlesTo(processes[b], call[t], Settled(processes[b], call[t]))
        BY <2>1, SettledFacts
      <3> QED
        BY <2>2, <2>3, <3>1 DEF SettlesTo
  <1>1. Counted'
    BY SettledFacts DEF Counted, StopSettle
  <1>2. CallsAreCurrent'
    BY SettledFacts DEF CallsAreCurrent, TypeOK, IdleCall, StopSettle
  <1>3. InsertsAreFresh'
    BY SettledFacts DEF InsertsAreFresh, TypeOK, IdleCall, StopSettle
  <1>4. PidsAreReusedLater'
    BY SettledFacts DEF PidsAreReusedLater, StopSettle
  <1>5. EveryRecordIsWatched'
    BY <1>11, <1>12 DEF EveryRecordIsWatched
  <1>6. StopFlagHasOwner'
    <2> SUFFICES ASSUME NEW b \in Bots, processes'[b].stop_requested
                 PROVE  \E u \in Tasks : /\ call'[u].pc \in {"kill", "settle"}
                                          /\ call'[u].bot = b /\ call'[u].pid = processes'[b].pid
      BY DEF StopFlagHasOwner
    <2>1. processes'[b] # NoRecord /\ processes[b].stop_requested /\ processes'[b].pid = processes[b].pid
          /\ (b = call[t].bot => processes[b].pid # call[t].pid)
      BY <1>11, <1>12, <1>13
    <2>2. PICK u \in Tasks : /\ call[u].pc \in {"kill", "settle"}
                             /\ call[u].bot = b /\ call[u].pid = processes[b].pid
      BY <2>1 DEF StopFlagHasOwner
    <2>3. u # t
      BY <2>1, <2>2
    <2> QED
      BY <1>11, <2>1, <2>2, <2>3
  <1>7. StopOkMeansDead'
    BY SettledFacts DEF StopOkMeansDead, TypeOK, IdleCall, StopSettle
  <1>8. OrphansExplained'
    <2> SUFFICES ASSUME NEW g \in Generation, proc[g].alive, watcher[g] # "none", ~Recorded(g)'
                 PROVE  g \in dropped \/ \E h \in 1 .. g - 1 : proc[h].pid = proc[g].pid
      BY <1>11 DEF OrphansExplained
    <2>1. CASE ~Recorded(g)
      BY <2>1 DEF OrphansExplained
    <2>2. CASE Recorded(g)
      <3> DEFINE c == call[t]
      <3>1. PICK b \in Bots : processes[b].generation = g /\ processes[b] # NoRecord
        BY <2>2 DEF Recorded
      <3>2. b = c.bot /\ processes'[b] = NoRecord /\ c.result = "ok" /\ processes[b].pid = c.pid
        BY <1>11, <1>12, <1>13, <3>1 DEF Recorded
      <3>3. proc[g].pid = c.pid
        BY <3>1, <3>2 DEF EveryRecordIsWatched
      <3>4. ~proc[c.gen].alive /\ proc[c.gen].pid = c.pid /\ c.gen \in Generation
        BY <1>11, <3>2 DEF StopOkMeansDead, CallsAreCurrent
      <3>5. g < generation /\ c.gen < generation
        BY <1>11 DEF Counted, CallsAreCurrent
      <3>6. c.gen < g
        <4>1. c.gen # g
          BY <3>4
        <4>2. ~(g < c.gen)
          BY <3>3, <3>4, <3>5 DEF PidsAreReusedLater
        <4> QED
          BY <3>4, <4>1, <4>2 DEF Generation
      <3>7. c.gen \in 1 .. g - 1
        BY <3>4, <3>6 DEF Generation
      <3> QED
        BY <3>3, <3>4, <3>7
    <2> QED
      BY <2>1, <2>2
  <1> QED
    BY <1>1, <1>2, <1>3, <1>4, <1>5, <1>6, <1>7, <1>8

LEMMA ProcessExitsStep ==
    ASSUME IInv, TypeOK', NEW g \in Generation, ProcessExits(g)
    PROVE  IInv'
  <1> USE NoRecordFacts DEF IInv
  <1>11. /\ OnlyKills /\ processes' = processes /\ generation' = generation
         /\ watcher' = watcher /\ dropped' = dropped
    <2>1. /\ processes' = processes /\ generation' = generation
          /\ watcher' = watcher /\ dropped' = dropped
      BY DEF ProcessExits
    <2>2. \A h \in Generation : proc[h] \in Process \cup {NoProcess}
      BY DEF TypeOK
    <2>3. \A h \in Generation : proc'[h] = proc[h] \/ proc'[h] = Ended(proc[h])
      BY DEF ProcessExits, TypeOK
    <2>4. OnlyKills
      BY <2>2, <2>3, EndedFacts DEF OnlyKills
    <2> QED
      BY <2>1, <2>4
  <1>12. call' = call
    BY DEF ProcessExits
  <1>1. Counted'
    <2>1. \A h \in Generation : proc[h] = NoProcess => proc'[h] = NoProcess
      BY <1>11 DEF OnlyKills
    <2>2. \A h \in Generation : proc[h] \in Process => proc'[h] \in Process
      BY <1>11 DEF OnlyKills
    <2> QED
      BY <1>11, <2>1, <2>2 DEF Counted
  <1>2. CallsAreCurrent'
    <2>1. \A h \in Generation : proc'[h].bot = proc[h].bot /\ proc'[h].pid = proc[h].pid
      BY <1>11 DEF OnlyKills
    <2> QED
      BY <1>11, <1>12, <2>1 DEF CallsAreCurrent
  <1>3. InsertsAreFresh'
    BY <1>11, <1>12 DEF InsertsAreFresh
  <1>4. PidsAreReusedLater'
    BY <1>11 DEF OnlyKills, PidsAreReusedLater
  <1>5. EveryRecordIsWatched'
    <2>1. \A b \in Bots : processes[b] # NoRecord => processes[b].generation \in Generation
      BY DEF TypeOK, ManagedProcess
    <2>2. \A h \in Generation : proc'[h].bot = proc[h].bot /\ proc'[h].pid = proc[h].pid
      BY <1>11 DEF OnlyKills
    <2> QED
      BY <1>11, <2>1, <2>2 DEF EveryRecordIsWatched
  <1>6. StopFlagHasOwner'
    BY <1>11, <1>12 DEF StopFlagHasOwner
  <1>7. StopOkMeansDead'
    BY <1>11, <1>12 DEF OnlyKills, StopOkMeansDead, CallsAreCurrent
  <1>8. OrphansExplained'
    <2> SUFFICES ASSUME NEW k \in Generation, proc'[k].alive, watcher'[k] # "none", ~Recorded(k)'
                 PROVE  k \in dropped' \/ \E h \in 1 .. k - 1 : proc'[h].pid = proc'[k].pid
      BY DEF OrphansExplained
    <2>1. proc[k].alive /\ watcher[k] # "none" /\ ~Recorded(k)
      BY <1>11 DEF OnlyKills, Recorded
    <2>2. k \in dropped \/ \E h \in 1 .. k - 1 : proc[h].pid = proc[k].pid
      BY <2>1 DEF OrphansExplained
    <2>3. 1 .. k - 1 \subseteq Generation
      BY LaunchesAssumption DEF Generation
    <2>4. \A h \in Generation : proc'[h].pid = proc[h].pid
      BY <1>11 DEF OnlyKills
    <2> QED
      BY <1>11, <2>2, <2>3, <2>4
  <1> QED
    BY <1>1, <1>2, <1>3, <1>4, <1>5, <1>6, <1>7, <1>8

\* What is published about a process matters to none of them.
LEMMA RestUnchanged ==
    ASSUME IInv, TypeOK', UNCHANGED <<processes, generation, proc, watcher, call, dropped>>
    PROVE  IInv'
  BY DEF IInv, Counted, CallsAreCurrent, InsertsAreFresh, PidsAreReusedLater,
         EveryRecordIsWatched, StopFlagHasOwner, StopOkMeansDead, OrphansExplained, Recorded

LEMMA LogReaderStep ==
    ASSUME IInv, TypeOK', NEW g \in Generation, LogReaderSeesWebui(g)
    PROVE  IInv'
  BY RestUnchanged DEF LogReaderSeesWebui

LEMMA WatcherClearsStep ==
    ASSUME IInv, TypeOK', NEW g \in Generation, WatcherSeesExit(g) \/ WaitFails(g)
    PROVE  IInv'
  <1> USE NoRecordFacts DEF IInv
  <1>1. Counted'
    BY DEF Counted, TypeOK, WatcherSeesExit, WaitFails, WatcherClears, Watches
  <1>2. CallsAreCurrent'
    BY DEF CallsAreCurrent, WatcherSeesExit, WaitFails, WatcherClears, Watches
  <1>3. InsertsAreFresh'
    <2>1. watcher[g] = "waiting" /\ call' = call
          /\ \A h \in Generation \ {g} : watcher'[h] = watcher[h]
      BY DEF WatcherSeesExit, WaitFails, WatcherClears, TypeOK
    <2>2. \A u \in Tasks : call[u].pc = "insert" => call[u].gen \in Generation \ {g}
      BY <2>1 DEF InsertsAreFresh, CallsAreCurrent
    <2> QED
      BY <2>1, <2>2 DEF InsertsAreFresh
  <1>4. PidsAreReusedLater'
    BY DEF PidsAreReusedLater, WatcherSeesExit, WaitFails, WatcherClears, Watches
  <1>5. EveryRecordIsWatched'
    <2> SUFFICES ASSUME NEW b \in Bots, processes'[b] # NoRecord
                 PROVE  LET h == processes'[b].generation
                        IN  watcher'[h] = "waiting" /\ proc'[h].bot = b /\ proc'[h].pid = processes'[b].pid
      BY DEF EveryRecordIsWatched
    <2> DEFINE h == processes[b].generation
    <2>1. /\ proc' = proc /\ processes'[b] = processes[b] /\ processes[b] # NoRecord
          /\ \A k \in Generation \ {g} : watcher'[k] = watcher[k]
          /\ ~(b = proc[g].bot /\ Watches(g, processes[b]))
      BY DEF WatcherSeesExit, WaitFails, WatcherClears, TypeOK
    <2>2. /\ h \in Generation /\ watcher[h] = "waiting" /\ proc[h].bot = b
          /\ proc[h].pid = processes[b].pid
      BY <2>1 DEF EveryRecordIsWatched, TypeOK, ManagedProcess
    <2>3. h # g
      BY <2>1, <2>2 DEF Watches
    <2> QED
      BY <2>1, <2>2, <2>3
  <1>6. StopFlagHasOwner'
    BY DEF StopFlagHasOwner, TypeOK, WatcherSeesExit, WaitFails, WatcherClears, Watches
  <1>7. StopOkMeansDead'
    BY DEF StopOkMeansDead, WatcherSeesExit, WaitFails, WatcherClears, Watches
  <1>8. OrphansExplained'
    BY DEF OrphansExplained, TypeOK, Recorded, WatcherSeesExit, WaitFails, WatcherClears, Watches
  <1> QED
    BY <1>1, <1>2, <1>3, <1>4, <1>5, <1>6, <1>7, <1>8

LEMMA WatcherPublishesStep ==
    ASSUME IInv, TypeOK', NEW g \in Generation, WatcherPublishes(g)
    PROVE  IInv'
  <1> USE NoRecordFacts DEF IInv
  <1>1. Counted'
    BY DEF Counted, WatcherPublishes
  <1>2. CallsAreCurrent'
    BY DEF CallsAreCurrent, WatcherPublishes
  <1>3. InsertsAreFresh'
    BY DEF InsertsAreFresh, WatcherPublishes
  <1>4. PidsAreReusedLater'
    BY DEF PidsAreReusedLater, WatcherPublishes
  <1>5. EveryRecordIsWatched'
    BY DEF EveryRecordIsWatched, WatcherPublishes
  <1>6. StopFlagHasOwner'
    BY DEF StopFlagHasOwner, WatcherPublishes
  <1>7. StopOkMeansDead'
    BY DEF StopOkMeansDead, WatcherPublishes
  <1>8. OrphansExplained'
    BY DEF OrphansExplained, TypeOK, Recorded, WatcherPublishes
  <1> QED
    BY <1>1, <1>2, <1>3, <1>4, <1>5, <1>6, <1>7, <1>8

-----------------------------------------------------------------------------
LEMMA NextIInv == IInv /\ [Next]_vars => IInv'
  <1> SUFFICES ASSUME IInv, [Next]_vars PROVE IInv'
    OBVIOUS
  <1>1. TypeOK'
    BY NextTypeOK DEF IInv
  <1>2. ASSUME NEW t \in Tasks, TaskBegins(t) PROVE IInv'
    BY <1>1, <1>2, LaunchSpawnStep, ReturnStep, StopMarkStep DEF TaskBegins
  <1>3. ASSUME NEW t \in Tasks, TaskProceeds(t) PROVE IInv'
    BY <1>1, <1>3, LaunchInsertStep, StopKillStep, StopSettleStep DEF TaskProceeds
  <1>4. ASSUME NEW g \in Generation,
               ProcessExits(g) \/ LogReaderSeesWebui(g) \/ WatcherStep(g) \/ WaitFails(g)
        PROVE  IInv'
    BY <1>1, <1>4, ProcessExitsStep, LogReaderStep, WatcherClearsStep, WatcherPublishesStep
    DEF WatcherStep
  <1>5. CASE UNCHANGED vars
    BY <1>1, <1>5, RestUnchanged DEF vars
  <1> QED
    BY <1>2, <1>3, <1>4, <1>5 DEF Next

LEMMA Invariance == Spec => []IInv
  BY InitIInv, NextIInv, PTL DEF Spec

\* The table, the counter and the calls keep their types.
THEOREM TypeCorrect == Spec => []TypeOK
  <1>1. IInv => TypeOK
    BY DEF IInv
  <1> QED
    BY <1>1, Invariance, PTL

\* Every record of the table has a watcher that will remove it: observe() never
\* reports a process that nobody waits for.
THEOREM RecordsAreWatched == Spec => []EveryRecordIsWatched
  <1>1. IInv => EveryRecordIsWatched
    BY DEF IInv
  <1> QED
    BY <1>1, Invariance, PTL

\* stop_requested never outlives the stop that set it, so it swallows no exit
\* event of a crash that nobody asked for.
THEOREM StopFlagsAreOwned == Spec => []StopFlagHasOwner
  <1>1. IInv => StopFlagHasOwner
    BY DEF IInv
  <1> QED
    BY <1>1, Invariance, PTL

\* stop answers Ok only when the process it marked is dead, although it kills by
\* a pid that may have changed hands.
THEOREM StopKillsItsProcess == Spec => []StopOkMeansDead
  <1>1. IInv => StopOkMeansDead
    BY DEF IInv
  <1> QED
    BY <1>1, Invariance, PTL

\* A living process leaves the table only in the three ways OrphansExplained names.
THEOREM OrphansAreExplained == Spec => []OrphansExplained
  <1>1. IInv => OrphansExplained
    BY DEF IInv
  <1> QED
    BY <1>1, Invariance, PTL
=============================================================================
