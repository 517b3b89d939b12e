--------------------------- MODULE BackendProofs ---------------------------
(***************************************************************************)
(* Theorems about what runs beside a bot, for any set of bots and any      *)
(* number of runs: the SnowLuma daemon (SnowLumaDaemon), and the login     *)
(* poller of a NapCat bot with what hears from it (LoginPoller).           *)
(***************************************************************************)
EXTENDS SnowLumaDaemon, LoginPoller, FiniteSetTheorems, SequenceTheorems, TLAPS

-----------------------------------------------------------------------------
(* The SnowLuma daemon.                                                    *)

(***************************************************************************)
(* The strengthening: which run a call in flight is about.                 *)
(***************************************************************************)
StarterHasRun ==
    \A b \in Bots : call[b].pc \in StarterPc => call[b].run \in Run

RunsHaveBegun == \A c \in Callers : call[c].run <= run

\* Once a stop is claimed its run becomes neither Starting nor Ready again.
ClaimedRunIsOver ==
    \A c \in Callers :
        (call[c].pc = "take" /\ call[c].run = run /\ "astray" \notin faults)
            => state \notin {"Starting", "Ready"}

\* HolderIsServed, and the same of a bot that has its client but no record yet.
HolderIsServedSoon ==
    \A b \in Bots :
        (b \in holders /\ (call[b].pc = "load" \/ (call[b].pc = "idle" /\ b \in record)))
            => \/ state \in {"Ready", "Crashed"}
               \/ call[App].pc # "idle"
               \/ faults # {}

(***************************************************************************)
(* The second half: where the node's handle is, and who works for the run  *)
(* the fields are about, as long as nobody has gone astray.                *)
(***************************************************************************)
Clean == "astray" \notin faults
OnDuty(c) == call[c].run = run

\* A run has one starter, and its watcher comes with its node.
StartersDiffer ==
    \A a, b \in Bots :
        (call[a].pc \in StarterPc /\ call[b].pc \in StarterPc /\ call[a].run = call[b].run)
            => a = b
SpawnIsFirst ==
    /\ \A b \in Bots : At(b, "spawn") => watcher[call[b].run] = "none"
    /\ \A r \in Run : r > run => watcher[r] = "none"
RunOrder == StartersDiffer /\ SpawnIsFirst

\* Once the handle of a run is gone it does not come back, and it is gone before the
\* daemon is Stopped or Crashed, before a raised dead_flag and before a rollback.
HandleIsTaken ==
    Clean =>
        /\ state \in {"Stopped", "Crashed"} => node_child = 0
        /\ dead_flag => node_child = 0
        /\ \A c \in Callers : (call[c].pc \in {"stop_node", "settle"} /\ OnDuty(c)) =>
               node_child = 0 /\ state \notin {"Starting", "Ready"}
        /\ \A b \in Bots : (call[b].pc \in {"spawn", "killed", "rollback"} /\ OnDuty(b)) =>
               node_child = 0
        /\ run \in Run => (watcher[run] \in {"exit", "flush", "done"} => node_child = 0)

\* A starter about to spawn finds the flag of the last run lowered.
FlagIsDown ==
    Clean => \A b \in Bots : (At(b, "spawn") /\ OnDuty(b) /\ state = "Starting") => ~dead_flag
HandleFacts == HandleIsTaken /\ FlagIsDown

\* A Ready daemon speaks to the node of this run, whose starter is done.
ReadyRun ==
    (Clean /\ state = "Ready") =>
        /\ webui_client = run
        /\ \A b \in Bots : call[b].pc \in StarterPc => ~OnDuty(b)

\* From its spawn on, the node of a run under way is kept or a watcher has it.
NodeIsMinded ==
    (/\ Clean
     /\ \/ state = "Ready"
        \/ /\ state = "Starting"
           /\ \E b \in Bots : call[b].pc \in {"connect", "login", "ready"} /\ OnDuty(b))
        => node_child = run \/ \E r \in Run : watcher[r] \in {"exit", "flush"}
ReadyFacts == ReadyRun /\ NodeIsMinded

\* A bot is counted while it starts, runs or is about to release, and the daemon is
\* up only while somebody is.
HolderIsAtWork ==
    /\ \A b \in holders :
           b \in record \/ call[b].pc \in StarterPc \cup {"wait", "load", "release"}
    /\ (state \in {"Starting", "Ready"} /\ faults = {}) => ref_count > 0

IInv == /\ TypeOK /\ IsFiniteSet(holders)
        /\ StarterHasRun /\ RunsHaveBegun /\ ClaimedRunIsOver
        /\ BusyStateHasOwner /\ ChildIsWatched /\ CountIsHolders
        /\ ReadyHasClient /\ HolderIsServedSoon
        /\ RunOrder /\ HandleFacts /\ ReadyFacts
        /\ HolderIsAtWork /\ OrphanNeedsFault

-----------------------------------------------------------------------------
CallState == [Callers -> [pc : Pc, run : 0 .. MaxRuns, node : 0 .. MaxRuns]]

LEMMA PcFacts ==
    /\ StarterPc \cap FinishPc = {} /\ StarterPc \cap RestPc = {} /\ FinishPc \cap RestPc = {}
    /\ StarterPc \subseteq Pc /\ FinishPc \subseteq Pc /\ RestPc \subseteq Pc
    /\ Run \subseteq Nat /\ 0 \notin Run /\ 0 .. MaxRuns \subseteq Nat
    /\ Bots \subseteq Callers /\ App \in Callers /\ App \notin Bots
  BY RunsAssumption, CallersAssumption
  DEF StarterPc, FinishPc, RestPc, Pc, Run, Callers

LEMMA InitIInv == Init => IInv
  <1> SUFFICES ASSUME Init PROVE IInv
    OBVIOUS
  <1>1. TypeOK
    <2>1. "idle" \in Pc /\ 0 \in 0 .. MaxRuns
      BY RunsAssumption DEF Pc, RestPc
    <2>2. call \in CallState
      BY <2>1 DEF Init, CallState
    <2>3. FALSE \in BOOLEAN /\ dead_flag \in BOOLEAN /\ alarm \in BOOLEAN
      BY DEF Init
    <2> QED
      BY <2>1, <2>2, <2>3 DEF Init, TypeOK, DaemonState, CallState
  <1>2. IsFiniteSet(holders)
    BY FS_EmptySet DEF Init
  <1>3. StarterHasRun /\ RunsHaveBegun /\ ClaimedRunIsOver
    BY DEF Init, StarterHasRun, RunsHaveBegun, ClaimedRunIsOver, StarterPc, Callers
  <1>4. BusyStateHasOwner /\ ChildIsWatched /\ CountIsHolders /\ ReadyHasClient
    BY DEF Init, BusyStateHasOwner, ChildIsWatched, CountIsHolders, ReadyHasClient
  <1>5. HolderIsServedSoon
    BY DEF Init, HolderIsServedSoon
  <1>6. RunOrder
    BY DEF Init, RunOrder, StartersDiffer, SpawnIsFirst, At, StarterPc, Callers, Run
  <1>7. HandleFacts /\ ReadyFacts
    BY DEF Init, HandleFacts, HandleIsTaken, FlagIsDown, ReadyFacts, ReadyRun, NodeIsMinded, At,
       Callers, Run
  <1>8. HolderIsAtWork /\ OrphanNeedsFault
    BY DEF Init, HolderIsAtWork, OrphanNeedsFault
  <1> QED
    BY <1>1, <1>2, <1>3, <1>4, <1>5, <1>6, <1>7, <1>8 DEF IInv

-----------------------------------------------------------------------------
(* Types.                                                                  *)

LEMMA KilledType ==
    ASSUME node \in [Run -> {"none", "alive", "dead"}], NEW target
    PROVE  Killed(target) \in [Run -> {"none", "alive", "dead"}]
  BY DEF Killed

\* What a step may do to the call of c.
LEMMA CallTypes ==
    ASSUME TypeOK, NEW c \in Callers
    PROVE  /\ \A pc \in Pc : Goto(c, pc) => call' \in CallState
           /\ Idle(c) => call' \in CallState
           /\ Abort(c) => call' \in CallState
           /\ GotClient(c) => call' \in CallState
           /\ Claim(c) => call' \in CallState
  <1> USE DEF CallState
  <1>1. call \in CallState /\ run \in 0 .. MaxRuns /\ webui_client \in 0 .. MaxRuns
        /\ 0 \in 0 .. MaxRuns
    BY RunsAssumption DEF TypeOK
  <1>2. {"idle", "release", "load", "take"} \subseteq Pc
    BY DEF Pc, RestPc, FinishPc
  <1>3. \A pc \in Pc : Goto(c, pc) => call' \in CallState
    BY <1>1 DEF Goto
  <1>4. Idle(c) => call' \in CallState
    BY <1>1, <1>2 DEF Idle
  <1>5. Abort(c) => call' \in CallState
    BY <1>1, <1>2 DEF Abort
  <1>6. GotClient(c) => call' \in CallState
    BY <1>1, <1>2, <1>5 DEF GotClient
  <1>7. Claim(c) => call' \in CallState
    BY <1>1, <1>2 DEF Claim
  <1> QED
    BY <1>3, <1>4, <1>5, <1>6, <1>7

\* The steps of a bot's start or stop.
LEMMA StarterTypes ==
    ASSUME TypeOK, NEW b \in Bots, EnsureRunning(b) \/ Stop(b) \/ StarterStep(b)
    PROVE  TypeOK'
  <1> USE DEF TypeOK
  <1>1. /\ b \in Callers /\ 0 \in 0 .. MaxRuns /\ run \in Nat /\ MaxRuns \in Nat
        /\ call[b] \in [pc : Pc, run : 0 .. MaxRuns, node : 0 .. MaxRuns]
    BY PcFacts, RunsAssumption
  <1>2. \A pc \in StarterPc \cup FinishPc \cup {"wait", "load", "release"} : pc \in Pc
    BY DEF Pc
  <1>3. {"Ready", "Starting", "Stopped", "Crashed", "Stopping"} \subseteq DaemonState
    BY DEF DaemonState
  <1>4. \A name \in {"astray", "miscounted"} : \A occurs : Fault(name, occurs)
            => faults' \subseteq {"astray", "miscounted"}
    BY DEF Fault
  <1>5. CASE EnsureRunning(b)
    <2>1. CASE /\ state \in {"Ready", "Starting"} /\ ref_count' = ref_count + 1
               /\ holders' = holders \cup {b} /\ Fault("miscounted", b \in holders)
               /\ IF state = "Starting" THEN Goto(b, "wait") ELSE GotClient(b)
               /\ UNCHANGED <<state, node_child, node_pid, webui_client, dead_flag, run>>
      <3>1. call' \in CallState
        BY <1>1, <1>2, <2>1, CallTypes
      <3> QED
        BY <1>1, <1>4, <1>5, <2>1, <3>1 DEF EnsureRunning, CallState
    <2>2. CASE /\ run < MaxRuns /\ run' = run + 1 /\ state' = "Starting" /\ ref_count' = 1
               /\ holders' = {b} /\ dead_flag' = FALSE
               /\ IF state = "Crashed"
                  THEN node_child' = 0 /\ node_pid' = 0 /\ webui_client' = 0
                  ELSE UNCHANGED <<node_child, node_pid, webui_client>>
               /\ call' = [call EXCEPT ![b] = [pc |-> "spawn", run |-> run + 1, node |-> 0]]
               /\ UNCHANGED faults
      <3>1. run + 1 \in 0 .. MaxRuns /\ "spawn" \in Pc
        BY <1>1, <2>2 DEF Pc, StarterPc
      <3>2. call' \in CallState
        BY <1>1, <2>2, <3>1 DEF CallState
      <3>3. dead_flag' \in BOOLEAN
        BY <2>2
      <3> QED
        BY <1>1, <1>3, <1>5, <2>2, <3>1, <3>2, <3>3 DEF EnsureRunning, CallState
    <2>3. CASE Abort(b) /\ UNCHANGED <<fields, dead_flag, run, holders, faults>>
      <3>1. call' \in CallState
        BY <1>1, <2>3, CallTypes
      <3> QED
        BY <1>5, <2>3, <3>1 DEF EnsureRunning, CallState, fields
    <2> QED
      BY <1>5, <2>1, <2>2, <2>3 DEF EnsureRunning
  <1>6. CASE Stop(b)
    <2>1. call' \in CallState
      BY <1>1, <1>2, <1>6, CallTypes DEF Stop
    <2> QED
      BY <1>1, <1>3, <1>4, <1>6, <2>1 DEF Stop, CallState, fields, bots
  <1>7. CASE Spawn(b)
    <2>1. call' \in CallState
      BY <1>1, <1>2, <1>7, CallTypes, PcFacts DEF Spawn, StarterPc
    <2> QED
      BY <1>1, <1>3, <1>4, <1>7, <2>1, PcFacts DEF Spawn, StarterPc, CallState, fields, bots
  <1>8. CASE SpawnFails(b)
    <2>1. call' \in CallState
      BY <1>1, <1>2, <1>8, CallTypes DEF SpawnFails, StarterPc
    <2> QED
      BY <1>1, <1>3, <1>4, <1>8, <2>1 DEF SpawnFails, StarterPc, CallState, fields, bots
  <1>9. CASE Connect(b)
    <2>1. call' \in CallState
      BY <1>1, <1>2, <1>9, CallTypes DEF Connect, StarterPc
    <2> QED
      BY <1>1, <1>3, <1>4, <1>9, <2>1 DEF Connect, StarterPc, CallState, fields, bots
  <1>10. CASE Login(b)
    <2>1. call' \in CallState
      BY <1>1, <1>2, <1>10, CallTypes DEF Login, StarterPc
    <2> QED
      BY <1>1, <1>3, <1>4, <1>10, <2>1 DEF Login, StarterPc, CallState, fields, bots
  <1>11. CASE BecomeReady(b)
    <2>1. call' \in CallState
      BY <1>1, <1>2, <1>11, CallTypes DEF BecomeReady, CallState, At
    <2> QED
      BY <1>1, <1>3, <1>4, <1>11, <2>1 DEF BecomeReady, CallState, At, fields, bots
  <1>12. CASE KillInnerChild(b)
    <2>1. call' \in CallState
      BY <1>1, <1>2, <1>12, CallTypes DEF KillInnerChild, StarterPc
    <2> QED
      BY <1>1, <1>3, <1>4, <1>12, <2>1, KilledType DEF KillInnerChild, StarterPc,
         CallState, fields, bots
  <1>13. CASE RaiseDeadFlag(b)
    <2>1. call' \in CallState
      BY <1>1, <1>2, <1>13, CallTypes DEF RaiseDeadFlag, StarterPc
    <2> QED
      BY <1>1, <1>3, <1>4, <1>13, <2>1 DEF RaiseDeadFlag, StarterPc, CallState, fields, bots
  <1>14. CASE RollbackToStopped(b)
    <2>1. call' \in CallState
      BY <1>1, <1>2, <1>14, CallTypes DEF RollbackToStopped, Clear
    <2> QED
      BY <1>1, <1>3, <1>4, <1>14, <2>1 DEF RollbackToStopped, Clear, CallState, fields, bots
  <1>15. CASE WaitForReady(b)
    <2>1. call' \in CallState
      BY <1>1, <1>2, <1>15, CallTypes DEF WaitForReady
    <2> QED
      BY <1>1, <1>3, <1>4, <1>15, <2>1 DEF WaitForReady, CallState, fields, bots
  <1>16. CASE Load(b)
    <2>1. call' \in CallState
      BY <1>1, <1>2, <1>16, CallTypes DEF Load
    <2> QED
      BY <1>1, <1>3, <1>4, <1>16, <2>1 DEF Load, CallState, fields, bots
  <1>17. CASE Release(b)
    <2>1. call' \in CallState
      BY <1>1, <1>2, <1>17, CallTypes DEF Release
    <2> QED
      BY <1>1, <1>3, <1>4, <1>17, <2>1 DEF Release, Claim, CallState, fields, bots
  <1> QED
    BY <1>5, <1>6, <1>7, <1>8, <1>9, <1>10, <1>11, <1>12, <1>13, <1>14, <1>15, <1>16, <1>17
       DEF StarterStep

\* The other steps: a shutdown, a node, a watcher and the listener.
LEMMA OtherTypes ==
    ASSUME TypeOK, \/ Shutdown \/ Cascade
                   \/ \E c \in Callers : FinishStep(c)
                   \/ \E r \in Run : NodeDies(r) \/ WatcherStep(r) \/ WaitFails(r)
    PROVE  TypeOK'
  <1> USE DEF TypeOK
  <1>1. 0 \in 0 .. MaxRuns /\ run \in Nat /\ MaxRuns \in Nat /\ App \in Callers
    BY PcFacts, RunsAssumption
  <1>2. \A pc \in FinishPc \cup RestPc : pc \in Pc
    BY DEF Pc
  <1>3. {"Ready", "Starting", "Stopped", "Crashed", "Stopping"} \subseteq DaemonState
    BY DEF DaemonState
  <1>4. \A name \in {"astray", "miscounted"} : \A occurs : Fault(name, occurs)
            => faults' \subseteq {"astray", "miscounted"}
    BY DEF Fault
  <1>5. CASE Shutdown
    <2>1. call' \in CallState
      BY <1>1, <1>5, CallTypes DEF Shutdown
    <2> QED
      BY <1>1, <1>3, <1>5, <2>1 DEF Shutdown, Claim, CallState, bots
  <1>6. CASE Cascade
    BY <1>1, <1>6 DEF Cascade, fields
  <1>7. ASSUME NEW c \in Callers, TakeHandles(c) PROVE TypeOK'
    <2>1. Target \in 0 .. MaxRuns
      BY DEF Target
    <2>2. call' \in CallState
      <3> DEFINE moved == [call EXCEPT ![c].pc = "stop_node"]
      <3>1. moved \in CallState
        BY <1>2 DEF FinishPc, CallState
      <3>2. [moved EXCEPT ![c].node = Target] \in CallState
        <4> HIDE DEF moved
        <4> QED
          BY <2>1, <3>1 DEF CallState
      <3>3. call' = [moved EXCEPT ![c].node = Target]
        BY <1>7 DEF TakeHandles
      <3> QED
        BY <3>2, <3>3
    <2> QED
      BY <1>1, <1>4, <1>7, <2>2 DEF TakeHandles, CallState, bots
  <1>8. ASSUME NEW c \in Callers, StopNode(c) PROVE TypeOK'
    <2>1. call' \in CallState
      BY <1>1, <1>2, <1>8, CallTypes DEF StopNode, FinishPc
    <2> QED
      BY <1>1, <1>4, <1>8, <2>1, KilledType DEF StopNode, CallState, bots, fields
  <1>9. ASSUME NEW c \in Callers, SettleStopped(c) PROVE TypeOK'
    <2>1. call' \in CallState
      BY <1>1, <1>2, <1>9, CallTypes DEF SettleStopped, RestPc
    <2> QED
      BY <1>1, <1>3, <1>4, <1>9, <2>1 DEF SettleStopped, Clear, CallState, bots
  <1>10. ASSUME NEW r \in Run, NodeDies(r) PROVE TypeOK'
    BY <1>10, KilledType DEF NodeDies, fields, bots
  <1>11. ASSUME NEW r \in Run, WatchExit(r) PROVE TypeOK'
    BY <1>1, <1>11 DEF WatchExit, bots
  <1>12. ASSUME NEW r \in Run, WaitFails(r) PROVE TypeOK'
    BY <1>1, <1>4, <1>12 DEF WaitFails, bots
  <1>13. ASSUME NEW r \in Run, WatcherRaisesFlag(r) PROVE TypeOK'
    BY <1>1, <1>4, <1>13 DEF WatcherRaisesFlag, fields, bots
  <1>14. ASSUME NEW r \in Run, WatcherSettles(r) PROVE TypeOK'
    BY <1>1, <1>3, <1>4, <1>14 DEF WatcherSettles
  <1> QED
    BY <1>5, <1>6, <1>7, <1>8, <1>9, <1>10, <1>11, <1>12, <1>13, <1>14 DEF FinishStep, WatcherStep

-----------------------------------------------------------------------------
(* Who owns a busy state, and who watches the node.                        *)

\* The ways out of a starter's and of a stopper's steps end the state they own, and
\* so does whoever else changes the state.
LEMMA OwnerStep ==
    ASSUME TypeOK, BusyStateHasOwner, [Next]_vars
    PROVE  BusyStateHasOwner'
  <1> USE DEF TypeOK, BusyStateHasOwner, At, Goto, Idle, Abort, StarterPc, FinishPc
  <1>1. Bots \subseteq Callers /\ App \in Callers
    BY PcFacts
  <1>2. ASSUME NEW b \in Bots, EnsureRunning(b) PROVE BusyStateHasOwner'
    BY <1>1, <1>2 DEF EnsureRunning, GotClient, fields
  <1>3. ASSUME NEW b \in Bots, Stop(b) PROVE BusyStateHasOwner'
    BY <1>1, <1>3 DEF Stop, fields
  <1>4. ASSUME NEW b \in Bots, Spawn(b) PROVE BusyStateHasOwner'
    BY <1>1, <1>4 DEF Spawn, fields
  <1>5. ASSUME NEW b \in Bots, SpawnFails(b) PROVE BusyStateHasOwner'
    BY <1>1, <1>5 DEF SpawnFails, fields
  <1>6. ASSUME NEW b \in Bots, Connect(b) PROVE BusyStateHasOwner'
    BY <1>1, <1>6 DEF Connect, fields
  <1>7. ASSUME NEW b \in Bots, Login(b) PROVE BusyStateHasOwner'
    BY <1>1, <1>7 DEF Login, fields
  <1>8. ASSUME NEW b \in Bots, BecomeReady(b) PROVE BusyStateHasOwner'
    BY <1>1, <1>8 DEF BecomeReady, fields
  <1>9. ASSUME NEW b \in Bots, KillInnerChild(b) PROVE BusyStateHasOwner'
    BY <1>1, <1>9 DEF KillInnerChild, fields
  <1>10. ASSUME NEW b \in Bots, RaiseDeadFlag(b) PROVE BusyStateHasOwner'
    BY <1>1, <1>10 DEF RaiseDeadFlag, fields
  <1>11. ASSUME NEW b \in Bots, RollbackToStopped(b) PROVE BusyStateHasOwner'
    BY <1>1, <1>11 DEF RollbackToStopped, Clear, fields
  <1>12. ASSUME NEW b \in Bots, WaitForReady(b) PROVE BusyStateHasOwner'
    BY <1>1, <1>12 DEF WaitForReady, GotClient, fields
  <1>13. ASSUME NEW b \in Bots, Load(b) PROVE BusyStateHasOwner'
    BY <1>1, <1>13 DEF Load, fields
  <1>14. ASSUME NEW b \in Bots, Release(b) PROVE BusyStateHasOwner'
    BY <1>1, <1>14 DEF Release, Claim, fields
  <1>15. CASE Shutdown
    BY <1>1, <1>15 DEF Shutdown, Claim
  <1>16. ASSUME NEW c \in Callers, TakeHandles(c) PROVE BusyStateHasOwner'
    BY <1>1, <1>16 DEF TakeHandles, fields
  <1>17. ASSUME NEW c \in Callers, StopNode(c) PROVE BusyStateHasOwner'
    BY <1>1, <1>17 DEF StopNode, fields
  <1>18. ASSUME NEW c \in Callers, SettleStopped(c) PROVE BusyStateHasOwner'
    BY <1>1, <1>18 DEF SettleStopped, Clear, fields
  <1>19. ASSUME NEW r \in Run, NodeDies(r) PROVE BusyStateHasOwner'
    BY <1>19 DEF NodeDies, fields
  <1>20. ASSUME NEW r \in Run, WatchExit(r) PROVE BusyStateHasOwner'
    BY <1>20 DEF WatchExit, fields
  <1>21. ASSUME NEW r \in Run, WaitFails(r) PROVE BusyStateHasOwner'
    BY <1>21 DEF WaitFails, fields
  <1>22. ASSUME NEW r \in Run, WatcherRaisesFlag(r) PROVE BusyStateHasOwner'
    BY <1>22 DEF WatcherRaisesFlag, fields
  <1>23. ASSUME NEW r \in Run, WatcherSettles(r) PROVE BusyStateHasOwner'
    BY <1>23 DEF WatcherSettles, fields
  <1>24. CASE Cascade \/ UNCHANGED vars
    BY <1>24 DEF Cascade, vars, fields
  <1> QED
    BY <1>2, <1>3, <1>4, <1>5, <1>6, <1>7, <1>8, <1>9, <1>10, <1>11, <1>12, <1>13, <1>14,
       <1>15, <1>16, <1>17, <1>18, <1>19, <1>20, <1>21, <1>22, <1>23, <1>24
    DEF Next, StarterStep, FinishStep, WatcherStep

\* Only the spawn gives a child to the fields, and it starts a watcher; a watcher
\* that stops polling leaves the fields without a child.
LEMMA WatchStep ==
    ASSUME TypeOK, StarterHasRun, ChildIsWatched, [Next]_vars
    PROVE  ChildIsWatched'
  <1> USE DEF ChildIsWatched
  <1>1. ASSUME NEW b \in Bots, Spawn(b) PROVE ChildIsWatched'
    BY <1>1 DEF Spawn, StarterHasRun, StarterPc, TypeOK, At
  <1>2. ASSUME NEW r \in Run, WatcherStep(r) \/ WaitFails(r) PROVE ChildIsWatched'
    BY <1>2 DEF WatcherStep, WatchExit, WaitFails, WatcherRaisesFlag, WatcherSettles, TypeOK, fields
  <1>3. CASE UNCHANGED <<node_child, watcher>> \/ (node_child' = 0 /\ UNCHANGED watcher)
    BY <1>3
  <1>4. ASSUME NEW b \in Bots, EnsureRunning(b) \/ Stop(b) \/ StarterStep(b), ~Spawn(b)
        PROVE  UNCHANGED <<node_child, watcher>> \/ (node_child' = 0 /\ UNCHANGED watcher)
    BY <1>4 DEF EnsureRunning, Stop, StarterStep, SpawnFails, Connect, Login, BecomeReady,
       KillInnerChild,
                RaiseDeadFlag, RollbackToStopped, Clear, WaitForReady, Load, Release, fields
  <1>5. ASSUME NEW c \in Callers, FinishStep(c)
        PROVE  UNCHANGED <<node_child, watcher>> \/ (node_child' = 0 /\ UNCHANGED watcher)
    BY <1>5 DEF FinishStep, TakeHandles, StopNode, SettleStopped, Clear, fields
  <1>6. ASSUME Shutdown \/ Cascade \/ (\E r \in Run : NodeDies(r)) \/ UNCHANGED vars
        PROVE  UNCHANGED <<node_child, watcher>>
    BY <1>6 DEF Shutdown, Cascade, NodeDies, vars, fields
  <1> QED
    BY <1>1, <1>2, <1>3, <1>4, <1>5, <1>6 DEF Next

-----------------------------------------------------------------------------
(* Which run a call is about.                                              *)

RunFacts == StarterHasRun /\ RunsHaveBegun /\ ClaimedRunIsOver /\ ReadyHasClient

\* What it takes of a step of the call of c to keep them.
RunKept(c) ==
    /\ \A other \in Callers : other # c => call'[other] = call[other]
    /\ run <= run' /\ faults \subseteq faults'
    /\ call'[c].run <= run'
    /\ (c \in Bots /\ call'[c].pc \in StarterPc) => call'[c].run \in Run
    /\ call'[c].pc = "take" => state' \notin {"Starting", "Ready"}
    /\ state' \in {"Starting", "Ready"} => state \in {"Starting", "Ready"} \/ run < run'
    /\ (state' = "Ready" /\ webui_client' = 0) => (state = "Ready" /\ webui_client = 0)

LEMMA RunKeptStep ==
    ASSUME TypeOK, TypeOK', RunFacts, NEW c \in Callers, RunKept(c)
    PROVE  RunFacts'
  <1>1. /\ Bots \subseteq Callers /\ run \in Nat /\ run' \in Nat
        /\ \A other \in Callers : call[other].run \in Nat
    BY PcFacts, RunsAssumption DEF TypeOK
  <1>2. StarterHasRun'
    BY <1>1 DEF RunFacts, StarterHasRun, RunKept
  <1>3. RunsHaveBegun'
    BY <1>1 DEF RunFacts, RunsHaveBegun, RunKept
  <1>4. ClaimedRunIsOver'
    BY <1>1 DEF RunFacts, RunsHaveBegun, ClaimedRunIsOver, RunKept
  <1>5. ReadyHasClient'
    BY DEF RunFacts, ReadyHasClient, RunKept
  <1> QED
    BY <1>2, <1>3, <1>4, <1>5 DEF RunFacts

\* A call is about a run that has begun.  A starter and a stop that still work for
\* the current run leave it Ready with its client, or over for good.
LEMMA RunStep ==
    ASSUME TypeOK, TypeOK', RunFacts, [Next]_vars
    PROVE  RunFacts'
  <1> USE DEF TypeOK, At, Goto, Idle, Abort, Fault, StarterPc
  <1>1. /\ Bots \subseteq Callers /\ App \in Callers /\ App \notin Bots
        /\ Run = 1 .. MaxRuns /\ MaxRuns \in Nat
    BY PcFacts, RunsAssumption DEF Run
  <1>2. \A c \in Callers : call[c].run <= run /\ call[c].run \in Nat /\ run \in Nat
    BY <1>1 DEF RunFacts, RunsHaveBegun
  <1>3. \A b \in Bots : call[b].pc \in StarterPc => call[b].run \in Run
    BY DEF RunFacts, StarterHasRun
  <1>4. ASSUME NEW b \in Bots, EnsureRunning(b) PROVE RunKept(b)
    <2>1. CASE /\ state \in {"Stopped", "Crashed"} /\ run' = run + 1 /\ state' = "Starting"
               /\ call' = [call EXCEPT ![b] = [pc |-> "spawn", run |-> run + 1, node |-> 0]]
               /\ faults' = faults
      <3>1. run \in Nat /\ run' \in Run
        BY <1>1, <2>1
      <3>2. /\ \A other \in Callers : other # b => call'[other] = call[other]
            /\ call'[b].run = run' /\ call'[b].pc = "spawn"
        BY <1>1, <2>1
      <3> QED
        BY <2>1, <3>1, <3>2 DEF RunKept
    <2>2. CASE /\ state' = state /\ webui_client' = webui_client /\ run' = run
               /\ faults \subseteq faults'
               /\ Goto(b, "wait") \/ GotClient(b) \/ Abort(b)
      <3>1. \A other \in Callers : other # b => call'[other] = call[other]
        BY <1>1, <2>2 DEF GotClient
      <3>2. CASE Goto(b, "wait")
        <4>1. call'[b].run = call[b].run /\ call'[b].pc = "wait"
          BY <1>1, <3>2
        <4>2. call[b].run <= run /\ run \in Nat
          BY <1>1, <1>2
        <4> HIDE DEF TypeOK
        <4> QED
          BY <2>2, <3>1, <4>1, <4>2 DEF RunKept
      <3>3. CASE GotClient(b) \/ Abort(b)
        <4>1. \/ call' = [call EXCEPT ![b] = [pc |-> "release", run |-> 0, node |-> 0]]
              \/ call' = [call EXCEPT ![b] = [pc |-> "load", run |-> 0, node |-> webui_client]]
          BY <3>3 DEF GotClient
        <4>2. call'[b].run = 0 /\ call'[b].pc \in {"load", "release"}
          BY <1>1, <4>1
        <4>3. run \in Nat
          BY <1>1, <1>2
        <4> HIDE DEF TypeOK
        <4> QED
          BY <2>2, <3>1, <4>2, <4>3 DEF RunKept
      <3> QED
        BY <2>2, <3>2, <3>3
    <2> QED
      BY <1>4, <2>1, <2>2 DEF EnsureRunning, fields
  <1>5. ASSUME NEW b \in Bots, Connect(b) PROVE RunKept(b)
    <2>1. PICK pc \in {"login", "kill", "rollback"} : call' = [call EXCEPT ![b].pc = pc]
      BY <1>5 DEF Connect
    <2>2. /\ \A other \in Callers : other # b => call'[other] = call[other]
          /\ call'[b].run = call[b].run /\ call'[b].pc = pc /\ call[b].pc \in StarterPc
      BY <1>1, <1>5, <2>1 DEF Connect
    <2> QED
      BY <1>1, <1>2, <1>3, <1>5, <2>2 DEF Connect, fields, RunKept
  <1>6. ASSUME NEW b \in Bots, Login(b) PROVE RunKept(b)
    <2>1. PICK pc \in {"ready", "kill"} : call' = [call EXCEPT ![b].pc = pc]
      BY <1>6 DEF Login
    <2>2. /\ \A other \in Callers : other # b => call'[other] = call[other]
          /\ call'[b].run = call[b].run /\ call'[b].pc = pc /\ call[b].pc \in StarterPc
      BY <1>1, <1>6, <2>1 DEF Login
    <2> QED
      BY <1>1, <1>2, <1>3, <1>6, <2>2 DEF Login, fields, RunKept
  <1>7. ASSUME NEW b \in Bots, WaitForReady(b) PROVE RunKept(b)
    <2>1. PICK pc \in {"load", "release"}, r \in 0 .. MaxRuns :
               call' = [call EXCEPT ![b] = [pc |-> pc, run |-> 0, node |-> r]]
      <3>1. 0 \in 0 .. MaxRuns
        BY <1>1
      <3>2. GotClient(b) \/ Abort(b)
        BY <1>7 DEF WaitForReady
      <3> QED
        BY <3>1, <3>2 DEF GotClient
    <2>2. /\ \A other \in Callers : other # b => call'[other] = call[other]
          /\ call'[b].run = 0 /\ call'[b].pc = pc
      BY <1>1, <2>1
    <2>3. /\ run' = run /\ run \in Nat /\ faults \subseteq faults'
          /\ state' = state /\ webui_client' = webui_client
      BY <1>1, <1>2, <1>7 DEF WaitForReady, fields
    <2> HIDE DEF TypeOK
    <2> QED
      BY <2>2, <2>3 DEF RunKept
  <1>8. ASSUME NEW b \in Bots, Load(b) PROVE RunKept(b)
    <2>1. PICK pc \in {"idle", "release"}, r \in 0 .. MaxRuns :
               call' = [call EXCEPT ![b] = [pc |-> pc, run |-> 0, node |-> r]]
      BY <1>1, <1>8 DEF Load
    <2>2. /\ \A other \in Callers : other # b => call'[other] = call[other]
          /\ call'[b].run = 0 /\ call'[b].pc = pc
      BY <1>1, <2>1
    <2>3. /\ run' = run /\ run \in Nat /\ faults \subseteq faults'
          /\ state' = state /\ webui_client' = webui_client
      BY <1>1, <1>2, <1>8 DEF Load, fields
    <2> HIDE DEF TypeOK
    <2> QED
      BY <2>2, <2>3 DEF RunKept
  <1>9. ASSUME NEW b \in Bots, Release(b) PROVE RunKept(b)
    <2>1. \A other \in Callers : other # b => call'[other] = call[other]
      BY <1>1, <1>9 DEF Release, Claim
    <2>2. \/ call'[b].pc = "take" /\ call'[b].run = run /\ state' = "Stopping"
          \/ call'[b].pc = "idle" /\ call'[b].run = 0 /\ state' = state
      BY <1>1, <1>9 DEF Release, Claim
    <2>3. run' = run /\ webui_client' = webui_client /\ faults \subseteq faults'
      BY <1>9 DEF Release
    <2>4. run \in Nat
      BY <1>1, <1>2
    <2> HIDE DEF TypeOK
    <2> QED
      BY <2>1, <2>2, <2>3, <2>4 DEF RunKept
  <1>10. ASSUME NEW c \in Callers, SettleStopped(c) PROVE RunKept(c)
    <2>1. /\ \A other \in Callers : other # c => call'[other] = call[other]
          /\ call'[c].run \in {0, call[c].run} /\ call'[c].pc \in {"idle", "exited"}
      <3>1. CASE c = App /\ call' = [call EXCEPT ![c].pc = "exited"]
        BY <1>1, <3>1
      <3>2. CASE c # App /\ call' = [call EXCEPT ![c] = [pc |-> "idle", run |-> 0, node |-> 0]]
        BY <1>1, <3>2
      <3> QED
        BY <1>10, <3>1, <3>2 DEF SettleStopped
    <2>2. state' = "Stopped" /\ run' = run /\ faults \subseteq faults'
      BY <1>10 DEF SettleStopped, Clear
    <2>3. call[c].run <= run /\ run \in Nat
      BY <1>1, <1>2
    <2> HIDE DEF TypeOK
    <2> QED
      BY <2>1, <2>2, <2>3 DEF RunKept
  <1>11. \A c \in Callers : RunKept(c) => RunFacts'
    BY RunKeptStep
  <1> USE DEF RunFacts, StarterHasRun, RunsHaveBegun, ClaimedRunIsOver, ReadyHasClient, Overtaken
  <1>12. ASSUME NEW b \in Bots, Stop(b) PROVE RunFacts'
    BY <1>1, <1>12 DEF Stop, fields
  <1>13. ASSUME NEW b \in Bots, Spawn(b) PROVE RunFacts'
    BY <1>1, <1>13 DEF Spawn, fields
  <1>14. ASSUME NEW b \in Bots, SpawnFails(b) PROVE RunFacts'
    BY <1>1, <1>14 DEF SpawnFails, fields
  <1>15. ASSUME NEW b \in Bots, BecomeReady(b) PROVE RunFacts'
    BY <1>1, <1>15 DEF BecomeReady, fields
  <1>16. ASSUME NEW b \in Bots, KillInnerChild(b) PROVE RunFacts'
    BY <1>1, <1>16 DEF KillInnerChild, fields
  <1>17. ASSUME NEW b \in Bots, RaiseDeadFlag(b) PROVE RunFacts'
    BY <1>1, <1>17 DEF RaiseDeadFlag, fields
  <1>18. ASSUME NEW b \in Bots, RollbackToStopped(b) PROVE RunFacts'
    BY <1>1, <1>18 DEF RollbackToStopped, Clear, fields
  <1>19. CASE Shutdown
    BY <1>1, <1>19 DEF Shutdown, Claim
  <1>20. ASSUME NEW c \in Callers, TakeHandles(c) PROVE RunFacts'
    BY <1>1, <1>20 DEF TakeHandles, fields
  <1>21. ASSUME NEW c \in Callers, StopNode(c) PROVE RunFacts'
    BY <1>1, <1>21 DEF StopNode, fields
  <1>22. ASSUME NEW r \in Run, NodeDies(r) PROVE RunFacts'
    BY <1>1, <1>22 DEF NodeDies, fields
  <1>23. ASSUME NEW r \in Run, WatchExit(r) PROVE RunFacts'
    BY <1>1, <1>23 DEF WatchExit, fields
  <1>24. ASSUME NEW r \in Run, WaitFails(r) PROVE RunFacts'
    BY <1>1, <1>24 DEF WaitFails, fields
  <1>25. ASSUME NEW r \in Run, WatcherRaisesFlag(r) PROVE RunFacts'
    BY <1>1, <1>25 DEF WatcherRaisesFlag, fields
  <1>26. ASSUME NEW r \in Run, WatcherSettles(r) PROVE RunFacts'
    BY <1>1, <1>26 DEF WatcherSettles, fields
  <1>27. CASE Cascade \/ UNCHANGED vars
    BY <1>1, <1>27 DEF Cascade, vars, fields
  <1> HIDE DEF RunFacts, TypeOK
  <1> QED
    BY <1>1, <1>4, <1>5, <1>6, <1>7, <1>8, <1>9, <1>10, <1>11, <1>12, <1>13, <1>14, <1>15,
       <1>16, <1>17, <1>18, <1>19, <1>20, <1>21, <1>22, <1>23, <1>24, <1>25, <1>26, <1>27
    DEF Next, StarterStep, FinishStep, WatcherStep

-----------------------------------------------------------------------------
(* The count of references, and what it is good for.                       *)

\* Taking and dropping one reference, and dropping the last.
LEMMA HoldersCount ==
    ASSUME NEW S, IsFiniteSet(S), NEW b
    PROVE  /\ IsFiniteSet(S \cup {b}) /\ IsFiniteSet(S \ {b}) /\ IsFiniteSet({b}) /\ IsFiniteSet({})
           /\ Cardinality(S) \in Nat
           /\ Cardinality({b}) = 1
           /\ b \notin S => Cardinality(S \cup {b}) = Cardinality(S) + 1
           /\ b \in S => Cardinality(S) > 0 /\ Cardinality(S \ {b}) = Cardinality(S) - 1
           /\ Cardinality(S) = 0 => S = {} /\ Cardinality(S \ {b}) = 0
           /\ (b \in S /\ Cardinality(S) = 1) => S \ {b} = {}
  <1>1. IsFiniteSet(S \cup {b}) /\ IsFiniteSet(S \ {b}) /\ Cardinality(S) \in Nat
        /\ Cardinality(S \ {b}) \in Nat
    BY FS_AddElement, FS_RemoveElement, FS_CardinalityType
  <1>2. IsFiniteSet({b}) /\ Cardinality({b}) = 1 /\ IsFiniteSet({})
    BY FS_Singleton, FS_EmptySet
  <1>3. b \notin S => Cardinality(S \cup {b}) = Cardinality(S) + 1
    BY FS_AddElement
  <1>4. b \in S => Cardinality(S \ {b}) = Cardinality(S) - 1
    BY FS_RemoveElement
  <1>5. Cardinality(S) = 0 => S = {}
    BY FS_EmptySet
  <1>6. Cardinality(S) = 0 => Cardinality(S \ {b}) = 0
    <2>1. S = {} => S \ {b} = {}
      OBVIOUS
    <2> QED
      BY <1>5, <2>1, FS_EmptySet
  <1>7. (b \in S /\ Cardinality(S) = 1) => S \ {b} = {}
    BY <1>1, <1>4, FS_EmptySet
  <1>8. b \in S => Cardinality(S) > 0
    BY <1>1, <1>5
  <1> QED
    BY <1>1, <1>2, <1>3, <1>4, <1>5, <1>6, <1>7, <1>8

\* A step that leaves the count and its holders alone, and does not bring the daemon
\* back to Starting or Ready unless it is astray.
CountKept == /\ UNCHANGED <<ref_count, holders>>
             /\ faults \subseteq faults'
             /\ state' \in {"Starting", "Ready"}
                    => state \in {"Starting", "Ready"} \/ faults' # {}

\* ref_count follows the set of holders through joins, new runs and releases; every
\* other step keeps both, or ends the run.
LEMMA CountStep ==
    ASSUME TypeOK, IsFiniteSet(holders), CountIsHolders, [Next]_vars
    PROVE  IsFiniteSet(holders') /\ CountIsHolders'
  <1> DEFINE Goal == IsFiniteSet(holders') /\ CountIsHolders'
  <1> USE DEF CountIsHolders
  <1>1. CASE CountKept
    BY <1>1 DEF CountKept
  <1>2. CASE state' = "Stopped" /\ holders' = {}
    BY <1>2, FS_EmptySet
  <1>3. ASSUME NEW b \in Bots, EnsureRunning(b) PROVE Goal
    <2>1. CASE run' = run + 1 /\ holders' = {b} /\ ref_count' = 1
      BY <2>1, FS_Singleton
    <2>2. CASE /\ ref_count' = ref_count + 1 /\ holders' = holders \cup {b} /\ state' = state
               /\ Fault("miscounted", b \in holders)
      <3>1. IsFiniteSet(holders')
        BY <2>2, HoldersCount
      <3>2. ASSUME state \in {"Starting", "Ready"}, faults' = {}
            PROVE  ref_count' = Cardinality(holders')
        <4>1. b \notin holders /\ ref_count = Cardinality(holders)
          BY <2>2, <3>2 DEF Fault
        <4>2. Cardinality(holders \cup {b}) = Cardinality(holders) + 1
          BY <4>1, HoldersCount
        <4> QED
          BY <2>2, <4>1, <4>2
      <3> QED
        BY <2>2, <3>1, <3>2
    <2>3. CASE UNCHANGED <<fields, holders, faults>>
      BY <1>1, <2>3 DEF CountKept, fields
    <2> QED
      BY <1>3, <2>1, <2>2, <2>3 DEF EnsureRunning
  <1>4. ASSUME NEW b \in Bots, Release(b) PROVE Goal
    <2>1. /\ ref_count' = IF ref_count > 0 THEN ref_count - 1 ELSE 0
          /\ holders' = holders \ {b}
          /\ Fault("miscounted", b \notin holders /\ ref_count > 0)
          /\ state' \in {state, "Stopping"}
      BY <1>4 DEF Release, Claim
    <2>2. IsFiniteSet(holders')
      BY <2>1, HoldersCount
    <2>3. ASSUME state \in {"Starting", "Ready"}, faults' = {} PROVE ref_count' = Cardinality(holders')
      <3>1. faults = {} /\ (b \in holders \/ ref_count = 0)
        BY <2>1, <2>3 DEF Fault, TypeOK
      <3>2. ref_count = Cardinality(holders)
        BY <2>3, <3>1
      <3>3. CASE b \in holders
        <4>1. Cardinality(holders \ {b}) = Cardinality(holders) - 1 /\ Cardinality(holders) > 0
          BY <3>3, HoldersCount
        <4> QED
          BY <2>1, <3>2, <4>1
      <3>4. CASE ref_count = 0
        <4>1. Cardinality(holders \ {b}) = 0
          BY <3>2, <3>4, HoldersCount
        <4> QED
          BY <2>1, <3>4, <4>1
      <3> QED
        BY <3>1, <3>3, <3>4
    <2> QED
      BY <2>1, <2>2, <2>3
  <1>5. ASSUME NEW b \in Bots, StarterStep(b), ~Release(b)
        PROVE  CountKept \/ (state' = "Stopped" /\ holders' = {})
    BY <1>5 DEF StarterStep, Spawn, SpawnFails, Connect, Login, BecomeReady,
       KillInnerChild, RaiseDeadFlag,
                RollbackToStopped, Clear, WaitForReady, Load, Fault, fields, CountKept
  <1>6. ASSUME NEW c \in Callers, FinishStep(c)
        PROVE  CountKept \/ (state' = "Stopped" /\ holders' = {})
    BY <1>6 DEF FinishStep, TakeHandles, StopNode, SettleStopped, Clear, Fault, fields, CountKept
  <1>7. ASSUME NEW r \in Run, NodeDies(r) \/ WatcherStep(r) \/ WaitFails(r)
        PROVE  CountKept
    BY <1>7 DEF NodeDies, WatcherStep, WatchExit, WaitFails, WatcherRaisesFlag,
       WatcherSettles, Fault,
                fields, CountKept
  <1>8. ASSUME (\E b \in Bots : Stop(b)) \/ Shutdown \/ Cascade \/ UNCHANGED vars PROVE CountKept
    BY <1>8 DEF Stop, Shutdown, Claim, Cascade, vars, fields, CountKept
  <1> QED
    BY <1>1, <1>2, <1>3, <1>4, <1>5, <1>6, <1>7, <1>8 DEF Next

\* Being served: what a bot that holds its reference and has its client may rely on.
Served == state \in {"Ready", "Crashed"} \/ call[App].pc # "idle" \/ faults # {}

\* No step takes the daemon from the bots it serves, unless it empties the set of holders.
ServedKept == Served => Served' \/ holders' = {}

\* No step but those that find the daemon Ready makes a bot of this kind.
ClientKept ==
    \A b \in Bots :
        (b \in holders' /\ (call'[b].pc = "load" \/ (call'[b].pc = "idle" /\ b \in record')))
            => \/ b \in holders /\ (call[b].pc = "load" \/ (call[b].pc = "idle" /\ b \in record))
               \/ Served'

LEMMA ServedStep ==
    ASSUME TypeOK, IsFiniteSet(holders), CountIsHolders, HolderIsServedSoon, [Next]_vars
    PROVE  HolderIsServedSoon'
  <1>1. ServedKept /\ ClientKept => HolderIsServedSoon'
    BY DEF ServedKept, ClientKept, Served, HolderIsServedSoon
  <1>2. /\ Bots \subseteq Callers /\ App \in Callers /\ App \notin Bots
    BY PcFacts
  <1> USE DEF TypeOK, At, Goto, Idle, Abort, Fault
  <1>3. ASSUME NEW b \in Bots, Release(b) PROVE HolderIsServedSoon'
    <2>1. \A other \in Callers : other # b => call'[other] = call[other]
      BY <1>2, <1>3 DEF Release, Claim
    <2>2. CASE state' = state
      BY <1>2, <1>3, <2>1, <2>2 DEF Release, HolderIsServedSoon
    <2>3. CASE state' # state
      <3>1. /\ ref_count <= 1 /\ state \in {"Ready", "Starting"} /\ holders' = holders \ {b}
        BY <1>3, <2>3 DEF Release, Claim
      <3>2. ASSUME faults' = {} PROVE holders' = {}
        <4>1. faults = {} /\ (b \in holders \/ ref_count = 0)
          BY <1>3, <3>2 DEF Release
        <4>2. ref_count = Cardinality(holders)
          BY <3>1, <4>1 DEF CountIsHolders
        <4>3. Cardinality(holders) \in {0, 1}
          BY <3>1, <4>2
        <4>4. CASE Cardinality(holders) = 0
          BY <3>1, <4>4, HoldersCount
        <4>5. CASE b \in holders /\ Cardinality(holders) = 1
          BY <3>1, <4>5, HoldersCount
        <4> QED
          BY <4>1, <4>2, <4>3, <4>4, <4>5
      <3> QED
        BY <3>2 DEF HolderIsServedSoon
    <2> QED
      BY <2>2, <2>3
  <1>4. ASSUME NEW b \in Bots, EnsureRunning(b) PROVE HolderIsServedSoon'
    <2>1. \A other \in Callers : other # b => call'[other] = call[other]
      BY <1>2, <1>4 DEF EnsureRunning, GotClient
    <2>2. CASE /\ holders' = {b}
               /\ call' = [call EXCEPT ![b] = [pc |-> "spawn", run |-> run + 1, node |-> 0]]
      <3>1. call'[b].pc = "spawn"
        BY <1>2, <2>2
      <3> QED
        BY <2>2, <3>1 DEF HolderIsServedSoon
    <2>3. CASE /\ state' = state /\ record' = record
               /\ faults \subseteq faults' /\ holders' \subseteq holders \cup {b}
               /\ (state = "Ready" /\ GotClient(b)) \/ Goto(b, "wait") \/ Abort(b)
      <3>1. call'[b].pc \in {"release", "wait"} \/ state' = "Ready"
        BY <1>2, <2>3 DEF GotClient
      <3> QED
        BY <1>2, <2>1, <2>3, <3>1 DEF HolderIsServedSoon
    <2> QED
      BY <1>4, <2>2, <2>3 DEF EnsureRunning, fields
  <1>5. ASSUME NEW b \in Bots, RollbackToStopped(b) PROVE HolderIsServedSoon'
    BY <1>5 DEF RollbackToStopped, Clear, HolderIsServedSoon
  <1>6. ASSUME NEW c \in Callers, SettleStopped(c) PROVE HolderIsServedSoon'
    BY <1>6 DEF SettleStopped, Clear, HolderIsServedSoon
  <1>7. ASSUME NEW b \in Bots, Stop(b) PROVE ServedKept /\ ClientKept
    BY <1>2, <1>7 DEF Stop, fields, bots, ServedKept, ClientKept, Served
  <1>8. ASSUME NEW b \in Bots, Spawn(b) PROVE ServedKept /\ ClientKept
    BY <1>2, <1>8 DEF Spawn, fields, bots, ServedKept, ClientKept, Served
  <1>9. ASSUME NEW b \in Bots, SpawnFails(b) PROVE ServedKept /\ ClientKept
    BY <1>2, <1>9 DEF SpawnFails, fields, bots, ServedKept, ClientKept, Served
  <1>10. ASSUME NEW b \in Bots, Connect(b) PROVE ServedKept /\ ClientKept
    BY <1>2, <1>10 DEF Connect, fields, bots, ServedKept, ClientKept, Served
  <1>11. ASSUME NEW b \in Bots, Login(b) PROVE ServedKept /\ ClientKept
    BY <1>2, <1>11 DEF Login, fields, bots, ServedKept, ClientKept, Served
  <1>12. ASSUME NEW b \in Bots, BecomeReady(b) PROVE ServedKept /\ ClientKept
    BY <1>2, <1>12 DEF BecomeReady, fields, bots, ServedKept, ClientKept, Served
  <1>13. ASSUME NEW b \in Bots, KillInnerChild(b) PROVE ServedKept /\ ClientKept
    BY <1>2, <1>13 DEF KillInnerChild, fields, bots, ServedKept, ClientKept, Served
  <1>14. ASSUME NEW b \in Bots, RaiseDeadFlag(b) PROVE ServedKept /\ ClientKept
    BY <1>2, <1>14 DEF RaiseDeadFlag, fields, bots, ServedKept, ClientKept, Served
  <1>15. ASSUME NEW b \in Bots, WaitForReady(b) PROVE ServedKept /\ ClientKept
    BY <1>2, <1>15 DEF WaitForReady, GotClient, fields, bots, ServedKept, ClientKept, Served
  <1>16. ASSUME NEW b \in Bots, Load(b) PROVE ServedKept /\ ClientKept
    BY <1>2, <1>16 DEF Load, fields, bots, ServedKept, ClientKept, Served
  <1>17. ASSUME Shutdown PROVE ServedKept /\ ClientKept
    BY <1>2, <1>17 DEF Shutdown, Claim, bots, ServedKept, ClientKept, Served
  <1>18. ASSUME NEW c \in Callers, TakeHandles(c) PROVE ServedKept /\ ClientKept
    BY <1>2, <1>18 DEF TakeHandles, fields, bots, ServedKept, ClientKept, Served
  <1>19. ASSUME NEW c \in Callers, StopNode(c) PROVE ServedKept /\ ClientKept
    BY <1>2, <1>19 DEF StopNode, fields, bots, ServedKept, ClientKept, Served
  <1>20. ASSUME NEW r \in Run, NodeDies(r) PROVE ServedKept /\ ClientKept
    BY <1>20 DEF NodeDies, fields, bots, ServedKept, ClientKept, Served
  <1>21. ASSUME NEW r \in Run, WatchExit(r) PROVE ServedKept /\ ClientKept
    BY <1>21 DEF WatchExit, fields, bots, ServedKept, ClientKept, Served
  <1>22. ASSUME NEW r \in Run, WaitFails(r) PROVE ServedKept /\ ClientKept
    BY <1>22 DEF WaitFails, fields, bots, ServedKept, ClientKept, Served
  <1>23. ASSUME NEW r \in Run, WatcherRaisesFlag(r) PROVE ServedKept /\ ClientKept
    BY <1>23 DEF WatcherRaisesFlag, fields, bots, ServedKept, ClientKept, Served
  <1>24. ASSUME NEW r \in Run, WatcherSettles(r) PROVE ServedKept /\ ClientKept
    BY <1>24 DEF WatcherSettles, fields, bots, ServedKept, ClientKept, Served
  <1>25. ASSUME Cascade \/ UNCHANGED vars PROVE ServedKept /\ ClientKept
    BY <1>25 DEF Cascade, vars, fields, bots, ServedKept, ClientKept, Served
  <1> HIDE DEF TypeOK
  <1> QED
    BY <1>1, <1>3, <1>4, <1>5, <1>6, <1>7, <1>8, <1>9, <1>10, <1>11, <1>12, <1>13, <1>14,
       <1>15, <1>16, <1>17, <1>18, <1>19, <1>20, <1>21, <1>22, <1>23, <1>24, <1>25
    DEF Next, StarterStep, FinishStep, WatcherStep

-----------------------------------------------------------------------------
(* Whose run is it, where is the handle, and who minds the node.           *)

\* What a step makes of the call of c: it goes on for its run, or for none.
Others(c) == \A other \in Callers : other # c => call'[other] = call[other]
Moves(c, pc) ==
    Others(c) /\ call'[c].pc = pc /\ call'[c].run = call[c].run /\ call'[c].node = call[c].node
Leaves(c, pc) == Others(c) /\ call'[c].pc = pc

LEMMA CallMoves ==
    ASSUME TypeOK, NEW c \in Callers
    PROVE  /\ \A pc \in Pc : Goto(c, pc) => Moves(c, pc)
           /\ Idle(c) => Leaves(c, "idle")
           /\ Abort(c) => Leaves(c, "release")
           /\ GotClient(c) => Leaves(c, "load") \/ Leaves(c, "release")
           /\ Claim(c) => Leaves(c, "take") /\ call'[c].run = run
  <1>1. call \in CallState
    BY DEF TypeOK, CallState
  <1> USE <1>1 DEF CallState, Others, Moves, Leaves
  <1>2. \A pc \in Pc : Goto(c, pc) => Moves(c, pc)
    BY DEF Goto
  <1>3. Idle(c) => Leaves(c, "idle")
    BY DEF Idle
  <1>4. Abort(c) => Leaves(c, "release")
    BY DEF Abort
  <1>5. GotClient(c) => Leaves(c, "load") \/ Leaves(c, "release")
    <2>1. CASE webui_client = 0
      BY <1>4, <2>1 DEF GotClient
    <2>2. CASE webui_client # 0
      BY <2>2 DEF GotClient
    <2> QED
      BY <2>1, <2>2
  <1>6. Claim(c) => Leaves(c, "take") /\ call'[c].run = run
    BY DEF Claim
  <1> QED
    BY <1>2, <1>3, <1>4, <1>5, <1>6

\* Where each step takes its call.
BotStep(b) ==
    /\ EnsureRunning(b) =>
         \/ /\ At(b, "idle") /\ state' = "Starting" /\ run' = run + 1
            /\ Leaves(b, "spawn") /\ call'[b].run = run'
         \/ /\ At(b, "idle") /\ run' = run
            /\ Leaves(b, "wait") \/ Leaves(b, "load") \/ Leaves(b, "release")
    /\ Stop(b) => At(b, "idle") /\ Leaves(b, "release")
    /\ Spawn(b) => At(b, "spawn") /\ Moves(b, "connect")
    /\ SpawnFails(b) => At(b, "spawn") /\ Moves(b, "rollback")
    /\ Connect(b) => /\ At(b, "connect")
                     /\ Moves(b, "login") \/ Moves(b, "kill") \/ (dead_flag /\ Moves(b, "rollback"))
    /\ Login(b) => At(b, "login") /\ (Moves(b, "ready") \/ Moves(b, "kill"))
    /\ BecomeReady(b) => At(b, "ready") /\ Leaves(b, "load")
    /\ KillInnerChild(b) => At(b, "kill") /\ (Moves(b, "rollback") \/ Moves(b, "killed"))
    /\ RaiseDeadFlag(b) => At(b, "killed") /\ Moves(b, "rollback")
    /\ RollbackToStopped(b) => At(b, "rollback") /\ Leaves(b, "release")
    /\ WaitForReady(b) => At(b, "wait") /\ (Leaves(b, "load") \/ Leaves(b, "release"))
    /\ Load(b) => At(b, "load") /\ (Leaves(b, "idle") \/ Leaves(b, "release"))
    /\ Release(b) => /\ At(b, "release")
                     /\ Leaves(b, "idle") \/ (Leaves(b, "take") /\ call'[b].run = run)

LEMMA BotSteps ==
    ASSUME TypeOK, NEW b \in Bots
    PROVE  BotStep(b)
  <1>1. b \in Callers /\ StarterPc \subseteq Pc
    BY PcFacts
  <1>2. /\ \A pc \in StarterPc \cup {"wait"} : Goto(b, pc) => Moves(b, pc)
        /\ Idle(b) => Leaves(b, "idle")
        /\ Abort(b) => Leaves(b, "release")
        /\ GotClient(b) => Leaves(b, "load") \/ Leaves(b, "release")
        /\ Claim(b) => Leaves(b, "take") /\ call'[b].run = run
    <2>1. StarterPc \cup {"wait"} \subseteq Pc
      BY <1>1 DEF Pc
    <2> QED
      BY <1>1, <2>1, CallMoves
  <1>3. /\ Goto(b, "wait") => Leaves(b, "wait")
        /\ Goto(b, "connect") => Moves(b, "connect")
        /\ Goto(b, "login") => Moves(b, "login")
        /\ Goto(b, "ready") => Moves(b, "ready")
        /\ Goto(b, "kill") => Moves(b, "kill")
        /\ Goto(b, "killed") => Moves(b, "killed")
        /\ Goto(b, "rollback") => Moves(b, "rollback")
    BY <1>2 DEF StarterPc, Moves, Leaves
  <1>4. ASSUME EnsureRunning(b)
        PROVE  \/ /\ At(b, "idle") /\ state' = "Starting" /\ run' = run + 1
                  /\ Leaves(b, "spawn") /\ call'[b].run = run'
               \/ /\ At(b, "idle") /\ run' = run
                  /\ Leaves(b, "wait") \/ Leaves(b, "load") \/ Leaves(b, "release")
    <2>1. CASE /\ state' = "Starting" /\ run' = run + 1
               /\ call' = [call EXCEPT ![b] = [pc |-> "spawn", run |-> run + 1, node |-> 0]]
      <3>1. Leaves(b, "spawn") /\ call'[b].run = run'
        BY <1>1, <2>1 DEF TypeOK, Leaves, Others
      <3> QED
        BY <1>4, <2>1, <3>1 DEF EnsureRunning
    <2>2. CASE run' = run /\ (Goto(b, "wait") \/ GotClient(b) \/ Abort(b))
      BY <1>2, <1>3, <1>4, <2>2 DEF EnsureRunning
    <2> QED
      BY <1>4, <2>1, <2>2 DEF EnsureRunning
  <1>5. BecomeReady(b) => At(b, "ready") /\ Leaves(b, "load")
    BY <1>1 DEF BecomeReady, TypeOK, Leaves, Others
  <1>6. KillInnerChild(b) => At(b, "kill") /\ (Moves(b, "rollback") \/ Moves(b, "killed"))
    <2>1. CASE Target = 0
      BY <1>3, <2>1 DEF KillInnerChild
    <2>2. CASE Target # 0
      BY <1>3, <2>2 DEF KillInnerChild
    <2> QED
      BY <2>1, <2>2
  <1>7. Release(b) => /\ At(b, "release")
                      /\ Leaves(b, "idle") \/ (Leaves(b, "take") /\ call'[b].run = run)
    <2>1. Release(b) => At(b, "release") /\ (Claim(b) \/ Idle(b))
      BY DEF Release
    <2> QED
      BY <1>2, <2>1
  <1>8. /\ Stop(b) => At(b, "idle") /\ Leaves(b, "release")
        /\ RollbackToStopped(b) => At(b, "rollback") /\ Leaves(b, "release")
        /\ WaitForReady(b) => At(b, "wait") /\ (Leaves(b, "load") \/ Leaves(b, "release"))
        /\ Load(b) => At(b, "load") /\ (Leaves(b, "idle") \/ Leaves(b, "release"))
    BY <1>2 DEF Stop, RollbackToStopped, WaitForReady, Load
  <1>9. /\ Spawn(b) => At(b, "spawn") /\ Moves(b, "connect")
        /\ SpawnFails(b) => At(b, "spawn") /\ Moves(b, "rollback")
        /\ Connect(b) => /\ At(b, "connect")
                         /\ Moves(b, "login") \/ Moves(b, "kill") \/ (dead_flag /\ Moves(b, "rollback"))
        /\ Login(b) => At(b, "login") /\ (Moves(b, "ready") \/ Moves(b, "kill"))
        /\ RaiseDeadFlag(b) => At(b, "killed") /\ Moves(b, "rollback")
    BY <1>3 DEF Spawn, SpawnFails, Connect, Login, RaiseDeadFlag
  <1> QED
    BY <1>4, <1>5, <1>6, <1>7, <1>8, <1>9 DEF BotStep

FinisherStep(c) ==
    /\ TakeHandles(c) => /\ At(c, "take") /\ Others(c) /\ call'[c].pc = "stop_node"
                         /\ call'[c].run = call[c].run /\ call'[c].node = Target
    /\ StopNode(c) => At(c, "stop_node") /\ Moves(c, "settle")
    /\ SettleStopped(c) => At(c, "settle") /\ (Leaves(c, "exited") \/ Leaves(c, "idle"))

LEMMA FinisherSteps ==
    ASSUME TypeOK, NEW c \in Callers
    PROVE  FinisherStep(c)
  <1>1. /\ Goto(c, "settle") => Moves(c, "settle")
        /\ Goto(c, "exited") => Moves(c, "exited")
        /\ Idle(c) => Leaves(c, "idle")
    <2>1. {"settle", "exited"} \subseteq Pc
      BY DEF Pc, FinishPc, RestPc
    <2> QED
      BY <2>1, CallMoves
  <1>2. TakeHandles(c) => /\ At(c, "take") /\ Others(c) /\ call'[c].pc = "stop_node"
                          /\ call'[c].run = call[c].run /\ call'[c].node = Target
    BY DEF TakeHandles, TypeOK, Others
  <1>3. StopNode(c) => At(c, "stop_node") /\ Moves(c, "settle")
    BY <1>1 DEF StopNode
  <1>4. SettleStopped(c) => At(c, "settle") /\ (Leaves(c, "exited") \/ Leaves(c, "idle"))
    <2>1. CASE c = App
      BY <1>1, <2>1 DEF SettleStopped, Moves, Leaves
    <2>2. CASE c # App
      BY <1>1, <2>2 DEF SettleStopped
    <2> QED
      BY <2>1, <2>2
  <1> QED
    BY <1>2, <1>3, <1>4 DEF FinisherStep

LEMMA ShutdownStep ==
    ASSUME TypeOK, Shutdown
    PROVE  At(App, "idle") /\ Leaves(App, "take") /\ call'[App].run = run
  BY PcFacts, CallMoves DEF Shutdown

\* Runs are numbered as they begin, so no two starters share one, and a run's only
\* spawn is its starter's first step.
LEMMA RunOrderStep ==
    ASSUME TypeOK, RunFacts, RunOrder, [Next]_vars
    PROVE  RunOrder'
  <1> USE DEF RunOrder, StartersDiffer, SpawnIsFirst, At, StarterPc, BotStep, FinisherStep, Moves, Leaves, Others
  <1>1. /\ \A c \in Bots : c \in Callers
        /\ \A c \in Callers : call[c].run <= run /\ call[c].run \in Nat
        /\ run \in Nat /\ MaxRuns \in Nat /\ Run = 1 .. MaxRuns
        /\ App \in Callers /\ App \notin Bots
    BY PcFacts, RunsAssumption DEF TypeOK, Run, RunFacts, RunsHaveBegun
  <1>2. \A b \in Bots : call[b].pc \in StarterPc => call[b].run \in Run
    BY DEF RunFacts, StarterHasRun
  <1>3. watcher \in [Run -> {"none", "poll", "exit", "flush", "done"}]
    BY DEF TypeOK
  <1>4. ASSUME NEW b \in Bots, Stop(b) PROVE RunOrder'
    BY <1>1, <1>2, <1>3, BotSteps, <1>4 DEF Stop, fields
  <1>5. ASSUME NEW b \in Bots, Spawn(b) PROVE RunOrder'
    <2>1. /\ call[b].pc = "spawn" /\ call'[b].pc = "connect" /\ call'[b].run = call[b].run
          /\ \A other \in Callers : other # b => call'[other] = call[other]
          /\ run' = run /\ watcher' = [watcher EXCEPT ![call[b].run] = "poll"]
      BY <1>5, BotSteps DEF Spawn
    <2>2. StartersDiffer'
      BY <1>1, <2>1
    <2>3. \A r \in Run : r # call[b].run => watcher'[r] = watcher[r]
      BY <1>3, <2>1
    <2>4. ASSUME NEW other \in Bots, call'[other].pc = "spawn"
          PROVE  watcher'[call'[other].run] = "none"
      <3>1. other # b /\ call'[other] = call[other] /\ call[other].pc = "spawn"
        BY <1>1, <2>1, <2>4
      <3>2. call[other].run # call[b].run
        BY <2>1, <3>1
      <3> QED
        BY <1>2, <2>3, <3>1, <3>2
    <2>5. call[b].run <= run
      BY <1>1
    <2>6. ASSUME NEW r \in Run, r > run PROVE watcher'[r] = "none"
      BY <1>1, <2>3, <2>5, <2>6
    <2> QED
      BY <2>1, <2>2, <2>4, <2>6
  <1>6. ASSUME NEW b \in Bots, SpawnFails(b) PROVE RunOrder'
    BY <1>1, <1>2, <1>3, BotSteps, <1>6 DEF SpawnFails, fields
  <1>7. ASSUME NEW b \in Bots, Connect(b) PROVE RunOrder'
    BY <1>1, <1>2, <1>3, BotSteps, <1>7 DEF Connect, fields
  <1>8. ASSUME NEW b \in Bots, Login(b) PROVE RunOrder'
    BY <1>1, <1>2, <1>3, BotSteps, <1>8 DEF Login, fields
  <1>9. ASSUME NEW b \in Bots, BecomeReady(b) PROVE RunOrder'
    BY <1>1, <1>2, <1>3, BotSteps, <1>9 DEF BecomeReady, fields
  <1>10. ASSUME NEW b \in Bots, KillInnerChild(b) PROVE RunOrder'
    BY <1>1, <1>2, <1>3, BotSteps, <1>10 DEF KillInnerChild, fields
  <1>11. ASSUME NEW b \in Bots, RaiseDeadFlag(b) PROVE RunOrder'
    BY <1>1, <1>2, <1>3, BotSteps, <1>11 DEF RaiseDeadFlag, fields
  <1>12. ASSUME NEW b \in Bots, RollbackToStopped(b) PROVE RunOrder'
    BY <1>1, <1>2, <1>3, BotSteps, <1>12 DEF RollbackToStopped, fields
  <1>13. ASSUME NEW b \in Bots, WaitForReady(b) PROVE RunOrder'
    BY <1>1, <1>2, <1>3, BotSteps, <1>13 DEF WaitForReady, fields
  <1>14. ASSUME NEW b \in Bots, Load(b) PROVE RunOrder'
    BY <1>1, <1>2, <1>3, BotSteps, <1>14 DEF Load, fields
  <1>15. ASSUME NEW b \in Bots, Release(b) PROVE RunOrder'
    BY <1>1, <1>2, <1>3, BotSteps, <1>15 DEF Release, fields
  <1>16. ASSUME NEW b \in Bots, EnsureRunning(b) PROVE RunOrder'
    <2>1. watcher' = watcher /\ \A other \in Callers : other # b => call'[other] = call[other]
      BY <1>16, BotSteps DEF EnsureRunning
    <2>2. CASE run' = run + 1 /\ call'[b].pc = "spawn" /\ call'[b].run = run'
      <3>1. run' \in Run
        <4>1. run < MaxRuns
          BY <1>1, <1>16, <2>2 DEF EnsureRunning
        <4> QED
          BY <1>1, <2>2, <4>1
      <3>2. watcher[run'] = "none"
        BY <1>1, <2>2, <3>1
      <3>3. \A other \in Bots : other # b => call'[other].run # run'
        BY <1>1, <2>1, <2>2
      <3>4. StartersDiffer'
        BY <1>1, <2>1, <2>2, <3>3
      <3>5. \A other \in Bots : At(other, "spawn")' => watcher'[call'[other].run] = "none"
        BY <1>1, <2>1, <2>2, <3>2
      <3>6. \A r \in Run : r > run' => watcher'[r] = "none"
        BY <1>1, <2>1, <2>2
      <3> QED
        BY <3>4, <3>5, <3>6
    <2>3. CASE run' = run /\ call'[b].pc \in {"wait", "load", "release"}
      BY <1>1, <2>1, <2>3
    <2> QED
      BY <1>16, <2>2, <2>3, BotSteps
  <1>17. CASE Shutdown
    BY <1>1, <1>2, <1>3, ShutdownStep, <1>17 DEF Shutdown, fields
  <1>18. ASSUME NEW c \in Callers, TakeHandles(c) PROVE RunOrder'
    <2>1. /\ call'[c].pc = "stop_node"
          /\ \A other \in Callers : other # c => call'[other] = call[other]
          /\ run' = run /\ watcher' = watcher
      BY <1>18, FinisherSteps DEF TakeHandles
    <2> QED
      BY <1>1, <2>1
  <1>19. ASSUME NEW c \in Callers, StopNode(c) PROVE RunOrder'
    BY <1>1, <1>2, <1>3, FinisherSteps, <1>19 DEF StopNode, fields
  <1>20. ASSUME NEW c \in Callers, SettleStopped(c) PROVE RunOrder'
    BY <1>1, <1>2, <1>3, FinisherSteps, <1>20 DEF SettleStopped, fields
  <1>21. ASSUME NEW r \in Run, NodeDies(r) PROVE RunOrder'
    BY <1>1, <1>2, <1>3, <1>21 DEF NodeDies, fields
  <1>22. ASSUME NEW r \in Run, WatchExit(r) PROVE RunOrder'
    BY <1>1, <1>2, <1>3, <1>22 DEF WatchExit, fields
  <1>23. ASSUME NEW r \in Run, WaitFails(r) PROVE RunOrder'
    BY <1>1, <1>2, <1>3, <1>23 DEF WaitFails, fields
  <1>24. ASSUME NEW r \in Run, WatcherRaisesFlag(r) PROVE RunOrder'
    BY <1>1, <1>2, <1>3, <1>24 DEF WatcherRaisesFlag, fields
  <1>25. ASSUME NEW r \in Run, WatcherSettles(r) PROVE RunOrder'
    BY <1>1, <1>2, <1>3, <1>25 DEF WatcherSettles, fields
  <1>26. CASE Cascade \/ UNCHANGED vars
    BY <1>1, <1>2, <1>3, <1>26 DEF Cascade, vars, fields
  <1>27. RunOrder'
    <2> HIDE DEF RunOrder, StartersDiffer, SpawnIsFirst, BotStep, FinisherStep
    <2> QED
      BY <1>4, <1>5, <1>6, <1>7, <1>8, <1>9, <1>10, <1>11, <1>12, <1>13, <1>14, <1>15, <1>16, <1>17, <1>18, <1>19, <1>20, <1>21, <1>22, <1>23, <1>24, <1>25, <1>26
      DEF Next, StarterStep, FinishStep, WatcherStep
  <1> QED
    BY <1>27

\* Every step that raises the flag, clears the fields or passes on the state does so
\* after the handle is taken, unless it works for a run that is over.
LEMMA HandleStep ==
    ASSUME TypeOK, RunFacts, RunOrder, HandleFacts, [Next]_vars
    PROVE  HandleFacts'
  <1> USE DEF HandleFacts, HandleIsTaken, FlagIsDown, RunOrder, StartersDiffer, SpawnIsFirst, At, OnDuty, Overtaken, Clean, Fault, StarterPc, BotStep, FinisherStep, Moves, Leaves, Others
  <1>1. /\ \A c \in Bots : c \in Callers
        /\ \A c \in Callers : call[c].run <= run /\ call[c].run \in Nat
        /\ run \in Nat /\ MaxRuns \in Nat /\ Run = 1 .. MaxRuns
        /\ App \in Callers /\ App \notin Bots
    BY PcFacts, RunsAssumption DEF TypeOK, Run, RunFacts, RunsHaveBegun
  <1>2. \A b \in Bots : call[b].pc \in StarterPc => call[b].run \in Run
    BY DEF RunFacts, StarterHasRun
  <1>3. watcher \in [Run -> {"none", "poll", "exit", "flush", "done"}]
    BY DEF TypeOK
  <1>4. \A c \in Callers : (At(c, "take") /\ OnDuty(c) /\ Clean) => state \notin {"Starting", "Ready"}
    BY DEF RunFacts, ClaimedRunIsOver
  <1>5. ASSUME NEW b \in Bots, Stop(b) PROVE HandleFacts'
    BY <1>1, <1>2, <1>3, <1>4, BotSteps, <1>5 DEF Stop, fields
  <1>6. ASSUME NEW b \in Bots, Spawn(b) PROVE HandleFacts'
    <2> SUFFICES ASSUME Clean' PROVE HandleFacts'
      OBVIOUS
    <2>1. /\ call[b].pc = "spawn" /\ call'[b].pc = "connect" /\ call'[b].run = call[b].run
          /\ \A other \in Callers : other # b => call'[other] = call[other]
          /\ run' = run /\ watcher' = [watcher EXCEPT ![call[b].run] = "poll"]
          /\ state' = state /\ dead_flag' = dead_flag
      BY <1>6, BotSteps DEF Spawn
    <2>2. Clean /\ call[b].run = run /\ state = "Starting"
      BY <1>6 DEF Spawn
    <2>3. run \in Run /\ watcher'[run] = "poll"
      BY <1>2, <1>3, <2>1, <2>2
    <2>4. ~dead_flag'
      BY <2>1, <2>2
    <2>5. \A c \in Callers : c # b /\ call[c].run = run => call[c].pc \notin {"stop_node", "settle"}
      BY <2>2
    <2>6. \A other \in Bots : other # b /\ call[other].run = run => call[other].pc \notin StarterPc
      BY <2>1, <2>2
    <2> QED
      BY <1>1, <2>1, <2>2, <2>3, <2>4, <2>5, <2>6
  <1>7. ASSUME NEW b \in Bots, SpawnFails(b) PROVE HandleFacts'
    BY <1>1, <1>2, <1>3, <1>4, BotSteps, <1>7 DEF SpawnFails, fields
  <1>8. ASSUME NEW b \in Bots, Connect(b) PROVE HandleFacts'
    BY <1>1, <1>2, <1>3, <1>4, BotSteps, <1>8 DEF Connect, fields
  <1>9. ASSUME NEW b \in Bots, Login(b) PROVE HandleFacts'
    BY <1>1, <1>2, <1>3, <1>4, BotSteps, <1>9 DEF Login, fields
  <1>10. ASSUME NEW b \in Bots, BecomeReady(b) PROVE HandleFacts'
    BY <1>1, <1>2, <1>3, <1>4, BotSteps, <1>10 DEF BecomeReady, fields
  <1>11. ASSUME NEW b \in Bots, KillInnerChild(b) PROVE HandleFacts'
    BY <1>1, <1>2, <1>3, <1>4, BotSteps, <1>11 DEF KillInnerChild, fields
  <1>12. ASSUME NEW b \in Bots, RaiseDeadFlag(b) PROVE HandleFacts'
    BY <1>1, <1>2, <1>3, <1>4, BotSteps, <1>12 DEF RaiseDeadFlag, fields
  <1>13. ASSUME NEW b \in Bots, RollbackToStopped(b) PROVE HandleFacts'
    BY <1>1, <1>2, <1>3, <1>4, BotSteps, <1>13 DEF RollbackToStopped, Clear, fields
  <1>14. ASSUME NEW b \in Bots, WaitForReady(b) PROVE HandleFacts'
    BY <1>1, <1>2, <1>3, <1>4, BotSteps, <1>14 DEF WaitForReady, fields
  <1>15. ASSUME NEW b \in Bots, Load(b) PROVE HandleFacts'
    BY <1>1, <1>2, <1>3, <1>4, BotSteps, <1>15 DEF Load, fields
  <1>16. ASSUME NEW b \in Bots, Release(b) PROVE HandleFacts'
    BY <1>1, <1>2, <1>3, <1>4, BotSteps, <1>16 DEF Release, Claim, fields
  <1>17. ASSUME NEW b \in Bots, EnsureRunning(b) PROVE HandleFacts'
    <2>1. \A other \in Callers : other # b => call'[other] = call[other]
      BY <1>17, BotSteps
    <2>2. CASE /\ state' = "Starting" /\ run' = run + 1 /\ call'[b].pc = "spawn" /\ call'[b].run = run'
      <3>1. /\ state \in {"Stopped", "Crashed"} /\ run < MaxRuns /\ dead_flag' = FALSE
            /\ watcher' = watcher /\ faults' = faults /\ node_child' \in {0, node_child}
        BY <1>1, <1>17, <2>2 DEF EnsureRunning
      <3>2. run' \in Run /\ watcher'[run'] = "none"
        BY <1>1, <2>2, <3>1
      <3>3. \A other \in Callers : other # b => call'[other].run # run'
        BY <1>1, <2>1, <2>2
      <3>4. Clean' => node_child' = 0
        BY <3>1
      <3> QED
        BY <1>1, <2>1, <2>2, <3>1, <3>2, <3>3, <3>4
    <2>3. CASE run' = run /\ call'[b].pc \in {"wait", "load", "release"}
      <3>1. /\ state' = state /\ node_child' = node_child /\ dead_flag' = dead_flag
            /\ watcher' = watcher /\ faults \subseteq faults'
        BY <1>1, <1>17, <2>3 DEF EnsureRunning, fields
      <3> QED
        BY <1>1, <2>1, <2>3, <3>1
    <2> QED
      BY <1>17, <2>2, <2>3, BotSteps
  <1>18. CASE Shutdown
    BY <1>1, <1>2, <1>3, <1>4, ShutdownStep, <1>18 DEF Shutdown, Claim, fields
  <1>19. ASSUME NEW c \in Callers, TakeHandles(c) PROVE HandleFacts'
    BY <1>1, <1>2, <1>3, <1>4, FinisherSteps, <1>19 DEF TakeHandles, fields
  <1>20. ASSUME NEW c \in Callers, StopNode(c) PROVE HandleFacts'
    BY <1>1, <1>2, <1>3, <1>4, FinisherSteps, <1>20 DEF StopNode, fields
  <1>21. ASSUME NEW c \in Callers, SettleStopped(c) PROVE HandleFacts'
    BY <1>1, <1>2, <1>3, <1>4, FinisherSteps, <1>21 DEF SettleStopped, Clear, fields
  <1>22. ASSUME NEW r \in Run, NodeDies(r) PROVE HandleFacts'
    BY <1>1, <1>2, <1>3, <1>4, <1>22 DEF NodeDies, fields
  <1>23. ASSUME NEW r \in Run, WatchExit(r) PROVE HandleFacts'
    BY <1>1, <1>2, <1>3, <1>4, <1>23 DEF WatchExit, fields
  <1>24. ASSUME NEW r \in Run, WaitFails(r) PROVE HandleFacts'
    BY <1>1, <1>2, <1>3, <1>4, <1>24 DEF WaitFails, fields
  <1>25. ASSUME NEW r \in Run, WatcherRaisesFlag(r) PROVE HandleFacts'
    BY <1>1, <1>2, <1>3, <1>4, <1>25 DEF WatcherRaisesFlag, fields
  <1>26. ASSUME NEW r \in Run, WatcherSettles(r) PROVE HandleFacts'
    BY <1>1, <1>2, <1>3, <1>4, <1>26 DEF WatcherSettles, fields
  <1>27. CASE Cascade \/ UNCHANGED vars
    BY <1>1, <1>2, <1>3, <1>4, <1>27 DEF Cascade, vars, fields
  <1>28. HandleFacts'
    <2> HIDE DEF HandleFacts, HandleIsTaken, FlagIsDown, RunOrder, StartersDiffer, SpawnIsFirst, BotStep, FinisherStep
    <2> QED
      BY <1>5, <1>6, <1>7, <1>8, <1>9, <1>10, <1>11, <1>12, <1>13, <1>14, <1>15, <1>16, <1>17, <1>18, <1>19, <1>20, <1>21, <1>22, <1>23, <1>24, <1>25, <1>26, <1>27
      DEF Next, StarterStep, FinishStep, WatcherStep
  <1> QED
    BY <1>28

\* Only the run's own starter makes it Ready, and only its watcher or a claimed stop
\* takes its handle.
LEMMA ReadyStep ==
    ASSUME TypeOK, RunFacts, StartersDiffer, ReadyFacts, [Next]_vars
    PROVE  ReadyFacts'
  <1> USE DEF ReadyFacts, ReadyRun, NodeIsMinded, StartersDiffer, At, OnDuty, Overtaken, Clean, Fault, StarterPc, BotStep, FinisherStep, Moves, Leaves, Others
  <1>1. /\ \A c \in Bots : c \in Callers
        /\ \A c \in Callers : call[c].run <= run /\ call[c].run \in Nat
        /\ run \in Nat /\ MaxRuns \in Nat /\ Run = 1 .. MaxRuns
        /\ App \in Callers /\ App \notin Bots
    BY PcFacts, RunsAssumption DEF TypeOK, Run, RunFacts, RunsHaveBegun
  <1>2. \A b \in Bots : call[b].pc \in StarterPc => call[b].run \in Run
    BY DEF RunFacts, StarterHasRun
  <1>3. watcher \in [Run -> {"none", "poll", "exit", "flush", "done"}]
    BY DEF TypeOK
  <1>4. \A c \in Callers : (At(c, "take") /\ OnDuty(c) /\ Clean) => state \notin {"Starting", "Ready"}
    BY DEF RunFacts, ClaimedRunIsOver
  <1>5. ASSUME NEW b \in Bots, Stop(b) PROVE ReadyFacts'
    BY <1>1, <1>2, <1>3, <1>4, BotSteps, <1>5 DEF Stop, fields
  <1>6. ASSUME NEW b \in Bots, Spawn(b) PROVE ReadyFacts'
    BY <1>1, <1>2, <1>3, <1>4, BotSteps, <1>6 DEF Spawn, fields
  <1>7. ASSUME NEW b \in Bots, SpawnFails(b) PROVE ReadyFacts'
    BY <1>1, <1>2, <1>3, <1>4, BotSteps, <1>7 DEF SpawnFails, fields
  <1>8. ASSUME NEW b \in Bots, Connect(b) PROVE ReadyFacts'
    BY <1>1, <1>2, <1>3, <1>4, BotSteps, <1>8 DEF Connect, fields
  <1>9. ASSUME NEW b \in Bots, Login(b) PROVE ReadyFacts'
    BY <1>1, <1>2, <1>3, <1>4, BotSteps, <1>9 DEF Login, fields
  <1>10. ASSUME NEW b \in Bots, BecomeReady(b) PROVE ReadyFacts'
    <2> SUFFICES ASSUME Clean' PROVE ReadyFacts'
      OBVIOUS
    <2>1. /\ call[b].pc = "ready" /\ call'[b].pc = "load"
          /\ \A other \in Callers : other # b => call'[other] = call[other]
          /\ run' = run /\ watcher' = watcher /\ node_child' = node_child
          /\ webui_client' = call[b].run
      BY <1>10, BotSteps DEF BecomeReady
    <2>2. Clean /\ call[b].run = run /\ state = "Starting"
      BY <1>10 DEF BecomeReady
    <2>3. \A other \in Bots : other # b /\ call[other].run = run => call[other].pc \notin StarterPc
      BY <2>1, <2>2
    <2>4. ReadyRun'
      BY <1>1, <2>1, <2>2, <2>3
    <2>5. node_child = run \/ \E r \in Run : watcher[r] \in {"exit", "flush"}
      BY <2>1, <2>2
    <2> QED
      BY <2>1, <2>4, <2>5
  <1>11. ASSUME NEW b \in Bots, KillInnerChild(b) PROVE ReadyFacts'
    <2> SUFFICES ASSUME Clean' PROVE ReadyFacts'
      OBVIOUS
    <2>1. /\ call[b].pc = "kill" /\ call'[b].pc \in {"rollback", "killed"}
          /\ call'[b].run = call[b].run
          /\ \A other \in Callers : other # b => call'[other] = call[other]
          /\ run' = run /\ watcher' = watcher /\ state' = state /\ webui_client' = webui_client
          /\ node_child' = 0
      BY <1>11, BotSteps DEF KillInnerChild
    <2>2. Clean /\ (node_child # 0 => node_child = call[b].run)
      BY <1>11 DEF KillInnerChild, Target
    <2>3. ReadyRun'
      BY <1>1, <2>1, <2>2
    <2>4. CASE call[b].run = run
      <3>1. state # "Ready"
        BY <2>1, <2>2, <2>4
      <3>2. \A other \in Bots : other # b /\ call[other].run = run => call[other].pc \notin StarterPc
        BY <2>1, <2>4
      <3>3. ~\E other \in Bots :
                 call'[other].pc \in {"connect", "login", "ready"} /\ call'[other].run = run
        BY <1>1, <2>1, <3>2
      <3>4. NodeIsMinded'
        BY <2>1, <3>1, <3>3
      <3> QED
        BY <2>3, <3>4
    <2>5. CASE call[b].run # run
      <3>1. node_child = run => node_child' = run
        BY <2>1, <2>2, <2>5
      <3>2. \A other \in Bots : (call'[other].pc \in {"connect", "login", "ready"} /\ call'[other].run = run)
                => call[other].pc \in {"connect", "login", "ready"} /\ call[other].run = run
        BY <1>1, <2>1
      <3>3. NodeIsMinded'
        BY <2>1, <2>2, <3>1, <3>2
      <3> QED
        BY <2>3, <3>3
    <2> QED
      BY <2>4, <2>5
  <1>12. ASSUME NEW b \in Bots, RaiseDeadFlag(b) PROVE ReadyFacts'
    BY <1>1, <1>2, <1>3, <1>4, BotSteps, <1>12 DEF RaiseDeadFlag, fields
  <1>13. ASSUME NEW b \in Bots, RollbackToStopped(b) PROVE ReadyFacts'
    BY <1>1, <1>2, <1>3, <1>4, BotSteps, <1>13 DEF RollbackToStopped, Clear, fields
  <1>14. ASSUME NEW b \in Bots, WaitForReady(b) PROVE ReadyFacts'
    BY <1>1, <1>2, <1>3, <1>4, BotSteps, <1>14 DEF WaitForReady, fields
  <1>15. ASSUME NEW b \in Bots, Load(b) PROVE ReadyFacts'
    BY <1>1, <1>2, <1>3, <1>4, BotSteps, <1>15 DEF Load, fields
  <1>16. ASSUME NEW b \in Bots, Release(b) PROVE ReadyFacts'
    BY <1>1, <1>2, <1>3, <1>4, BotSteps, <1>16 DEF Release, Claim, fields
  <1>17. ASSUME NEW b \in Bots, EnsureRunning(b) PROVE ReadyFacts'
    <2>1. \A other \in Callers : other # b => call'[other] = call[other]
      BY <1>17, BotSteps
    <2>2. CASE /\ state' = "Starting" /\ run' = run + 1 /\ call'[b].pc = "spawn" /\ call'[b].run = run'
      <3>1. \A other \in Callers : other # b => call'[other].run # run'
        BY <1>1, <2>1, <2>2
      <3> QED
        BY <1>1, <2>2, <3>1
    <2>3. CASE run' = run /\ call'[b].pc \in {"wait", "load", "release"}
      <3>1. /\ state' = state /\ node_child' = node_child /\ webui_client' = webui_client
            /\ watcher' = watcher /\ faults \subseteq faults'
        BY <1>1, <1>17, <2>3 DEF EnsureRunning, fields
      <3> QED
        BY <1>1, <2>1, <2>3, <3>1
    <2> QED
      BY <1>17, <2>2, <2>3, BotSteps
  <1>18. CASE Shutdown
    BY <1>1, <1>2, <1>3, <1>4, ShutdownStep, <1>18 DEF Shutdown, Claim, fields
  <1>19. ASSUME NEW c \in Callers, TakeHandles(c) PROVE ReadyFacts'
    BY <1>1, <1>2, <1>3, <1>4, FinisherSteps, <1>19 DEF TakeHandles, fields
  <1>20. ASSUME NEW c \in Callers, StopNode(c) PROVE ReadyFacts'
    BY <1>1, <1>2, <1>3, <1>4, FinisherSteps, <1>20 DEF StopNode, fields
  <1>21. ASSUME NEW c \in Callers, SettleStopped(c) PROVE ReadyFacts'
    BY <1>1, <1>2, <1>3, <1>4, FinisherSteps, <1>21 DEF SettleStopped, Clear, fields
  <1>22. ASSUME NEW r \in Run, NodeDies(r) PROVE ReadyFacts'
    BY <1>1, <1>2, <1>3, <1>4, <1>22 DEF NodeDies, fields
  <1>23. ASSUME NEW r \in Run, WatchExit(r) PROVE ReadyFacts'
    BY <1>1, <1>2, <1>3, <1>4, <1>23 DEF WatchExit, fields
  <1>24. ASSUME NEW r \in Run, WaitFails(r) PROVE ReadyFacts'
    BY <1>1, <1>2, <1>3, <1>4, <1>24 DEF WaitFails, fields
  <1>25. ASSUME NEW r \in Run, WatcherRaisesFlag(r) PROVE ReadyFacts'
    BY <1>1, <1>2, <1>3, <1>4, <1>25 DEF WatcherRaisesFlag, fields
  <1>26. ASSUME NEW r \in Run, WatcherSettles(r) PROVE ReadyFacts'
    BY <1>1, <1>2, <1>3, <1>4, <1>26 DEF WatcherSettles, fields
  <1>27. CASE Cascade \/ UNCHANGED vars
    BY <1>1, <1>2, <1>3, <1>4, <1>27 DEF Cascade, vars, fields
  <1>28. ReadyFacts'
    <2> HIDE DEF ReadyFacts, ReadyRun, NodeIsMinded, StartersDiffer, BotStep, FinisherStep
    <2> QED
      BY <1>5, <1>6, <1>7, <1>8, <1>9, <1>10, <1>11, <1>12, <1>13, <1>14, <1>15, <1>16, <1>17, <1>18, <1>19, <1>20, <1>21, <1>22, <1>23, <1>24, <1>25, <1>26, <1>27
      DEF Next, StarterStep, FinishStep, WatcherStep
  <1> QED
    BY <1>28

\* So no clean step drops the handle of a node that is alive.
LEMMA OrphanStep ==
    ASSUME TypeOK, RunFacts, HandleIsTaken, OrphanNeedsFault, [Next]_vars
    PROVE  OrphanNeedsFault'
  <1> USE DEF OrphanNeedsFault, HandleIsTaken, At, OnDuty, Overtaken, Clean, Fault, StarterPc, BotStep, FinisherStep, Moves, Leaves, Others
  <1>1. /\ \A c \in Bots : c \in Callers
        /\ \A c \in Callers : call[c].run <= run /\ call[c].run \in Nat
        /\ run \in Nat /\ MaxRuns \in Nat /\ Run = 1 .. MaxRuns /\ 0 \notin Run
        /\ App \in Callers /\ App \notin Bots
    BY PcFacts, RunsAssumption DEF TypeOK, Run, RunFacts, RunsHaveBegun
  <1>2. \A b \in Bots : call[b].pc \in StarterPc => call[b].run \in Run
    BY DEF RunFacts, StarterHasRun
  <1>3. node \in [Run -> {"none", "alive", "dead"}]
    BY DEF TypeOK
  <1>4. ASSUME NEW b \in Bots, Stop(b) PROVE OrphanNeedsFault'
    BY <1>1, <1>2, <1>3, BotSteps, <1>4 DEF Stop, fields
  <1>5. ASSUME NEW b \in Bots, Spawn(b) PROVE OrphanNeedsFault'
    <2> SUFFICES ASSUME Clean', NEW r \in Run, node'[r] = "alive"
        PROVE  \/ node_child' = r
               \/ \E c \in Callers : At(c, "stop_node")' /\ call'[c].node = r
      OBVIOUS
    <2>1. /\ call[b].pc = "spawn" /\ node' = [node EXCEPT ![call[b].run] = "alive"]
          /\ node_child' = call[b].run
          /\ \A other \in Callers : other # b => call'[other] = call[other]
      BY <1>5, BotSteps DEF Spawn
    <2>2. Clean /\ call[b].run = run
      BY <1>5 DEF Spawn
    <2>3. node_child = 0
      BY <2>1, <2>2
    <2>4. CASE r # call[b].run
      <3>1. node[r] = "alive"
        BY <1>3, <2>1, <2>4
      <3>2. PICK c \in Callers : call[c].pc = "stop_node" /\ call[c].node = r
        BY <1>1, <2>2, <2>3, <3>1
      <3>3. call'[c] = call[c]
        BY <2>1, <3>2
      <3> QED
        BY <3>2, <3>3
    <2> QED
      BY <2>1, <2>4
  <1>6. ASSUME NEW b \in Bots, SpawnFails(b) PROVE OrphanNeedsFault'
    BY <1>1, <1>2, <1>3, BotSteps, <1>6 DEF SpawnFails, fields
  <1>7. ASSUME NEW b \in Bots, Connect(b) PROVE OrphanNeedsFault'
    BY <1>1, <1>2, <1>3, BotSteps, <1>7 DEF Connect, fields
  <1>8. ASSUME NEW b \in Bots, Login(b) PROVE OrphanNeedsFault'
    BY <1>1, <1>2, <1>3, BotSteps, <1>8 DEF Login, fields
  <1>9. ASSUME NEW b \in Bots, BecomeReady(b) PROVE OrphanNeedsFault'
    BY <1>1, <1>2, <1>3, BotSteps, <1>9 DEF BecomeReady, fields
  <1>10. ASSUME NEW b \in Bots, KillInnerChild(b) PROVE OrphanNeedsFault'
    BY <1>1, <1>2, <1>3, BotSteps, <1>10 DEF KillInnerChild, Target, Killed, fields
  <1>11. ASSUME NEW b \in Bots, RaiseDeadFlag(b) PROVE OrphanNeedsFault'
    BY <1>1, <1>2, <1>3, BotSteps, <1>11 DEF RaiseDeadFlag, fields
  <1>12. ASSUME NEW b \in Bots, RollbackToStopped(b) PROVE OrphanNeedsFault'
    BY <1>1, <1>2, <1>3, BotSteps, <1>12 DEF RollbackToStopped, Clear, fields
  <1>13. ASSUME NEW b \in Bots, WaitForReady(b) PROVE OrphanNeedsFault'
    BY <1>1, <1>2, <1>3, BotSteps, <1>13 DEF WaitForReady, fields
  <1>14. ASSUME NEW b \in Bots, Load(b) PROVE OrphanNeedsFault'
    BY <1>1, <1>2, <1>3, BotSteps, <1>14 DEF Load, fields
  <1>15. ASSUME NEW b \in Bots, Release(b) PROVE OrphanNeedsFault'
    BY <1>1, <1>2, <1>3, BotSteps, <1>15 DEF Release, Claim, fields
  <1>16. ASSUME NEW b \in Bots, EnsureRunning(b) PROVE OrphanNeedsFault'
    <2>1. /\ call[b].pc = "idle" /\ \A other \in Callers : other # b => call'[other] = call[other]
      BY <1>16, BotSteps
    <2>2. node' = node /\ faults \subseteq faults'
      BY <1>16 DEF EnsureRunning
    <2>3. \/ node_child' = node_child
          \/ state = "Crashed"
      BY <1>16 DEF EnsureRunning, fields
    <2>4. Clean' => node_child' = node_child \/ node_child = 0
      BY <2>2, <2>3
    <2> QED
      BY <1>1, <2>1, <2>2, <2>4
  <1>17. CASE Shutdown
    BY <1>1, <1>2, <1>3, ShutdownStep, <1>17 DEF Shutdown, Claim, fields
  <1>18. ASSUME NEW c \in Callers, TakeHandles(c) PROVE OrphanNeedsFault'
    <2>1. /\ call[c].pc = "take" /\ call'[c].pc = "stop_node"
          /\ node_child # 0 => call'[c].node = node_child
          /\ \A other \in Callers : other # c => call'[other] = call[other]
          /\ node' = node /\ faults \subseteq faults'
      BY <1>18, FinisherSteps DEF TakeHandles, Target
    <2> QED
      BY <1>1, <2>1
  <1>19. ASSUME NEW c \in Callers, StopNode(c) PROVE OrphanNeedsFault'
    BY <1>1, <1>2, <1>3, FinisherSteps, <1>19 DEF StopNode, Killed, fields
  <1>20. ASSUME NEW c \in Callers, SettleStopped(c) PROVE OrphanNeedsFault'
    BY <1>1, <1>2, <1>3, FinisherSteps, <1>20 DEF SettleStopped, Clear, fields
  <1>21. ASSUME NEW r \in Run, NodeDies(r) PROVE OrphanNeedsFault'
    BY <1>1, <1>2, <1>3, <1>21 DEF NodeDies, Killed, fields
  <1>22. ASSUME NEW r \in Run, WatchExit(r) PROVE OrphanNeedsFault'
    BY <1>1, <1>2, <1>3, <1>22 DEF WatchExit, fields
  <1>23. ASSUME NEW r \in Run, WaitFails(r) PROVE OrphanNeedsFault'
    BY <1>1, <1>2, <1>3, <1>23 DEF WaitFails, fields
  <1>24. ASSUME NEW r \in Run, WatcherRaisesFlag(r) PROVE OrphanNeedsFault'
    BY <1>1, <1>2, <1>3, <1>24 DEF WatcherRaisesFlag, fields
  <1>25. ASSUME NEW r \in Run, WatcherSettles(r) PROVE OrphanNeedsFault'
    BY <1>1, <1>2, <1>3, <1>25 DEF WatcherSettles, fields
  <1>26. CASE Cascade \/ UNCHANGED vars
    BY <1>1, <1>2, <1>3, <1>26 DEF Cascade, vars, fields
  <1>27. OrphanNeedsFault'
    <2> HIDE DEF OrphanNeedsFault, HandleIsTaken, BotStep, FinisherStep
    <2> QED
      BY <1>4, <1>5, <1>6, <1>7, <1>8, <1>9, <1>10, <1>11, <1>12, <1>13, <1>14, <1>15, <1>16, <1>17, <1>18, <1>19, <1>20, <1>21, <1>22, <1>23, <1>24, <1>25, <1>26
      DEF Next, StarterStep, FinishStep, WatcherStep
  <1> QED
    BY <1>27

\* A reference is taken by a call that is under way and dropped by a release.
LEMMA AtWorkStep ==
    ASSUME TypeOK, HolderIsAtWork, [Next]_vars
    PROVE  HolderIsAtWork'
  <1> USE DEF HolderIsAtWork, At, Fault, StarterPc, BotStep, FinisherStep, Moves, Leaves, Others
  <1>1. /\ \A c \in Bots : c \in Callers
        /\ ref_count \in Nat /\ App \in Callers /\ App \notin Bots
        /\ holders \subseteq Bots /\ record \subseteq Bots
    BY PcFacts DEF TypeOK
  <1>2. ASSUME NEW b \in Bots, Stop(b) PROVE HolderIsAtWork'
    BY <1>1, BotSteps, <1>2 DEF Stop, fields, bots
  <1>3. ASSUME NEW b \in Bots, Spawn(b) PROVE HolderIsAtWork'
    BY <1>1, BotSteps, <1>3 DEF Spawn, fields, bots
  <1>4. ASSUME NEW b \in Bots, SpawnFails(b) PROVE HolderIsAtWork'
    BY <1>1, BotSteps, <1>4 DEF SpawnFails, fields, bots
  <1>5. ASSUME NEW b \in Bots, Connect(b) PROVE HolderIsAtWork'
    BY <1>1, BotSteps, <1>5 DEF Connect, fields, bots
  <1>6. ASSUME NEW b \in Bots, Login(b) PROVE HolderIsAtWork'
    BY <1>1, BotSteps, <1>6 DEF Login, fields, bots
  <1>7. ASSUME NEW b \in Bots, BecomeReady(b) PROVE HolderIsAtWork'
    BY <1>1, BotSteps, <1>7 DEF BecomeReady, fields, bots
  <1>8. ASSUME NEW b \in Bots, KillInnerChild(b) PROVE HolderIsAtWork'
    BY <1>1, BotSteps, <1>8 DEF KillInnerChild, fields, bots
  <1>9. ASSUME NEW b \in Bots, RaiseDeadFlag(b) PROVE HolderIsAtWork'
    BY <1>1, BotSteps, <1>9 DEF RaiseDeadFlag, fields, bots
  <1>10. ASSUME NEW b \in Bots, RollbackToStopped(b) PROVE HolderIsAtWork'
    BY <1>1, BotSteps, <1>10 DEF RollbackToStopped, Clear, fields, bots
  <1>11. ASSUME NEW b \in Bots, WaitForReady(b) PROVE HolderIsAtWork'
    BY <1>1, BotSteps, <1>11 DEF WaitForReady, fields, bots
  <1>12. ASSUME NEW b \in Bots, Load(b) PROVE HolderIsAtWork'
    <2>1. /\ \A other \in Callers : other # b => call'[other] = call[other]
          /\ call'[b].pc = "release" \/ (call'[b].pc = "idle" /\ b \in record')
      <3>1. \/ Idle(b) /\ record' = record \cup {b}
            \/ Abort(b)
        BY <1>12 DEF Load
      <3>2. Abort(b) => Leaves(b, "release")
        BY <1>1, CallMoves
      <3> QED
        BY <1>12, <3>1, <3>2, BotSteps
    <2>2. /\ record \subseteq record' /\ holders' = holders /\ state' = state
          /\ ref_count' = ref_count /\ faults' = faults
      BY <1>12 DEF Load, fields
    <2> QED
      BY <1>1, <2>1, <2>2
  <1>13. ASSUME NEW b \in Bots, Release(b) PROVE HolderIsAtWork'
    BY <1>1, BotSteps, <1>13 DEF Release, Claim, fields, bots
  <1>14. ASSUME NEW b \in Bots, EnsureRunning(b) PROVE HolderIsAtWork'
    <2>1. /\ \A other \in Callers : other # b => call'[other] = call[other]
          /\ call'[b].pc \in {"spawn", "wait", "load", "release"}
          /\ record' = record /\ holders' \subseteq holders \cup {b} /\ faults \subseteq faults'
      BY <1>14, BotSteps DEF EnsureRunning
    <2>2. \A other \in holders' :
              other \in record' \/ call'[other].pc \in StarterPc \cup {"wait", "load", "release"}
      BY <1>1, <2>1
    <2>3. ref_count' > 0 \/ (state' = state /\ ref_count' = ref_count)
      BY <1>1, <1>14 DEF EnsureRunning, fields
    <2>4. state' = state \/ ref_count' = 1
      BY <1>14 DEF EnsureRunning, fields
    <2> QED
      BY <2>1, <2>2, <2>3, <2>4
  <1>15. CASE Shutdown
    BY <1>1, ShutdownStep, <1>15 DEF Shutdown, Claim, fields, bots
  <1>16. ASSUME NEW c \in Callers, TakeHandles(c) PROVE HolderIsAtWork'
    BY <1>1, FinisherSteps, <1>16 DEF TakeHandles, fields, bots
  <1>17. ASSUME NEW c \in Callers, StopNode(c) PROVE HolderIsAtWork'
    BY <1>1, FinisherSteps, <1>17 DEF StopNode, fields, bots
  <1>18. ASSUME NEW c \in Callers, SettleStopped(c) PROVE HolderIsAtWork'
    BY <1>1, FinisherSteps, <1>18 DEF SettleStopped, Clear, fields, bots
  <1>19. ASSUME NEW r \in Run, NodeDies(r) PROVE HolderIsAtWork'
    BY <1>1, <1>19 DEF NodeDies, fields, bots
  <1>20. ASSUME NEW r \in Run, WatchExit(r) PROVE HolderIsAtWork'
    BY <1>1, <1>20 DEF WatchExit, fields, bots
  <1>21. ASSUME NEW r \in Run, WaitFails(r) PROVE HolderIsAtWork'
    BY <1>1, <1>21 DEF WaitFails, fields, bots
  <1>22. ASSUME NEW r \in Run, WatcherRaisesFlag(r) PROVE HolderIsAtWork'
    BY <1>1, <1>22 DEF WatcherRaisesFlag, fields, bots
  <1>23. ASSUME NEW r \in Run, WatcherSettles(r) PROVE HolderIsAtWork'
    BY <1>1, <1>23 DEF WatcherSettles, fields, bots
  <1>24. CASE Cascade \/ UNCHANGED vars
    BY <1>1, <1>24 DEF Cascade, vars, fields, bots
  <1>25. HolderIsAtWork'
    <2> HIDE DEF HolderIsAtWork, BotStep, FinisherStep
    <2> QED
      BY <1>2, <1>3, <1>4, <1>5, <1>6, <1>7, <1>8, <1>9, <1>10, <1>11, <1>12, <1>13, <1>14, <1>15, <1>16, <1>17, <1>18, <1>19, <1>20, <1>21, <1>22, <1>23, <1>24
      DEF Next, StarterStep, FinishStep, WatcherStep
  <1> QED
    BY <1>25

-----------------------------------------------------------------------------
LEMMA NextIInv == IInv /\ [Next]_vars => IInv'
  <1> SUFFICES ASSUME IInv, [Next]_vars PROVE IInv'
    OBVIOUS
  <1>1. TypeOK'
    <2>1. CASE UNCHANGED vars
      BY <2>1 DEF IInv, TypeOK, vars, fields, bots
    <2> QED
      BY <2>1, StarterTypes, OtherTypes DEF IInv, Next
  <1>2. RunFacts'
    BY <1>1, RunStep DEF IInv, RunFacts
  <1>3. BusyStateHasOwner' /\ ChildIsWatched'
    BY OwnerStep, WatchStep DEF IInv
  <1>4. IsFiniteSet(holders') /\ CountIsHolders'
    BY CountStep DEF IInv
  <1>5. HolderIsServedSoon'
    BY ServedStep DEF IInv
  <1>6. RunFacts
    BY DEF IInv, RunFacts
  <1>7. RunOrder' /\ HandleFacts'
    BY <1>6, RunOrderStep, HandleStep DEF IInv
  <1>8. ReadyFacts' /\ OrphanNeedsFault'
    BY <1>6, ReadyStep, OrphanStep DEF IInv, RunOrder, HandleFacts
  <1>9. HolderIsAtWork'
    BY AtWorkStep DEF IInv
  <1> QED
    BY <1>1, <1>2, <1>3, <1>4, <1>5, <1>7, <1>8, <1>9 DEF IInv, RunFacts

LEMMA Invariance == Spec => []IInv
  BY InitIInv, NextIInv, PTL DEF Spec

(***************************************************************************)
(* The theorems.                                                           *)
(***************************************************************************)

\* Every field keeps its kind of value, and ref_count never falls below zero, whatever
\* the order of starts, stops, shutdown and deaths of the node.
THEOREM TypeCorrect == Spec => []TypeOK
  <1>1. IInv => TypeOK
    BY DEF IInv
  <1> QED
    BY <1>1, Invariance, PTL

\* Whoever finds the daemon Starting or Stopping can rely on a task that will end it:
\* wait_for_ready never polls a state that nobody is going to change.
THEOREM BusyStateIsOwned == Spec => []BusyStateHasOwner
  <1>1. IInv => BusyStateHasOwner
    BY DEF IInv
  <1> QED
    BY <1>1, Invariance, PTL

\* A node whose handle the fields keep is polled by some watch_exit.
THEOREM ChildAlwaysWatched == Spec => []ChildIsWatched
  <1>1. IInv => ChildIsWatched
    BY DEF IInv
  <1> QED
    BY <1>1, Invariance, PTL

\* As long as nobody released without a reference or worked on for a run that was over,
\* ref_count of ensure_running and release counts exactly the bots that use the node.
THEOREM CountCorrect == Spec => []CountIsHolders
  <1>1. IInv => CountIsHolders
    BY DEF IInv
  <1> QED
    BY <1>1, Invariance, PTL

\* A Ready daemon without a client is always the work of a task whose run was over.
THEOREM ReadyDaemonHasClient == Spec => []ReadyHasClient
  <1>1. IInv => ReadyHasClient
    BY DEF IInv
  <1> QED
    BY <1>1, Invariance, PTL

\* Without such faults no stop, failed start or crash of another bot takes the node from
\* a running bot that holds its reference, until the desktop exits.
THEOREM HolderServed == Spec => []HolderIsServed
  <1>1. IInv => HolderIsServed
    BY DEF IInv, TypeOK, HolderIsServedSoon, HolderIsServed, At
  <1> QED
    BY <1>1, Invariance, PTL

\* A living node whose handle nobody keeps and nobody is about to kill is always the work
\* of a task that went on after its run was over (or of a try_wait that failed).
THEOREM OrphansExplained == Spec => []OrphanNeedsFault
  <1>1. IInv => OrphanNeedsFault
    BY DEF IInv
  <1> QED
    BY <1>1, Invariance, PTL

\* When every call has returned and no bot runs, the daemon is down and every node it
\* ever spawned is gone: the count has not leaked and no stop was left half done.
THEOREM QuietDaemonIsStopped == Spec => []QuietMeansStopped
  <1>1. IInv => QuietMeansStopped
    <2> SUFFICES ASSUME IInv, \A c \in Callers : call[c].pc \in RestPc, record = {}, faults = {}
                 PROVE  state \in {"Stopped", "Crashed"} /\ \A r \in Run : node[r] # "alive"
      BY DEF QuietMeansStopped
    <2>1. \A c \in Callers : /\ call[c].pc \notin StarterPc \cup FinishPc
                             /\ call[c].pc \notin {"wait", "load", "release"}
      BY DEF RestPc, StarterPc, FinishPc
    <2>2. state \notin {"Starting", "Stopping"}
      BY <2>1, PcFacts DEF IInv, BusyStateHasOwner
    <2>3. holders = {}
      BY <2>1, PcFacts DEF IInv, TypeOK, HolderIsAtWork
    <2>4. state # "Ready"
      BY <2>3, FS_EmptySet DEF IInv, HolderIsAtWork, CountIsHolders
    <2>5. state \in {"Stopped", "Crashed"}
      BY <2>2, <2>4 DEF IInv, TypeOK, DaemonState
    <2>6. node_child = 0
      BY <2>5 DEF IInv, HandleFacts, HandleIsTaken, Clean
    <2>7. ASSUME NEW r \in Run, node[r] = "alive" PROVE FALSE
      BY <2>1, <2>6, <2>7, PcFacts DEF IInv, OrphanNeedsFault, At, FinishPc
    <2> QED
      BY <2>5, <2>7
  <1> QED
    BY <1>1, Invariance, PTL

\* A node that dies under a Ready daemon does not stay unnoticed: its handle is still there
\* for a watcher to try, or a watcher has taken it and is about to report.
THEOREM DeadNodeNoticed == Spec => []DeadNodeIsNoticed
  <1>1. IInv => DeadNodeIsNoticed
    BY DEF IInv, ReadyFacts, ReadyRun, NodeIsMinded, Clean, DeadNodeIsNoticed
  <1> QED
    BY <1>1, Invariance, PTL

-----------------------------------------------------------------------------
(* The login poller.                                                       *)

\* What a poller has still to tell and to do, in this order.
Todos == {<<>>, <<"recovered">>, <<"manual">>, <<"restarting">>, <<"restart">>,
          <<"manual", "restart">>, <<"restarting", "restart">>}

Pollers == [at : {"unborn", "idle", "asking", "telling", "gone"}, cancelled : BOOLEAN,
            restart : BOOLEAN, notify : BOOLEAN, auth : BOOLEAN,
            login : {"waiting", "error", "unauthorized", "no session", "online", "offline"},
            reach : {"waiting", "error", "yes", "no"},
            logged : BOOLEAN, online : BOOLEAN, kicked : BOOLEAN, sent : BOOLEAN,
            offline : 0 .. Confirmed, todo : Todos, seen : BOOLEAN]

\* What a poller believes of its account: while that is online no notice is
\* outstanding, and an account that was found online with a session has the
\* session still or was kicked out of it.
Believes(s) ==
    /\ s.online => ~s.sent
    /\ s.seen /\ s.online => s.logged \/ s.kicked
    /\ s.at = "unborn" => ~s.seen /\ ~s.sent

\* A poller has something to tell exactly when it is telling.
Tells(s) == s.todo # <<>> <=> s.at = "telling"

\* The notice of an outage that the user has not heard of is the next thing to
\* tell, and no recovery is before it.
Announces(s) ==
    /\ s.sent => s.todo # <<>> /\ Head(s.todo) \in {"manual", "restarting"}
    /\ s.todo # <<"recovered">>

Sane(s) == s \in Pollers /\ Believes(s) /\ Tells(s) /\ (news = "none" => Announces(s))

PollerInv ==
    /\ account \in Account /\ debounced \in BOOLEAN /\ news \in {"none", "offline", "recovered"}
    /\ debounced => news # "none"
    /\ DOMAIN pollers = PollerIds /\ \A p \in PollerIds : Sane(pollers[p])

\* The lists of things to tell, and what is left of them.
LEMMA TodoParts ==
    ASSUME NEW todo \in Todos, todo # <<>>
    PROVE  /\ Tail(todo) \in {<<>>, <<"restart">>}
           /\ Head(todo) = "recovered" => todo = <<"recovered">>
           /\ Head(todo) = "restart" => todo = <<"restart">>
<1>1. CASE todo \in {<<"recovered">>, <<"manual">>, <<"restarting">>, <<"restart">>}
  <2>1. Tail(<<"recovered">>) = <<>> /\ Tail(<<"manual">>) = <<>>
    OBVIOUS
  <2>2. Tail(<<"restarting">>) = <<>> /\ Tail(<<"restart">>) = <<>>
    OBVIOUS
  <2>3. Head(<<"recovered">>) = "recovered" /\ Head(<<"manual">>) = "manual"
    OBVIOUS
  <2>4. Head(<<"restarting">>) = "restarting" /\ Head(<<"restart">>) = "restart"
    OBVIOUS
  <2> QED
    BY <1>1, <2>1, <2>2, <2>3, <2>4
<1>2. CASE todo = <<"manual", "restart">>
  <2>1. Tail(todo) = <<"restart">>
    BY <1>2
  <2> QED
    BY <1>2, <2>1
<1>3. CASE todo = <<"restarting", "restart">>
  <2>1. Tail(todo) = <<"restart">>
    BY <1>3
  <2> QED
    BY <1>3, <2>1
<1> QED
  BY <1>1, <1>2, <1>3 DEF Todos

LEMMA TodoJoined ==
    ASSUME NEW a \in {"manual", "restarting"}
    PROVE  /\ <<a>> \o <<>> = <<a>>
           /\ <<a>> \o <<"restart">> = <<a, "restart">>
           /\ <<>> \o <<"restart">> = <<"restart">>
           /\ <<>> \o <<>> = <<>>
<1>1. <<a>> \o <<>> = <<a>>
  OBVIOUS
<1>2. <<a>> \o <<"restart">> = <<a, "restart">>
  <2> DEFINE S == {"manual", "restarting", "restart"}
  <2>1. <<a>> \in Seq(S) /\ <<"restart">> \in Seq(S) /\ <<a, "restart">> \in Seq(S)
    OBVIOUS
  <2> DEFINE both == <<a>> \o <<"restart">>
  <2>2. both \in Seq(S) /\ Len(both) = 2 /\ both[1] = a /\ both[2] = "restart"
    BY <2>1, ConcatProperties
  <2>3. Len(<<a, "restart">>) = 2 /\ <<a, "restart">>[1] = a /\ <<a, "restart">>[2] = "restart"
    OBVIOUS
  <2> HIDE DEF both, S
  <2>4. \A i \in 1 .. Len(both) : both[i] = <<a, "restart">>[i]
    BY <2>2, <2>3
  <2>5. both = <<a, "restart">>
    BY <2>1, <2>2, <2>3, <2>4, SeqEqual
  <2> QED
    BY <2>5 DEF both
<1>3. <<>> \o <<"restart">> = <<"restart">>
  OBVIOUS
<1>4. <<>> \o <<>> = <<>>
  OBVIOUS
<1> QED
  BY <1>1, <1>2, <1>3, <1>4

LEMMA FreshIsPoller == Fresh \in Pollers
<1>1. <<>> \in Todos /\ 0 \in 0 .. Confirmed
  BY DEF Todos, Confirmed
<1> QED
  BY <1>1 DEF Fresh, Pollers

\* Ending a poller between two polls, or after the poll under way.
LEMMA GoneIsSane ==
    ASSUME NEW s \in Pollers
    PROVE  /\ Gone(s) \in Pollers /\ Believes(Gone(s)) /\ Tells(Gone(s)) /\ Announces(Gone(s))
           /\ Gone(s).online = s.online /\ Gone(s).todo = <<>>
<1>1. /\ Gone(s) \in Pollers /\ Gone(s).online = s.online /\ Gone(s).todo = <<>> /\ Gone(s).at = "gone"
      /\ Gone(s).sent = FALSE /\ Gone(s).seen = FALSE
  <2>1. Fresh \in Pollers /\ Fresh.todo = <<>> /\ Fresh.sent = FALSE /\ Fresh.seen = FALSE
    BY FreshIsPoller DEF Fresh
  <2> HIDE DEF Fresh
  <2> QED
    BY <2>1 DEF Gone, Pollers
<1> QED
  BY <1>1 DEF Believes, Tells, Announces

LEMMA ResumedIsSane ==
    ASSUME NEW s \in Pollers, s.at = "telling", Believes(s)
    PROVE  /\ Resumed(s) \in Pollers /\ Believes(Resumed(s)) /\ Tells(Resumed(s))
           /\ Announces(s) => Announces(Resumed(s))
           /\ Resumed(s).online = s.online /\ Resumed(s).todo = s.todo
<1>1. CASE s.todo # <<>>
  BY <1>1 DEF Resumed, Tells
<1>2. CASE s.todo = <<>> /\ s.cancelled
  BY <1>2, GoneIsSane DEF Resumed
<1>3. CASE s.todo = <<>> /\ ~s.cancelled
  <2>1. Resumed(s) = [s EXCEPT !.at = "idle"]
    BY <1>3 DEF Resumed
  <2>2. /\ Resumed(s) \in Pollers /\ Resumed(s).at = "idle" /\ Resumed(s).todo = <<>>
        /\ Resumed(s).online = s.online /\ Resumed(s).sent = s.sent /\ Resumed(s).seen = s.seen
        /\ Resumed(s).logged = s.logged /\ Resumed(s).kicked = s.kicked
    BY <1>3, <2>1 DEF Pollers
  <2> QED
    BY <1>3, <2>2 DEF Believes, Tells, Announces
<1> QED
  BY <1>1, <1>2, <1>3

\* A poll keeps what a poller has outstanding; only its answers change that.
Keeps(s, t) ==
    /\ t.at = s.at /\ t.sent = s.sent /\ t.online = s.online /\ t.todo = s.todo /\ t.seen = s.seen
    /\ t.notify = s.notify /\ t.restart = s.restart /\ t.cancelled = s.cancelled

LEMMA LoginKeeps ==
    ASSUME NEW s \in Pollers, Believes(s), s.at = "asking"
    PROVE  AfterLogin(s) \in Pollers /\ Believes(AfterLogin(s)) /\ Keeps(s, AfterLogin(s))
<1> DEFINE t == AfterLogin(s)
           kicked == s.kicked \/ (s.logged /\ s.online)
<1>1. kicked \in BOOLEAN
  OBVIOUS
<1>2. CASE s.login \in {"error", "unauthorized"}
  BY <1>2 DEF AfterLogin, Keeps
<1>3. CASE s.login \in {"online", "offline"}
  <2>1. t = [s EXCEPT !.logged = TRUE, !.kicked = FALSE]
    BY <1>3 DEF AfterLogin
  <2> HIDE DEF t
  <2>2. t \in Pollers /\ Keeps(s, t) /\ t.logged = TRUE
    BY <2>1 DEF Pollers, Keeps
  <2> QED
    BY <2>2 DEF Believes, Keeps, t
<1>4. CASE s.login \notin {"error", "unauthorized", "online", "offline"}
  <2>1. t = [s EXCEPT !.logged = FALSE, !.kicked = kicked]
    BY <1>4 DEF AfterLogin
  <2> HIDE DEF t, kicked
  <2>2. t \in Pollers /\ Keeps(s, t) /\ t.kicked = kicked
    BY <1>1, <2>1 DEF Pollers, Keeps
  <2>3. s.online /\ s.seen => kicked
    BY DEF kicked, Believes
  <2> QED
    BY <2>2, <2>3 DEF Believes, Keeps, t
<1> QED
  BY <1>2, <1>3, <1>4

\* What an outage that a poller decides on owes to the user.
Reports(s, t) ==
    (s.seen /\ s.online /\ ~t.online) =>
        /\ s.notify => Told(t) \cap {"manual", "restarting"} # {}
        /\ s.restart => "restart" \in Told(t)

\* What the answers of a poll make of it, before the poller resumes.
Decides(s, t) ==
    /\ t \in Pollers /\ Believes(t) /\ t.at = "asking" /\ t.cancelled = s.cancelled
    /\ news = "none" => Announces(t)
    /\ Reports(s, t)

LEMMA OnlineDecides ==
    ASSUME NEW s \in Pollers, Believes(s), s.at = "asking", s.todo = <<>>, news = "none" => ~s.sent
    PROVE  Decides(s, AfterOnline(s))
<1> DEFINE t == AfterOnline(s)
           todo == IF ~s.online /\ s.sent THEN <<"recovered">> ELSE <<>>
<1>1. todo \in Todos
  BY DEF Todos
<1>2. t = [s EXCEPT !.online = TRUE, !.offline = 0, !.sent = FALSE, !.kicked = FALSE, !.todo = todo, !.seen = s.logged]
  BY DEF AfterOnline
<1> HIDE DEF t, todo
<1>3. /\ t \in Pollers /\ t.at = "asking" /\ t.cancelled = s.cancelled /\ t.online = TRUE /\ t.sent = FALSE
      /\ t.todo = todo /\ t.seen = s.logged /\ t.logged = s.logged
  <2>1. 0 \in 0 .. Confirmed
    BY DEF Confirmed
  <2> QED
    BY <1>1, <1>2, <2>1 DEF Pollers
<1>4. news = "none" => todo = <<>>
  BY DEF todo
<1>5. <<>> # <<"recovered">>
  OBVIOUS
<1>6. Believes(t) /\ (news = "none" => Announces(t)) /\ Reports(s, t)
  BY <1>3, <1>4, <1>5 DEF Believes, Announces, Reports
<1> QED
  BY <1>3, <1>6 DEF Decides, t

LEMMA OfflineDecides ==
    ASSUME NEW s \in Pollers, Believes(s), s.at = "asking", s.todo = <<>>, news = "none" => ~s.sent
    PROVE  Decides(s, AfterOffline(s))
<1> DEFINE t == AfterOffline(s)
           n == IF s.offline < Confirmed THEN s.offline + 1 ELSE Confirmed
           reported == s.logged \/ s.kicked
           sent == s.sent \/ (reported /\ s.notify)
           notice == IF s.sent \/ ~s.notify THEN <<>> ELSE IF s.restart THEN <<"restarting">> ELSE <<"manual">>
           todo == IF reported THEN notice \o (IF s.restart THEN <<"restart">> ELSE <<>>) ELSE <<>>
<1>1. n \in 0 .. Confirmed
  <2>1. s.offline \in 0 .. 2
    BY DEF Confirmed, Pollers
  <2> QED
    BY <2>1 DEF Confirmed
<1>2. t = IF (s.online /\ n < Confirmed) \/ ~s.online THEN [s EXCEPT !.offline = n]
          ELSE [s EXCEPT !.offline = n, !.online = FALSE, !.kicked = FALSE, !.sent = sent, !.todo = todo]
  BY DEF AfterOffline
<1>3. sent \in BOOLEAN
  OBVIOUS
<1>4. CASE (s.online /\ n < Confirmed) \/ ~s.online
  <2>1. t = [s EXCEPT !.offline = n]
    BY <1>2, <1>4
  <2> HIDE DEF t, n
  <2>2. t \in Pollers /\ Keeps(s, t) /\ t.logged = s.logged /\ t.kicked = s.kicked
    BY <1>1, <2>1 DEF Pollers, Keeps
  <2>3. <<>> # <<"recovered">>
    OBVIOUS
  <2> QED
    BY <2>2, <2>3 DEF Decides, Keeps, Believes, Announces, Reports, t
<1>5. CASE s.online /\ ~(n < Confirmed)
  <2>1. t = [s EXCEPT !.offline = n, !.online = FALSE, !.kicked = FALSE, !.sent = sent, !.todo = todo]
    BY <1>2, <1>5
  <2>2. ~s.sent
    BY <1>5 DEF Believes
  <2>3. \/ todo = <<>> /\ (~reported \/ (~s.notify /\ ~s.restart))
        \/ reported /\ ~s.notify /\ s.restart /\ todo = <<"restart">>
        \/ reported /\ s.notify /\ s.restart /\ todo = <<"restarting", "restart">>
        \/ reported /\ s.notify /\ ~s.restart /\ todo = <<"manual">>
    <3>1. <<"restarting">> \o <<"restart">> = <<"restarting", "restart">> /\ <<"manual">> \o <<>> = <<"manual">>
          /\ <<>> \o <<"restart">> = <<"restart">> /\ <<>> \o <<>> = <<>>
      BY TodoJoined
    <3> HIDE DEF reported
    <3>2. CASE ~reported \/ (~s.notify /\ ~s.restart)
      BY <2>2, <3>1, <3>2
    <3>3. CASE reported /\ ~s.notify /\ s.restart
      BY <2>2, <3>1, <3>3
    <3>4. CASE reported /\ s.notify /\ s.restart
      BY <2>2, <3>1, <3>4
    <3>5. CASE reported /\ s.notify /\ ~s.restart
      BY <2>2, <3>1, <3>5
    <3> QED
      BY <3>2, <3>3, <3>4, <3>5
  <2>4. s.seen /\ s.online => reported
    BY DEF Believes
  <2>5. sent => reported /\ s.notify
    BY <2>2
  <2> HIDE DEF t, n, sent, todo, reported
  <2>6. todo \in Todos
    BY <2>3 DEF Todos
  <2>7. /\ t \in Pollers /\ t.at = "asking" /\ t.cancelled = s.cancelled /\ t.online = FALSE /\ t.sent = sent
        /\ t.todo = todo
    BY <1>1, <1>3, <2>1, <2>6 DEF Pollers
  <2>8. /\ <<"restarting", "restart">> # <<>> /\ Head(<<"restarting", "restart">>) = "restarting"
        /\ <<"manual">> # <<>> /\ Head(<<"manual">>) = "manual"
        /\ <<"restarting", "restart">> # <<"recovered">> /\ <<"manual">> # <<"recovered">>
        /\ <<"restart">> # <<"recovered">> /\ <<>> # <<"recovered">>
    OBVIOUS
  <2>9. (sent => todo # <<>> /\ Head(todo) \in {"manual", "restarting"}) /\ todo # <<"recovered">>
    BY <2>3, <2>5, <2>8
  <2>10. reported => (s.notify => Told(t) \cap {"manual", "restarting"} # {}) /\ (s.restart => "restart" \in Told(t))
    <3>1. Told(t) = {todo[i] : i \in DOMAIN todo}
      BY <2>7 DEF Told
    <3>2. 1 \in DOMAIN <<"manual">> /\ <<"manual">>[1] = "manual"
          /\ 1 \in DOMAIN <<"restart">> /\ <<"restart">>[1] = "restart"
          /\ 1 \in DOMAIN <<"restarting", "restart">> /\ <<"restarting", "restart">>[1] = "restarting"
          /\ 2 \in DOMAIN <<"restarting", "restart">> /\ <<"restarting", "restart">>[2] = "restart"
      OBVIOUS
    <3> QED
      BY <2>3, <3>1, <3>2
  <2>11. Believes(t) /\ (news = "none" => Announces(t)) /\ Reports(s, t)
    BY <1>5, <2>4, <2>7, <2>9, <2>10 DEF Believes, Announces, Reports
  <2> QED
    BY <2>7, <2>11 DEF Decides, t
<1> QED
  BY <1>4, <1>5

\* The poll ends: what its answers made of the poller is what it tells.
LEMMA AnswersAreSane ==
    ASSUME NEW s, Sane(s), s.at = "asking"
    PROVE  Sane(WithAnswers(s)) /\ Reports(s, WithAnswers(s))
<1>1. s \in Pollers /\ Believes(s) /\ s.todo = <<>> /\ (news = "none" => ~s.sent)
  BY DEF Sane, Tells, Announces
<1>2. CASE "waiting" \in {s.login, s.reach}
  BY <1>2 DEF WithAnswers, Reports
<1>3. CASE "waiting" \notin {s.login, s.reach}
  <2> DEFINE after == AfterLogin(s)
             done == CASE Reading(s) = "yes" -> AfterOnline(after)
                       [] Reading(s) = "no"  -> AfterOffline(after)
                       [] OTHER               -> [after EXCEPT !.offline = 0]
             told == [done EXCEPT !.at = "telling", !.login = "waiting", !.reach = "waiting"]
  <2>1. WithAnswers(s) = Resumed(told)
    BY <1>3 DEF WithAnswers
  <2>2. after \in Pollers /\ Believes(after) /\ Keeps(s, after)
    BY <1>1, LoginKeeps
  <2>3. after.at = "asking" /\ after.todo = <<>> /\ (news = "none" => ~after.sent)
    BY <1>1, <2>2 DEF Keeps
  <2> HIDE DEF after
  <2>4. Decides(after, done)
    <3>1. CASE Reading(s) = "yes"
      BY <2>2, <2>3, <3>1, OnlineDecides
    <3>2. CASE Reading(s) = "no"
      BY <2>2, <2>3, <3>2, OfflineDecides
    <3>3. CASE Reading(s) \notin {"yes", "no"}
      <4>1. done = [after EXCEPT !.offline = 0]
        BY <3>3
      <4> HIDE DEF done
      <4>2. 0 \in 0 .. Confirmed
        BY DEF Confirmed
      <4>3. done \in Pollers /\ Keeps(after, done) /\ done.logged = after.logged /\ done.kicked = after.kicked
        BY <2>2, <4>1, <4>2 DEF Pollers, Keeps
      <4>4. <<>> # <<"recovered">>
        OBVIOUS
      <4> QED
        BY <2>2, <2>3, <4>3, <4>4 DEF Keeps, Decides, Believes, Announces, Reports
    <3> QED
      BY <3>1, <3>2, <3>3
  <2> HIDE DEF done
  <2>5. /\ told \in Pollers /\ told.at = "telling" /\ told.todo = done.todo /\ told.online = done.online
        /\ told.sent = done.sent /\ told.seen = done.seen /\ told.logged = done.logged /\ told.kicked = done.kicked
    BY <2>4 DEF Decides, Pollers
  <2> HIDE DEF told
  <2>6. Believes(told) /\ (news = "none" => Announces(told))
    BY <2>4, <2>5 DEF Decides, Believes, Announces
  <2>7. /\ Resumed(told) \in Pollers /\ Believes(Resumed(told)) /\ Tells(Resumed(told))
        /\ news = "none" => Announces(Resumed(told))
        /\ Resumed(told).online = done.online /\ Resumed(told).todo = done.todo
    BY <2>5, <2>6, ResumedIsSane
  <2>8. Reports(s, Resumed(told))
    <3>1. Told(Resumed(told)) = Told(done)
      BY <2>7 DEF Told
    <3> QED
      BY <2>2, <2>4, <2>7, <3>1 DEF Keeps, Decides, Reports
  <2> QED
    BY <2>1, <2>7, <2>8 DEF Sane
<1> QED
  BY <1>2, <1>3

\* dispose keeps what the pollers have still to tell.
LEMMA DisposedAreSane ==
    ASSUME NEW ps, NEW p \in PollerIds, ps[p] \in Pollers, Believes(ps[p]), Tells(ps[p])
    PROVE  /\ DOMAIN Disposed(ps) = PollerIds
           /\ Disposed(ps)[p] \in Pollers /\ Believes(Disposed(ps)[p]) /\ Tells(Disposed(ps)[p])
           /\ Announces(ps[p]) => Announces(Disposed(ps)[p])
           /\ Disposed(ps)[p].online = ps[p].online
<1> DEFINE s == ps[p]
           t == Disposed(ps)[p]
<1>1. DOMAIN Disposed(ps) = PollerIds
      /\ t = CASE s.at = "unborn" -> s [] s.at = "idle" -> Gone(s) [] OTHER -> [s EXCEPT !.cancelled = TRUE]
  BY DEF Disposed
<1> HIDE DEF t, s
<1>2. s \in Pollers /\ Believes(s) /\ Tells(s)
  BY DEF s
<1>3. /\ t \in Pollers /\ Believes(t) /\ Tells(t) /\ (Announces(s) => Announces(t))
      /\ t.online = s.online
  <2>1. CASE s.at = "unborn"
    BY <1>1, <1>2, <2>1
  <2>2. CASE s.at = "idle"
    BY <1>1, <1>2, <2>2, GoneIsSane
  <2>3. CASE s.at \notin {"unborn", "idle"}
    <3>1. t = [s EXCEPT !.cancelled = TRUE]
      BY <1>1, <2>3
    <3>2. t \in Pollers /\ t.at = s.at /\ t.sent = s.sent /\ t.online = s.online /\ t.todo = s.todo
          /\ t.seen = s.seen /\ t.logged = s.logged /\ t.kicked = s.kicked
      BY <1>2, <3>1 DEF Pollers
    <3> QED
      BY <1>2, <3>2 DEF Believes, Tells, Announces
  <2> QED
    BY <2>1, <2>2, <2>3
<1> QED
  BY <1>1, <1>3 DEF s, t

-----------------------------------------------------------------------------
\* What every step of the pollers does: it keeps the invariant, an outage that
\* a poller decides on is among what it tells, and news alternate.
Proper ==
    /\ PollerInv'
    /\ \A p \in PollerIds : Reports(pollers[p], pollers'[p])
    /\ (news' # news /\ news' = "recovered") => news = "offline" /\ ~debounced'

\* Every poller is in order after the step, and the account and the news are.
LEMMA ProperStep ==
    ASSUME PollerInv, DOMAIN pollers' = PollerIds,
           account' \in Account, debounced' \in BOOLEAN, news' \in {"none", "offline", "recovered"},
           news' = "none" => news = "none" /\ ~debounced',
           (news' # news /\ news' = "recovered") => news = "offline" /\ ~debounced',
           \A p \in PollerIds :
              /\ pollers'[p] \in Pollers /\ Believes(pollers'[p]) /\ Tells(pollers'[p])
              /\ news' = "none" => Announces(pollers'[p])
              /\ Reports(pollers[p], pollers'[p])
    PROVE  Proper
BY DEF Proper, PollerInv, Sane

\* One poller takes a step, and the news, if they change, are some.
LEMMA OnePolls ==
    ASSUME PollerInv, NEW p \in PollerIds, NEW t, pollers' = [pollers EXCEPT ![p] = t],
           t \in Pollers, Believes(t), Tells(t), news' = "none" => Announces(t), Reports(pollers[p], t),
           account' \in Account, debounced' \in BOOLEAN, news' \in {"none", "offline", "recovered"},
           news' = "none" => news = "none" /\ ~debounced',
           (news' # news /\ news' = "recovered") => news = "offline" /\ ~debounced'
    PROVE  Proper
<1>1. DOMAIN pollers = PollerIds /\ DOMAIN pollers' = PollerIds /\ pollers'[p] = t
      /\ \A q \in PollerIds \ {p} : pollers'[q] = pollers[q]
  BY DEF PollerInv
<1>2. \A q \in PollerIds \ {p} :
         /\ pollers'[q] \in Pollers /\ Believes(pollers'[q]) /\ Tells(pollers'[q])
         /\ news' = "none" => Announces(pollers'[q])
         /\ Reports(pollers[q], pollers'[q])
  BY <1>1 DEF PollerInv, Sane, Reports
<1> QED
  BY <1>1, <1>2, ProperStep

LEMMA AccountIsProper ==
    ASSUME PollerInv, account' \in Account, UNCHANGED <<pollers, news>>, debounced' \in BOOLEAN,
           debounced' => debounced
    PROVE  Proper
<1>1. \A p \in PollerIds :
              /\ pollers'[p] \in Pollers /\ Believes(pollers'[p]) /\ Tells(pollers'[p])
              /\ news' = "none" => Announces(pollers'[p])
              /\ Reports(pollers[p], pollers'[p])
  BY DEF PollerInv, Sane, Reports
<1>2. DOMAIN pollers' = PollerIds /\ news' \in {"none", "offline", "recovered"}
      /\ (news' = "none" => news = "none" /\ ~debounced') /\ news' = news
  BY DEF PollerInv
<1> QED
  BY <1>1, <1>2, ProperStep

LEMMA DisposeIsProper ==
    ASSUME PollerInv, Dispose
    PROVE  Proper
<1>1. pollers' = Disposed(pollers) /\ UNCHANGED <<account, debounced, news>>
  BY DEF Dispose
<1>2. \A p \in PollerIds : pollers[p] \in Pollers /\ Believes(pollers[p]) /\ Tells(pollers[p])
                           /\ (news = "none" => Announces(pollers[p]))
  BY DEF PollerInv, Sane
<1>3. DOMAIN pollers' = PollerIds
  BY <1>1 DEF Disposed
<1>4. \A p \in PollerIds :
              /\ pollers'[p] \in Pollers /\ Believes(pollers'[p]) /\ Tells(pollers'[p])
              /\ news' = "none" => Announces(pollers'[p])
              /\ Reports(pollers[p], pollers'[p])
  BY <1>1, <1>2, DisposedAreSane DEF Reports
<1> QED
  BY <1>1, <1>3, <1>4, ProperStep DEF PollerInv

LEMMA SpawnedIsProper ==
    ASSUME PollerInv, NEW p \in PollerIds, NEW restart \in BOOLEAN, NEW notify \in BOOLEAN, Spawned(p, restart, notify)
    PROVE  Proper
<1> DEFINE fresh == [Fresh EXCEPT !.restart = restart, !.notify = notify]
           rest == Disposed(pollers)
<1>1. pollers[p].at = "unborn" /\ pollers' = [rest EXCEPT ![p] = fresh] /\ UNCHANGED <<account, debounced, news>>
  BY DEF Spawned
<1>2. /\ fresh \in Pollers /\ fresh.at = "idle" /\ fresh.todo = <<>> /\ fresh.sent = FALSE /\ fresh.seen = FALSE
  <2>1. Fresh \in Pollers /\ Fresh.at = "idle" /\ Fresh.todo = <<>> /\ Fresh.sent = FALSE /\ Fresh.seen = FALSE
    BY FreshIsPoller DEF Fresh
  <2> HIDE DEF Fresh
  <2> QED
    BY <2>1 DEF Pollers
<1> HIDE DEF fresh
<1>3. Believes(fresh) /\ Tells(fresh) /\ Announces(fresh)
  <2>1. <<>> # <<"recovered">>
    OBVIOUS
  <2> QED
    BY <1>2, <2>1 DEF Believes, Tells, Announces
<1>4. \A q \in PollerIds : pollers[q] \in Pollers /\ Believes(pollers[q]) /\ Tells(pollers[q])
                           /\ (news = "none" => Announces(pollers[q]))
  BY DEF PollerInv, Sane
<1>5. DOMAIN rest = PollerIds
      /\ \A q \in PollerIds : /\ rest[q] \in Pollers /\ Believes(rest[q]) /\ Tells(rest[q])
                              /\ news = "none" => Announces(rest[q])
                              /\ rest[q].online = pollers[q].online
  BY <1>4, DisposedAreSane
<1> HIDE DEF rest
<1>6. DOMAIN pollers' = PollerIds /\ pollers'[p] = fresh /\ \A q \in PollerIds \ {p} : pollers'[q] = rest[q]
  BY <1>1, <1>5
<1>7. ~pollers[p].seen
  BY <1>1, <1>4 DEF Believes
<1>8. \A q \in PollerIds :
              /\ pollers'[q] \in Pollers /\ Believes(pollers'[q]) /\ Tells(pollers'[q])
              /\ news' = "none" => Announces(pollers'[q])
              /\ Reports(pollers[q], pollers'[q])
  BY <1>1, <1>2, <1>3, <1>5, <1>6, <1>7 DEF Reports
<1> QED
  BY <1>1, <1>6, <1>8, ProperStep DEF PollerInv

LEMMA LookIsProper ==
    ASSUME PollerInv, NEW p \in PollerIds, Refresh(p) \/ NoCredential(p) \/ Poll(p)
    PROVE  Proper
<1> DEFINE s == pollers[p]
<1>1. /\ s \in Pollers /\ Believes(s) /\ Tells(s) /\ (news = "none" => Announces(s)) /\ s.at = "idle"
      /\ UNCHANGED <<account, debounced, news>>
  BY DEF PollerInv, Sane, Refresh, NoCredential, Poll
<1>2. PICK t : /\ pollers' = [pollers EXCEPT ![p] = t]
               /\ \/ \E got \in BOOLEAN : t = [s EXCEPT !.auth = got]
                  \/ t = [s EXCEPT !.offline = 0]
                  \/ t = [s EXCEPT !.at = "asking"]
  <2>1. CASE Refresh(p)
    <3> DEFINE running == account # "down"
    <3>1. running \in BOOLEAN /\ FALSE \in BOOLEAN
      OBVIOUS
    <3>2. \E got \in {running, FALSE} : pollers' = [pollers EXCEPT ![p].auth = got]
      BY <2>1 DEF Refresh
    <3> HIDE DEF running
    <3>3. PICK got \in BOOLEAN : pollers' = [pollers EXCEPT ![p].auth = got]
      BY <3>1, <3>2
    <3>4. pollers' = [pollers EXCEPT ![p] = [s EXCEPT !.auth = got]]
      BY <3>3
    <3> QED
      BY <3>4
  <2>2. CASE NoCredential(p)
    BY <2>2 DEF NoCredential
  <2>3. CASE Poll(p)
    BY <2>3 DEF Poll
  <2> QED
    BY <2>1, <2>2, <2>3
<1> HIDE DEF s
<1>3. 0 \in 0 .. Confirmed
  BY DEF Confirmed
<1>4. /\ t \in Pollers /\ t.sent = s.sent /\ t.online = s.online /\ t.todo = s.todo
      /\ t.seen = s.seen /\ t.logged = s.logged /\ t.kicked = s.kicked /\ t.at \in {"idle", "asking"}
  BY <1>1, <1>2, <1>3 DEF Pollers
<1>5. Believes(t) /\ Tells(t) /\ (Announces(s) => Announces(t)) /\ Reports(s, t)
  BY <1>1, <1>4 DEF Believes, Tells, Announces, Reports
<1> QED
  BY <1>1, <1>2, <1>4, <1>5, OnePolls DEF s, PollerInv

LEMMA AnswerIsProper ==
    ASSUME PollerInv, NEW p \in PollerIds, LoginAnswer(p) \/ OnlineAnswer(p)
    PROVE  Proper
<1> DEFINE s == pollers[p]
<1>1. /\ s \in Pollers /\ Sane(s) /\ s.at = "asking" /\ account \in Account
      /\ UNCHANGED <<account, debounced, news>>
  BY DEF PollerInv, Sane, LoginAnswer, OnlineAnswer
<1>2. PICK asked : /\ pollers' = [pollers EXCEPT ![p] = WithAnswers(asked)]
                   /\ \/ \E a \in {"error", "unauthorized", "no session", "online", "offline"} :
                            asked = [s EXCEPT !.login = a]
                      \/ \E a \in {"error", "yes", "no"} : asked = [s EXCEPT !.reach = a]
  <2>1. CASE LoginAnswer(p)
    <3>1. \A a \in {"error", "unauthorized"} \cup ({account} \ {"down"}) :
             a \in {"error", "unauthorized", "no session", "online", "offline"}
      BY <1>1 DEF Account
    <3>2. PICK a \in {"error", "unauthorized"} \cup ({account} \ {"down"}) :
             pollers' = [pollers EXCEPT ![p] = WithAnswers([@ EXCEPT !.login = a])]
      BY <2>1 DEF LoginAnswer
    <3>3. pollers' = [pollers EXCEPT ![p] = WithAnswers([s EXCEPT !.login = a])]
      BY <3>2
    <3> QED
      BY <3>1, <3>3
  <2>2. CASE OnlineAnswer(p)
    <3> DEFINE answers == CASE account = "down" -> {} [] account = "online" -> {"yes"} [] OTHER -> {"no"}
    <3>1. \A a \in {"error"} \cup answers : a \in {"error", "yes", "no"}
      OBVIOUS
    <3>2. PICK a \in {"error"} \cup answers :
             pollers' = [pollers EXCEPT ![p] = WithAnswers([@ EXCEPT !.reach = a])]
      BY <2>2 DEF OnlineAnswer
    <3>3. pollers' = [pollers EXCEPT ![p] = WithAnswers([s EXCEPT !.reach = a])]
      BY <3>2
    <3> QED
      BY <3>1, <3>3
  <2> QED
    BY <2>1, <2>2
<1> HIDE DEF s
<1>3. /\ asked \in Pollers /\ asked.at = "asking" /\ asked.sent = s.sent /\ asked.online = s.online
      /\ asked.todo = s.todo /\ asked.seen = s.seen /\ asked.logged = s.logged /\ asked.kicked = s.kicked
      /\ asked.notify = s.notify /\ asked.restart = s.restart
  BY <1>1, <1>2 DEF Pollers
<1>4. Sane(asked)
  BY <1>1, <1>3 DEF Sane, Believes, Tells, Announces
<1>5. Sane(WithAnswers(asked)) /\ Reports(asked, WithAnswers(asked))
  BY <1>3, <1>4, AnswersAreSane
<1>6. Reports(s, WithAnswers(asked))
  BY <1>3, <1>5 DEF Reports
<1>7. WithAnswers(asked) \in Pollers /\ Believes(WithAnswers(asked)) /\ Tells(WithAnswers(asked))
      /\ (news' = "none" => Announces(WithAnswers(asked)))
  BY <1>1, <1>5 DEF Sane
<1> QED
  BY <1>1, <1>2, <1>6, <1>7, OnePolls DEF s, PollerInv

\* What is left of a poller when it has told or done the first of its things.
LEMMA ToldIsSane ==
    ASSUME PollerInv, NEW p \in PollerIds, pollers[p].at = "telling"
    PROVE  \E t : /\ AfterTelling(p) = [pollers EXCEPT ![p] = t]
                  /\ t \in Pollers /\ Believes(t) /\ Tells(t) /\ t.online = pollers[p].online
                  /\ (Head(pollers[p].todo) \notin {"manual", "restarting"} /\ news = "none") => Announces(t)
<1> DEFINE s == pollers[p]
           told == [s EXCEPT !.todo = Tail(s.todo)]
<1>1. s \in Pollers /\ Believes(s) /\ s.todo # <<>> /\ s.todo \in Todos /\ (news = "none" => Announces(s))
  BY DEF PollerInv, Sane, Tells, Pollers
<1>2. AfterTelling(p) = [pollers EXCEPT ![p] = Resumed(told)]
  BY DEF AfterTelling
<1> DEFINE rest == Tail(s.todo)
<1>3. rest \in {<<>>, <<"restart">>} /\ rest \in Todos
  BY <1>1, TodoParts DEF Todos
<1> HIDE DEF rest
<1>4. told = [s EXCEPT !.todo = rest]
  BY DEF rest
<1> HIDE DEF told
<1>5. /\ told \in Pollers /\ told.at = "telling" /\ told.todo = rest /\ told.sent = s.sent /\ told.online = s.online
      /\ told.seen = s.seen /\ told.logged = s.logged /\ told.kicked = s.kicked
  BY <1>1, <1>3, <1>4 DEF Pollers
<1>6. Believes(told)
  BY <1>1, <1>5 DEF Believes
<1>7. (Head(s.todo) \notin {"manual", "restarting"} /\ news = "none") => Announces(told)
  <2>1. <<>> # <<"recovered">> /\ <<"restart">> # <<"recovered">>
    OBVIOUS
  <2> QED
    BY <1>1, <1>3, <1>5, <2>1 DEF Announces
<1>8. /\ Resumed(told) \in Pollers /\ Believes(Resumed(told)) /\ Tells(Resumed(told))
      /\ Announces(told) => Announces(Resumed(told))
      /\ Resumed(told).online = s.online
  BY <1>5, <1>6, ResumedIsSane
<1> QED
  BY <1>2, <1>7, <1>8

LEMMA TellIsProper ==
    ASSUME PollerInv, NEW p \in PollerIds, TellOffline(p) \/ TellRecovered(p)
    PROVE  Proper
<1> DEFINE s == pollers[p]
<1>1. pollers[p].at = "telling" /\ pollers' = AfterTelling(p) /\ account' = account
  BY DEF TellOffline, TellRecovered, Telling
<1>2. PICK t : /\ AfterTelling(p) = [pollers EXCEPT ![p] = t]
               /\ t \in Pollers /\ Believes(t) /\ Tells(t) /\ t.online = pollers[p].online
               /\ (Head(pollers[p].todo) \notin {"manual", "restarting"} /\ news = "none") => Announces(t)
  BY <1>1, ToldIsSane
<1>3. Reports(pollers[p], t)
  BY <1>2 DEF Reports
<1>4. account \in Account /\ debounced \in BOOLEAN /\ news \in {"none", "offline", "recovered"}
      /\ (debounced => news # "none")
  BY DEF PollerInv
<1>5. CASE TellOffline(p)
  <2>1. news' = (IF debounced THEN news ELSE "offline") /\ debounced' = TRUE
    BY <1>5 DEF TellOffline
  <2>2. news' # "none" /\ news' \in {"none", "offline", "recovered"} /\ debounced' \in BOOLEAN
        /\ (news' # news => news' = "offline")
    BY <1>4, <2>1
  <2> QED
    BY <1>1, <1>2, <1>3, <1>4, <2>2, OnePolls
<1>6. CASE TellRecovered(p)
  <2>1. Head(s.todo) = "recovered"
    BY <1>6 DEF TellRecovered, Telling
  <2>2. news # "none"
    <3>1. s.todo \in Todos /\ s.todo # <<>> /\ (news = "none" => Announces(s))
      BY <1>1 DEF PollerInv, Sane, Tells, Pollers
    <3>2. s.todo = <<"recovered">>
      BY <2>1, <3>1, TodoParts
    <3> QED
      BY <3>1, <3>2 DEF Announces
  <2>3. (news' = "recovered" /\ debounced' = FALSE) \/ (news' = news /\ debounced' = debounced)
    BY <1>6 DEF TellRecovered
  <2>4. news' # "none" /\ news' \in {"none", "offline", "recovered"} /\ debounced' \in BOOLEAN
        /\ ((news' # news /\ news' = "recovered") => news = "offline" /\ ~debounced')
    BY <1>4, <2>2, <2>3
  <2> QED
    BY <1>1, <1>2, <1>3, <1>4, <2>4, OnePolls
<1> QED
  BY <1>5, <1>6

LEMMA RestartIsProper ==
    ASSUME PollerInv, NEW p \in PollerIds, RestartBot(p)
    PROVE  Proper
<1>1. pollers[p].at = "telling" /\ Head(pollers[p].todo) = "restart" /\ UNCHANGED <<debounced, news>>
  BY DEF RestartBot, Telling
<1>2. PICK t : /\ AfterTelling(p) = [pollers EXCEPT ![p] = t]
               /\ t \in Pollers /\ Believes(t) /\ Tells(t) /\ t.online = pollers[p].online
               /\ (Head(pollers[p].todo) \notin {"manual", "restarting"} /\ news = "none") => Announces(t)
  BY <1>1, ToldIsSane
<1>3. Reports(pollers[p], t) /\ (news = "none" => Announces(t))
  BY <1>1, <1>2 DEF Reports
<1>4. CASE UNCHANGED account /\ pollers' = AfterTelling(p)
  BY <1>1, <1>2, <1>3, <1>4, OnePolls DEF PollerInv
<1>5. CASE account' = "down" /\ pollers' = Disposed(AfterTelling(p))
  <2> DEFINE told == AfterTelling(p)
  <2>1. \A q \in PollerIds : /\ told[q] \in Pollers /\ Believes(told[q]) /\ Tells(told[q])
                             /\ news = "none" => Announces(told[q])
                             /\ told[q].online = pollers[q].online
    BY <1>2, <1>3 DEF PollerInv, Sane
  <2> HIDE DEF told
  <2>2. pollers' = Disposed(told) /\ account' \in Account
    BY <1>5 DEF told, Account
  <2>3. DOMAIN pollers' = PollerIds
    BY <2>2 DEF Disposed
  <2>4. \A q \in PollerIds :
              /\ pollers'[q] \in Pollers /\ Believes(pollers'[q]) /\ Tells(pollers'[q])
              /\ news' = "none" => Announces(pollers'[q])
              /\ Reports(pollers[q], pollers'[q])
    BY <1>1, <2>1, <2>2, DisposedAreSane DEF Reports
  <2> QED
    BY <1>1, <2>2, <2>3, <2>4, ProperStep DEF PollerInv
<1> QED
  BY <1>4, <1>5 DEF RestartBot

LEMMA PollerInitInv == PollerInit => PollerInv
<1> SUFFICES ASSUME PollerInit PROVE PollerInv
  OBVIOUS
<1> DEFINE unborn == [Fresh EXCEPT !.at = "unborn"]
<1>1. /\ unborn \in Pollers /\ unborn.at = "unborn" /\ unborn.todo = <<>> /\ unborn.sent = FALSE /\ unborn.seen = FALSE
  <2>1. Fresh \in Pollers /\ Fresh.todo = <<>> /\ Fresh.sent = FALSE /\ Fresh.seen = FALSE
    BY FreshIsPoller DEF Fresh
  <2> HIDE DEF Fresh
  <2> QED
    BY <2>1 DEF Pollers
<1> HIDE DEF unborn
<1>2. Sane(unborn)
  <2>1. <<>> # <<"recovered">>
    OBVIOUS
  <2> QED
    BY <1>1, <2>1 DEF Sane, Believes, Tells, Announces
<1> USE DEF unborn
<1>3. DOMAIN pollers = PollerIds /\ \A p \in PollerIds : pollers[p] = unborn
  BY DEF PollerInit
<1> HIDE DEF unborn
<1>4. \A p \in PollerIds : Sane(pollers[p])
  BY <1>2, <1>3
<1> QED
  BY <1>3, <1>4 DEF PollerInit, PollerInv, Account

LEMMA PollerStepIsProper == PollerInv /\ [PollerNext]_pollerVars => Proper
<1> SUFFICES ASSUME PollerInv, [PollerNext]_pollerVars PROVE Proper
  OBVIOUS
<1>1. ASSUME \/ \E a \in Account : Swing(a)
             \/ Launch \/ Down \/ WindowEnds \/ UNCHANGED pollerVars
      PROVE  Proper
  <2>1. account \in Account /\ debounced \in BOOLEAN /\ "down" \in Account
    BY DEF PollerInv, Account
  <2>2. CASE \E a \in Account : Swing(a)
    BY <2>1, <2>2, AccountIsProper DEF Swing
  <2>3. CASE Launch
    <3>1. account' \in Account
      BY <2>3 DEF Launch, Account
    <3> QED
      BY <2>1, <2>3, <3>1, AccountIsProper DEF Launch
  <2>4. CASE Down
    BY <2>1, <2>4, AccountIsProper DEF Down
  <2>5. CASE WindowEnds
    BY <2>1, <2>5, AccountIsProper DEF WindowEnds
  <2>6. CASE UNCHANGED pollerVars
    BY <2>1, <2>6, AccountIsProper DEF pollerVars
  <2> QED
    BY <1>1, <2>2, <2>3, <2>4, <2>5, <2>6
<1>2. ASSUME NEW p \in PollerIds, \E restart, notify \in BOOLEAN : Spawned(p, restart, notify)
      PROVE  Proper
  BY <1>2, SpawnedIsProper
<1>3. ASSUME NEW p \in PollerIds, \/ Refresh(p) \/ NoCredential(p) \/ Poll(p)
                                  \/ LoginAnswer(p) \/ OnlineAnswer(p)
                                  \/ TellOffline(p) \/ TellRecovered(p) \/ RestartBot(p)
      PROVE  Proper
  BY <1>3, LookIsProper, AnswerIsProper, TellIsProper, RestartIsProper
<1>4. CASE Dispose
  BY <1>4, DisposeIsProper
<1> QED
  BY <1>1, <1>2, <1>3, <1>4 DEF PollerNext

\* The invariant of the pollers holds in every behaviour of the account, the
\* pollers, the notifier and the restarts.
THEOREM PollerInvariance == PollerSpec => []PollerInv
<1>1. PollerInv /\ [PollerNext]_pollerVars => PollerInv'
  BY PollerStepIsProper DEF Proper
<1> QED
  BY <1>1, PollerInitInv, PTL DEF PollerSpec

\* The types of the account, the pollers and the news.
THEOREM PollerTypeCorrect == PollerSpec => []PollerTypeOK
<1>1. PollerInv => PollerTypeOK
  BY DEF PollerInv, PollerTypeOK, Sane, Pollers, Tells
<1> QED
  BY <1>1, PollerInvariance, PTL

\* For any number of pollers, polls and changes of the account: an outage that
\* a poller decides on is told and answered with a restart, as configured,
\* whatever answers failed, came late or were given at different times.
THEOREM OutagesAreReported == PollerSpec => OutageIsReported
<1> DEFINE Reported == \A p \in PollerIds :
          (pollers[p].seen /\ pollers[p].online /\ ~pollers'[p].online)
          => /\ pollers[p].notify => Told(pollers'[p]) \cap {"manual", "restarting"} # {}
             /\ pollers[p].restart => "restart" \in Told(pollers'[p])
<1>1. PollerInv /\ [PollerNext]_pollerVars => [Reported]_pollerVars
  BY PollerStepIsProper DEF Proper, Reports
<1> QED
  BY <1>1, PollerInvariance, PTL DEF PollerSpec, OutageIsReported

\* For any number of pollers the user hears of a recovery only after an outage.
THEOREM NewsAreAlternating == PollerSpec => NewsAlternates
<1> DEFINE Alternates == (news' # news /\ news' = "recovered") => news = "offline" /\ ~debounced'
<1>1. PollerInv /\ [PollerNext]_pollerVars => [Alternates]_pollerVars
  BY PollerStepIsProper DEF Proper
<1> QED
  BY <1>1, PollerInvariance, PTL DEF PollerSpec, NewsAlternates
=============================================================================
