----------------------------- MODULE BotManager -----------------------------
(***************************************************************************)
(* The lifecycle of one locally deployed NapCat bot: the operations of     *)
(* BotManager (ncd-runtime/src/bot_manager/mod.rs), its event listeners    *)
(* (listeners.rs), the bot's actor and the native deployment, composed.    *)
(*                                                                         *)
(* An operation is an async task; each of its awaited calls is one step    *)
(* here, and the steps of all tasks interleave.  Commands to the actor are *)
(* atomic: BotActor shows that they are handled one at a time and that a   *)
(* caller that has its answer finds the snapshot published.  Launches and  *)
(* stops of the process are the steps of NativeDeployment.                 *)
(*                                                                         *)
(* The event bus hands every subscriber its own queue.  Each listener task *)
(* takes one event at a time and awaits its handler.                       *)
(***************************************************************************)
EXTENDS BotActorState, Sequences

CONSTANTS Bot,          (* the bot                                          *)
          Tasks,        (* tasks that run manager operations                *)
          Pids,         (* see NativeDeployment                             *)
          MaxLaunches,  (* bound: processes spawned in one behaviour        *)
          Announcing,   (* bound: which of them announce a WebUI; when none *)
                        (* does, the login listener is left out             *)
          Operations,   (* which operations the users call                  *)
          Overlapping,  (* bound: which of them run at the same time        *)
          MaxOps        (* bound: operations called in one behaviour        *)

ASSUME BotAssumption == Bot # "none"
ASSUME OperationsAssumption == Operations \subseteq {"start", "stop", "restart", "switch"}
ASSUME OverlappingAssumption == Overlapping \subseteq Operations
ASSUME AnnouncingAssumption == Announcing \subseteq 1 .. MaxLaunches
ASSUME OpsAssumption == MaxOps \in Nat
ASSUME LaunchesAssumption == MaxLaunches \in Nat

VARIABLES snapshot, cancelled,                        (* the actor           *)
          processes, generation, proc, watcher,       (* the deployment      *)
          call, published, dropped,
          exitBox,       (* BotProcessExited for run_runtime_event_listener   *)
          loginExitBox,  (* BotProcessExited for run_napcat_login_listener    *)
          webuiBox,      (* NapCatWebuiAvailable for run_napcat_login_listener *)
          listener,      (* the event handle_process_exited is at, and what   *)
                         (* it is about to tell the actor                     *)
          loginTask,     (* the step the login listener is at                 *)
          poller,        (* process the bot's login poller talks to, or 0     *)
          endpoint,      (* process the bot's WebUI endpoint belongs to, or 0 *)
          op,            (* task -> the operation it runs                     *)
          issued,        (* operations called so far                          *)
          faults         (* history: what went wrong so far, see below        *)

actor == <<snapshot, cancelled>>
deployment == <<processes, generation, proc, watcher, call, published, dropped>>
boxes == <<exitBox, loginExitBox, webuiBox>>
login == <<loginTask, poller, endpoint>>
vars == <<actor, deployment, boxes, listener, login, op, issued, faults>>

Native == INSTANCE NativeDeployment WITH Bots <- {Bot}

Generation == 1 .. MaxLaunches

\* What the properties are allowed to excuse:
\*   kill_failed      taskkill reported an error
\*   restart_aborted  a restart returned early because its stop failed
\*   exit_ignored     a process's exit event was read while the bot was Starting
\*   stale_exit       an exit event took effect when a later process had started
\*   exit_swallowed   the process exited by itself during a stop that failed, and
\*                    its exit was not published
\*   switch_stranded  a backend switch found its own restart already Starting
\*   switched         the bot's config names the other backend now
\*   stop_refused     stop_bot killed the process, but the actor refused confirm_stopped
\*   late_webui       a WebUI was registered whose process was no longer recorded
\*   other_token      a start read the token of a later run than the one it began
\*   stale_start      a start went on, or reported, after a stop had ended its run
\*   late_confirm     a stop confirmed the end of a later run than the one it had asked to stop
\*   late_dispose     an exit event disposed of the WebUI when a later process had started
Fault == {"kill_failed", "restart_aborted", "exit_ignored", "stale_exit",
          "exit_swallowed", "switched", "switch_stranded", "stop_refused", "late_confirm",
          "late_webui", "late_dispose", "other_token", "stale_start"}

\* An operation remembers the generation of the token it read, or of the run it
\* asked to stop (history), and the state its last actor command returned.
StartPc == {"start", "read_token", "plan", "check_cancel", "spawn", "insert",
            "recheck", "recheck_again", "confirm_running", "start_error",
            "mark_crashed"}
StopPc == {"look", "request", "queue", "status", "backend", "await", "stop_failed",
           "confirm", "dispose", "endpoint", "after"}
Operation == [kind : Operations, pc : StartPc \cup StopPc, token : Nat, seen : State]
Resting == [kind |-> "none", pc |-> "rest", token |-> 0, seen |-> "Stopped"]

Receiving == [tells |-> "nothing", gen |-> 0]

Init ==
    /\ snapshot = NewSnapshot
    /\ cancelled = {}
    /\ Native!Init
    /\ exitBox = <<>>
    /\ loginExitBox = <<>>
    /\ webuiBox = <<>>
    /\ listener = Receiving
    /\ loginTask = 0
    /\ poller = 0
    /\ endpoint = 0
    /\ op = [t \in Tasks |-> Resting]
    /\ issued = 0
    /\ faults = {}

-----------------------------------------------------------------------------
\* The actor handles a command.
Tell(cmd) ==
    LET out == Handle(cmd, snapshot, cancelled)
    IN snapshot' = out.snapshot /\ cancelled' = out.cancelled

ResultOf(cmd) == Handle(cmd, snapshot, cancelled).result

At(t, pc) == op[t].pc = pc
Goto(t, pc) == op' = [op EXCEPT ![t].pc = pc]
Return(t) == op' = [op EXCEPT ![t] = Resting]
GotoOrReturn(t, cond, pc) == IF cond THEN Goto(t, pc) ELSE Return(t)

\* observe() of the deployment: Running while the table holds a record.
Observed == processes[Bot] # Native!NoRecord

TokenCancelled(t) == op[t].token \in cancelled

\* A user, the tray or the login poller calls an operation.  A switch saves the
\* new config first; what is called after it is the other backend's business.
Call(t, kind) ==
    /\ op[t] = Resting
    /\ issued < MaxOps /\ "switched" \notin faults
    /\ \A u \in Tasks : op[u] # Resting => {kind, op[u].kind} \subseteq Overlapping
    /\ issued' = issued + 1
    /\ op' = [op EXCEPT ![t] =
                [kind |-> kind, token |-> 0, seen |-> "Stopped",
                 pc |-> CASE kind = "start" -> "start"
                          [] kind = "stop"  -> "request"
                          [] OTHER          -> "look"]]
    /\ faults' = IF kind = "switch" THEN faults \cup {"switched"} ELSE faults
    /\ UNCHANGED <<actor, deployment, boxes, listener, login>>

-----------------------------------------------------------------------------
(* start_bot and start_runtime_from_starting                               *)

\* start_bot was called by a switch whose confirm_stopped began the run already.
Stranded(t) == IF op[t].kind = "switch" /\ snapshot.state = "Starting"
               THEN {"switch_stranded"} ELSE {}

\* The start pipeline of a run begins; token is the one the actor made for it.
BeginOrReturn(t, begins) ==
    IF begins
    THEN op' = [op EXCEPT ![t].pc = "read_token", ![t].token = snapshot'.token_generation]
    ELSE Return(t)

\* A task acts for a run that a stop has ended meanwhile.
Stale(t) == IF TokenCancelled(t) THEN {"stale_start"} ELSE {}

\* Whoever finds the bot Starting or Running already must not run the pipeline.
MutantStartRequest(t) ==
    /\ At(t, "start")
    /\ Tell("request_start")
    /\ BeginOrReturn(t, ResultOf("request_start") # "invalid")
    /\ UNCHANGED <<deployment, boxes, listener, login, issued, faults>>

\* request_start_transition; the config was rendered before.
StartRequest(t) ==
    /\ At(t, "start")
    /\ Tell("request_start")
    /\ BeginOrReturn(t, ResultOf("request_start") = "advanced")
    /\ faults' = faults \cup Stranded(t)
    /\ UNCHANGED <<deployment, boxes, listener, login, issued>>

\* The config cannot be read or rendered: the actor was not touched yet.
StartRefused(t) ==
    /\ At(t, "start")
    /\ Return(t)
    /\ faults' = faults \cup Stranded(t)
    /\ UNCHANGED <<actor, deployment, boxes, listener, login, issued>>

\* handle.cancellation_token(): whatever token is current by now.
ReadToken(t) ==
    /\ At(t, "read_token")
    /\ op' = [op EXCEPT ![t].pc = "plan", ![t].token = snapshot.token_generation]
    /\ faults' = faults \cup (IF op[t].token = snapshot.token_generation THEN {} ELSE {"other_token"})
    /\ UNCHANGED <<actor, deployment, boxes, listener, login, issued>>

\* build_plan succeeds, or fails and the bot is marked crashed.
Plan(t) ==
    /\ At(t, "plan")
    /\ \/ Goto(t, "check_cancel")
       \/ Goto(t, "mark_crashed")
    /\ UNCHANGED <<actor, deployment, boxes, listener, login, issued, faults>>

\* The last look at the token before backend.start.  When the backend cannot be
\* resolved the bot is marked crashed, but a cancelled start stays silent.
CheckCancel(t) ==
    /\ At(t, "check_cancel")
    /\ IF TokenCancelled(t) THEN Return(t)
       ELSE Goto(t, "spawn") \/ Goto(t, "mark_crashed")
    /\ UNCHANGED <<actor, deployment, boxes, listener, login, issued, faults>>

\* backend.start: NativeDeployment's launch, or after a switch the start of the
\* local SnowLuma backend, whose status is not looked at again afterwards.
Spawn(t) ==
    /\ At(t, "spawn")
    /\ IF op[t].kind = "switch"
       THEN (Goto(t, "confirm_running") \/ Goto(t, "start_error")) /\ UNCHANGED deployment
       ELSE \/ \E p \in Pids : Native!LaunchSpawn(t, Bot, p) /\ Goto(t, "insert")
            \/ Native!LaunchFails(t) /\ Goto(t, "start_error")
    /\ UNCHANGED <<actor, boxes, listener, login, issued, faults>>

Insert(t) ==
    /\ At(t, "insert")
    /\ Native!LaunchInsert(t)
    /\ Goto(t, "recheck")
    /\ faults' = faults \cup Stale(t)
    /\ UNCHANGED <<actor, boxes, listener, login, issued>>

\* Two looks at backend.status, 400 ms apart: did the process exit at once?
Recheck(t) ==
    /\ At(t, "recheck") \/ At(t, "recheck_again")
    /\ Goto(t, IF ~Observed THEN "mark_crashed"
               ELSE IF At(t, "recheck") THEN "recheck_again" ELSE "confirm_running")
    /\ UNCHANGED <<actor, deployment, boxes, listener, login, issued, faults>>

\* When the actor refuses, the error is returned and the process stays.
FinishStart(t) ==
    /\ At(t, "confirm_running")
    /\ Tell("confirm_running")
    /\ Return(t)
    /\ faults' = faults \cup (IF ResultOf("confirm_running") = "advanced" THEN Stale(t) ELSE {})
    /\ UNCHANGED <<deployment, boxes, listener, login, issued>>

\* backend.start failed: silent when cancelled meanwhile.
StartError(t) ==
    /\ At(t, "start_error")
    /\ GotoOrReturn(t, ~TokenCancelled(t), "mark_crashed")
    /\ UNCHANGED <<actor, deployment, boxes, listener, login, issued, faults>>

MarkStartCrashed(t) ==
    /\ At(t, "mark_crashed")
    /\ Tell("mark_crashed")
    /\ Return(t)
    /\ faults' = faults \cup Stale(t)
    /\ UNCHANGED <<deployment, boxes, listener, login, issued>>

-----------------------------------------------------------------------------
(* stop_bot, restart_bot and restart_bot_with_backend_switch               *)

\* restart_bot and upsert_bot_config branch on a snapshot they read first.
Look(t) ==
    /\ At(t, "look")
    /\ LET s == snapshot.state
       IN IF s \in {"Running", "Starting"} THEN Goto(t, "request")
          ELSE IF op[t].kind = "switch" THEN Return(t)
          ELSE IF s \in {"Stopped", "Crashed"} THEN Goto(t, "start")
          ELSE GotoOrReturn(t, s = "Stopping", "queue")
    /\ UNCHANGED <<actor, deployment, boxes, listener, login, issued, faults>>

\* request_stop, or request_restart for a restart.
Request(t) ==
    /\ At(t, "request")
    /\ IF op[t].kind = "stop"
       THEN /\ Tell("request_stop")
            /\ op' = [op EXCEPT ![t].pc = "status", ![t].seen = snapshot'.state,
                                ![t].token = snapshot'.token_generation]
       ELSE /\ Tell("request_restart")
            /\ IF ResultOf("request_restart") # "invalid"
               THEN op' = [op EXCEPT ![t].pc = "backend",
                                     ![t].token = snapshot'.token_generation]
               ELSE Return(t)
    /\ UNCHANGED <<deployment, boxes, listener, login, issued, faults>>

\* A restart that saw Stopping only leaves its wish with the actor.
Queue(t) ==
    /\ At(t, "queue")
    /\ Tell("request_restart")
    /\ Return(t)
    /\ UNCHANGED <<deployment, boxes, listener, login, issued, faults>>

\* stop_bot asks backend.status first: nothing to kill when it says Stopped.
Status(t) ==
    /\ At(t, "status")
    /\ Goto(t, IF Observed THEN "backend"
               ELSE IF op[t].seen = "Stopping" THEN "confirm" ELSE "dispose")
    /\ UNCHANGED <<actor, deployment, boxes, listener, login, issued, faults>>

AfterBackendStop(t) == IF op[t].kind = "restart" THEN "dispose" ELSE "confirm"

BackendStop(t) ==
    /\ At(t, "backend")
    /\ \/ Native!StopMark(t, Bot) /\ Goto(t, "await")
       \/ Native!StopNothing(t, Bot) /\ Goto(t, AfterBackendStop(t))
    /\ UNCHANGED <<actor, boxes, listener, login, issued, faults>>

BackendKills(t) ==
    /\ At(t, "await")
    /\ \/ Native!StopKill(t) /\ UNCHANGED faults
       \/ Native!StopKillFails(t) /\ faults' = faults \cup {"kill_failed"}
    /\ UNCHANGED <<actor, boxes, listener, login, op, issued>>

\* backend.stop returns.  Only stop_bot handles the error; the others return.
BackendStopped(t) ==
    /\ At(t, "await")
    /\ Native!StopSettle(t)
    /\ LET ok == call[t].result = "ok"
       IN /\ IF ok THEN Goto(t, AfterBackendStop(t))
             ELSE GotoOrReturn(t, op[t].kind = "stop", "stop_failed")
          /\ faults' = faults
               \cup (IF ok \/ op[t].kind = "stop" THEN {} ELSE {"restart_aborted"})
               \cup (IF ok \/ Observed THEN {} ELSE {"exit_swallowed"})
    /\ UNCHANGED <<actor, boxes, listener, login, issued>>

StopFailed(t) ==
    /\ At(t, "stop_failed")
    /\ Tell("mark_crashed")
    /\ Return(t)
    /\ UNCHANGED <<deployment, boxes, listener, login, issued, faults>>

\* confirm_stopped.  stop_bot returns the actor's refusal, a restart ignores it
\* (the exit listener may have confirmed first).  A switch goes on to start_bot.
Confirm(t) ==
    /\ At(t, "confirm")
    /\ Tell("confirm_stopped")
    /\ CASE op[t].kind = "stop" ->
              IF ResultOf("confirm_stopped") = "invalid" THEN Return(t)
              ELSE op' = [op EXCEPT ![t].pc = "dispose", ![t].seen = snapshot'.state,
                                    ![t].token = snapshot'.token_generation]
         [] op[t].kind = "restart" ->
              op' = [op EXCEPT ![t].pc = "after", ![t].token = snapshot'.token_generation]
         [] op[t].kind = "switch"  -> Goto(t, "start")
    /\ faults' = faults
         \cup (IF op[t].kind = "stop" /\ ResultOf("confirm_stopped") = "invalid"
               THEN {"stop_refused"} ELSE {})
         \cup (IF ResultOf("confirm_stopped") = "advanced"
                     /\ op[t].token # snapshot.token_generation
               THEN {"late_confirm"} ELSE {})
    /\ UNCHANGED <<deployment, boxes, listener, login, issued>>

\* dispose_poller: first the poller, then the endpoint.
DisposePoller(t) ==
    /\ At(t, "dispose")
    /\ poller' = 0
    /\ Goto(t, "endpoint")
    /\ UNCHANGED <<actor, deployment, boxes, listener, loginTask, endpoint, issued, faults>>

DisposeEndpoint(t) ==
    /\ At(t, "endpoint")
    /\ endpoint' = 0
    /\ Goto(t, IF op[t].kind = "restart" THEN "confirm" ELSE "after")
    /\ UNCHANGED <<actor, deployment, boxes, listener, loginTask, poller, issued, faults>>

MutantAfter(t) ==
    /\ At(t, "after")
    /\ GotoOrReturn(t, op[t].kind = "stop" /\ op[t].seen = "Starting", "read_token")
    /\ UNCHANGED <<actor, deployment, boxes, listener, login, issued, faults>>

\* A restart that was queued runs now: stop_bot goes by the state its
\* confirm_stopped returned, restart_bot by the current snapshot.
After(t) ==
    /\ At(t, "after")
    /\ LET state == IF op[t].kind = "stop" THEN op[t].seen ELSE snapshot.state
       IN GotoOrReturn(t, state = "Starting", "read_token")
    /\ UNCHANGED <<actor, deployment, boxes, listener, login, issued, faults>>

-----------------------------------------------------------------------------
(* Processes, watchers and log readers; what they publish.                 *)

ProcessExits(g) ==
    /\ Native!ProcessExits(g)
    /\ UNCHANGED <<actor, boxes, listener, login, op, issued, faults>>

WatcherSeesExit(g) ==
    /\ Native!WatcherSeesExit(g)
    /\ UNCHANGED <<actor, boxes, listener, login, op, issued, faults>>

PublishExit(g) ==
    /\ Native!WatcherPublishes(g)
    /\ exitBox' = Append(exitBox, g)
    /\ loginExitBox' = IF Announcing = {} THEN <<>> ELSE Append(loginExitBox, g)
    /\ UNCHANGED <<actor, webuiBox, listener, login, op, issued, faults>>

PublishWebui(g) ==
    /\ g \in Announcing
    /\ Native!LogReaderSeesWebui(g)
    /\ webuiBox' = Append(webuiBox, g)
    /\ UNCHANGED <<actor, exitBox, loginExitBox, listener, login, op, issued, faults>>

-----------------------------------------------------------------------------
(* run_runtime_event_listener                                              *)

\* It forgets that a Running bot's exit is a crash.
MutantVerdict(state) == IF state = "Stopping" THEN "confirm_stopped" ELSE "nothing"

\* What handle_process_exited makes of an exit, by the state it reads first.
Verdict(state) ==
    CASE state = "Stopping" -> "confirm_stopped"
      [] state = "Running"  -> "mark_crashed"
      [] OTHER              -> "nothing"

ListenerTakes ==
    /\ listener = Receiving
    /\ exitBox # <<>>
    /\ exitBox' = Tail(exitBox)
    /\ listener' = LET verdict == Verdict(snapshot.state)
                   IN IF verdict = "nothing" THEN Receiving
                      ELSE [tells |-> verdict, gen |-> Head(exitBox)]
    /\ faults' = IF snapshot.state = "Starting" THEN faults \cup {"exit_ignored"} ELSE faults
    /\ UNCHANGED <<actor, deployment, loginExitBox, webuiBox, login, op, issued>>

LaterProcess(g) == \E h \in g + 1 .. MaxLaunches : proc[h] # Native!NoProcess

\* ... and awaits the actor, which may have moved on.
ListenerTells ==
    /\ listener # Receiving
    /\ Tell(listener.tells)
    /\ listener' = Receiving
    /\ faults' = IF LaterProcess(listener.gen) THEN faults \cup {"stale_exit"} ELSE faults
    /\ UNCHANGED <<deployment, boxes, login, op, issued>>

-----------------------------------------------------------------------------
(* run_napcat_login_listener: select! over two subscriptions, in no order. *)

LateWebui(g) == IF processes[Bot].generation = g THEN {} ELSE {"late_webui"}

\* handle_webui_available publishes the endpoint, then reads the config (await).
LoginTakesWebui ==
    /\ loginTask = 0
    /\ webuiBox # <<>>
    /\ webuiBox' = Tail(webuiBox)
    /\ endpoint' = Head(webuiBox)
    /\ loginTask' = Head(webuiBox)
    /\ faults' = faults \cup LateWebui(Head(webuiBox))
    /\ UNCHANGED <<actor, deployment, exitBox, loginExitBox, listener, poller, op, issued>>

\* ... and replaces the bot's poller.
LoginSpawnsPoller ==
    /\ loginTask # 0
    /\ poller' = loginTask
    /\ loginTask' = 0
    /\ faults' = faults \cup LateWebui(loginTask)
    /\ UNCHANGED <<actor, deployment, boxes, listener, endpoint, op, issued>>

MutantLoginTakesExit ==
    /\ loginTask = 0
    /\ loginExitBox # <<>>
    /\ loginExitBox' = Tail(loginExitBox)
    /\ UNCHANGED <<actor, deployment, exitBox, webuiBox, listener, login, op, issued, faults>>

\* dispose_poller, for whichever process the poller and the endpoint belong to.
LoginTakesExit ==
    /\ loginTask = 0
    /\ loginExitBox # <<>>
    /\ loginExitBox' = Tail(loginExitBox)
    /\ poller' = 0
    /\ endpoint' = 0
    /\ faults' = IF LaterProcess(Head(loginExitBox)) THEN faults \cup {"late_dispose"} ELSE faults
    /\ UNCHANGED <<actor, deployment, exitBox, webuiBox, listener, loginTask, op, issued>>

-----------------------------------------------------------------------------
StartStep(t) ==
    \/ StartRequest(t) \/ StartRefused(t) \/ ReadToken(t) \/ Plan(t) \/ CheckCancel(t)
    \/ Spawn(t) \/ Insert(t) \/ Recheck(t) \/ FinishStart(t) \/ StartError(t)
    \/ MarkStartCrashed(t)

StopStep(t) ==
    \/ Look(t) \/ Request(t) \/ Queue(t) \/ Status(t) \/ BackendStop(t) \/ BackendKills(t)
    \/ BackendStopped(t) \/ StopFailed(t) \/ Confirm(t) \/ DisposePoller(t)
    \/ DisposeEndpoint(t) \/ After(t)

TaskStep(t) == StartStep(t) \/ StopStep(t)

ListenerStep == ListenerTakes \/ ListenerTells
LoginStep == LoginTakesWebui \/ LoginSpawnsPoller \/ LoginTakesExit
WatcherStep(g) == WatcherSeesExit(g) \/ PublishExit(g)

Next ==
    \/ \E t \in Tasks, kind \in Operations : Call(t, kind)
    \/ \E t \in Tasks : TaskStep(t)
    \/ \E g \in Generation : ProcessExits(g) \/ PublishWebui(g) \/ WatcherStep(g)
    \/ ListenerStep
    \/ LoginStep

\* Every async task the runtime has started is polled when it is ready.
Fairness ==
    /\ \A t \in Tasks : WF_vars(TaskStep(t))
    /\ \A g \in Generation : WF_vars(WatcherStep(g))
    /\ WF_vars(ListenerStep)
    /\ WF_vars(LoginStep)

Spec == Init /\ [][Next]_vars /\ Fairness

-----------------------------------------------------------------------------
(* Properties.                                                             *)

\* Type invariant of the composition (the deployment's is Native!TypeOK).
TypeOK ==
    /\ Native!TypeOK
    /\ snapshot \in Snapshot /\ cancelled \subseteq Nat
    /\ \A box \in {exitBox, loginExitBox, webuiBox} : box \in Seq(Generation)
    /\ listener \in {Receiving} \cup
                    [tells : {"confirm_stopped", "mark_crashed"}, gen : Generation]
    /\ {loginTask, poller, endpoint} \subseteq Generation \cup {0}
    /\ op \in [Tasks -> Operation \cup {Resting}]
    /\ issued \in 0 .. MaxOps
    /\ faults \subseteq Fault

\* Nothing is under way: no operation, no event unread, no exit unnoticed.
Quiet ==
    /\ \A t \in Tasks : op[t] = Resting
    /\ boxes = <<<<>>, <<>>, <<>>>> /\ listener = Receiving /\ loginTask = 0
    /\ \A g \in Generation : watcher[g] \in {"none", "done"} \/ (watcher[g] = "waiting" /\ proc[g].alive)

\* The steps at which a task runs, or is about to run, the start pipeline.
Launching(t) == op[t].pc \in StartPc \ {"start"}

\* When everything has settled, the state the user sees is the truth: a Running
\* bot has a recorded living process, a Stopped bot has none, and no bot is left
\* in Starting or Stopping with nobody to move it on.  Excused are an exit event
\* that arrived while the bot was Starting (listeners.rs ignores it), a stop that
\* failed after a stale exit event or a slow stop of an earlier run had confirmed
\* it, a restart given up because its stop failed, a stranded backend switch, a bot
\* that another backend runs, a stop that killed the process but was refused because
\* a start had confirmed it, and a start that inserted its process after a stop had
\* ended its run.
SettledStateIsTrue ==
    Quiet =>
        /\ snapshot.state = "Running" => Observed \/ faults \cap {"exit_ignored", "switched", "stop_refused"} # {}
        /\ snapshot.state = "Stopped" =>
              \/ ~Observed \/ "stale_start" \in faults
              \/ "kill_failed" \in faults /\ faults \cap {"stale_exit", "late_confirm", "other_token"} # {}
        /\ snapshot.state = "Stopping" => "restart_aborted" \in faults
        /\ snapshot.state = "Starting" => faults \cap {"restart_aborted", "switch_stranded"} # {}

\* When everything has settled, the login poller and the WebUI endpoint are those
\* of the recorded process if it announced one, and neither points at a process
\* that is gone.  Excused are the events that arrived late or never, the
\* stop_bot that returned an error before it came to dispose_poller, and the
\* backend switch, which never calls it.
LoginFaults == {"late_webui", "late_dispose", "exit_swallowed", "stop_refused",
                "switched"}

SettledLoginIsTrue ==
    (Quiet /\ faults \cap LoginFaults = {}) =>
        /\ \A g \in {poller, endpoint} \ {0} : proc[g].alive \/ g \in dropped
        /\ \A g \in Generation :
              (processes[Bot].generation = g /\ "webui_available" \in published[g])
                  => poller = g /\ endpoint = g

\* No process is left running outside the table unless a kill failed, a stale exit
\* event made the manager believe that a living bot had crashed, a slow stop
\* confirmed the end of the next run, or a start went on after a stop had ended its
\* run: only then can a start overwrite the record of a living process.
OrphanNeedsFault ==
    (\E g \in Generation : proc[g].alive /\ g \in dropped)
        => faults \cap {"kill_failed", "stale_exit", "stale_start", "other_token",
                        "late_confirm"} # {}

\* However many starts and stops overlap, each run of the bot has one task in its
\* start pipeline, unless a task took up the token of a later run than its own.
OneLaunchAtATime ==
    \A t, u \in Tasks :
        Launching(t) /\ Launching(u) /\ op[t].token = op[u].token
            => t = u \/ "other_token" \in faults

\* A bot never hangs in Starting: whatever brought it there, a pipeline runs to
\* its end and the bot is Running, Crashed or stopped again.
StartingEnds ==
    snapshot.state = "Starting"
        ~> \/ snapshot.state # "Starting"
           \/ faults \cap {"restart_aborted", "switch_stranded"} # {}

\* What mod.rs:1325 says of a backend switch: start_bot launches the new backend.
\* So the Starting that the switch's own confirm_stopped brought about ends.
SwitchLaunchesNewBackend ==
    \A t \in Tasks :
        (At(t, "start") /\ op[t].kind = "switch" /\ snapshot.state = "Starting")
            ~> snapshot.state # "Starting"

\* What listeners.rs:241 says of dispose_poller: once the process has gone, the
\* endpoint goes, so that no hot reload is pushed to a dead port.  Events that
\* arrive late or never are not held against it.
NoEndpointOnDeadPort ==
    (Quiet /\ endpoint # 0 /\ faults \cap (LoginFaults \ {"stop_refused"}) = {})
        => proc[endpoint].alive \/ endpoint \in dropped

\* What mod.rs:1840 says of a start that was cancelled by stop_bot: it notices and
\* leaves silently, without reporting a second error.
CancelledStartIsSilent ==
    [][\A t \in Tasks :
          (op[t].pc \in {"recheck", "recheck_again"} /\ TokenCancelled(t))
              => op'[t].pc # "mark_crashed"]_vars

=============================================================================
