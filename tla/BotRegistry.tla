----------------------------- MODULE BotRegistry -----------------------------
(***************************************************************************)
(* Which bots exist: the persisted configurations, the derived files of    *)
(* the backends, the table of actors and the bots' processes, as the       *)
(* operations of BotManager (ncd-runtime/src/bot_manager/mod.rs) create,   *)
(* save, start, stop and delete bots, restore them when the application    *)
(* starts, and stop and forget them all before the data root is moved.     *)
(*                                                                         *)
(* Every request is an async task that awaits between its steps; the table *)
(* is locked only for the moment it is read or written.  A request that    *)
(* looked an actor up keeps its handle, whatever happens to the table.     *)
(* Commands to an actor are atomic (AtomicActor); of its snapshot only the *)
(* state matters here.  The repository is atomic too (ConfigStore), and    *)
(* what goes on inside a launch or a stop is BotManager's module.          *)
(***************************************************************************)
EXTENDS BotActorState, FiniteSets

CONSTANTS BotIds,        (* the bots users know of                           *)
          MaxBots,       (* MAX_BOTS, 4 in the code                          *)
          Requesters,    (* tasks that run a request                         *)
          MaxActors,     (* bound: actors spawned for one bot                *)
          MaxRequests,   (* bound: requests made in one behaviour            *)
          MaxBootstraps  (* bound: bootstraps, the first one included        *)

ASSUME MaxBotsAssumption == MaxBots \in Nat \ {0}
ASSUME MaxActorsAssumption == MaxActors \in Nat
ASSUME BotIdsAssumption == IsFiniteSet(BotIds) /\ "none" \notin BotIds
ASSUME RequestersAssumption == "closer" \notin Requesters

VARIABLES saved,     (* bots with a configuration in the repository          *)
          derived,   (* bots with derived files in the configuration folder  *)
          table,     (* bot -> number of its actor in the table, 0 for none  *)
          actors,    (* bot -> what became of each actor ever spawned for it *)
          skipped,   (* bots bootstrap left out: MAX_BOTS had actors already   *)
          launched,  (* bots with a live process                             *)
          request,   (* task -> the request it runs                          *)
          closing,   (* shutdown_all: is it stopping, and whom               *)
          restored,  (* bootstrap ran since the table was empty              *)
          made, boots,                                    (* what is bounded *)
          mixed,     (* history: bots two requests worked on at a time       *)
          broken,    (* history: bots a request failed half-way for          *)
          crowded    (* history: somebody took room while a new bot was saved *)

registryVars == <<saved, derived, table, actors, skipped, launched, request, closing,
                  restored, made, boots, mixed, broken, crowded>>

Closer == "closer"
AllRequesters == Requesters \cup {Closer}

ActorState == State \cup {"Unborn", "Closed"}

Op == {"save", "delete", "start", "stop"}
Asleep == [op |-> "none", bot |-> "none", at |-> "rest", actor |-> 0, isNew |-> FALSE]

\* The handler of cmd, seen through the state alone.
Told(cmd, state) == Handle(cmd, [NewSnapshot EXCEPT !.state = state], {}).snapshot.state
Accepts(cmd, state) == Handle(cmd, [NewSnapshot EXCEPT !.state = state], {}).result # "invalid"

Registered == {b \in BotIds : table[b] # 0}

RegistryInit ==
    /\ saved \in SUBSET BotIds
    /\ derived = saved
    /\ table = [b \in BotIds |-> 0]
    /\ actors = [b \in BotIds |-> [i \in 1 .. MaxActors |-> "Unborn"]]
    /\ skipped = {}
    /\ launched = {}
    /\ request = [t \in AllRequesters |-> Asleep]
    /\ closing = [stopping |-> FALSE, left |-> {}]
    /\ restored = FALSE
    /\ made = 0 /\ boots = 0
    /\ mixed = {} /\ broken = {} /\ crowded = FALSE

-----------------------------------------------------------------------------
Is(t, op, at) == request[t].op = op /\ request[t].at = at
Step(t, at) == request' = [request EXCEPT ![t].at = at]
Finish(t) == request' = [request EXCEPT ![t] = Asleep]
StepIf(t, cond, at) == IF cond THEN Step(t, at) ELSE Finish(t)

\* The actor a request holds a handle of.
Actor(t) == actors[request[t].bot][request[t].actor]
Tell(t, cmd) ==
    actors' = [actors EXCEPT ![request[t].bot][request[t].actor] = Told(cmd, @)]

\* BotActorHandle::spawn
Unborn(b) == {i \in 1 .. MaxActors : actors[b][i] = "Unborn"}
NextActor(b) == CHOOSE i \in Unborn(b) : \A j \in Unborn(b) : i <= j
Spawn(as) == [b \in BotIds |-> IF b \in as
                               THEN [actors[b] EXCEPT ![NextActor(b)] = "Stopped"]
                               ELSE actors[b]]

\* Two requests for one bot at a time are noted, except those that are harmless:
\* two starts, and a save of a bot in the table beside a save, a start or a stop.
Harmless(b, ops) ==
    ops = {"start"} \/ (b \in Registered /\ ops \in {{"save"}, {"save", "start"}, {"save", "stop"}})
Mixed(b, op) ==
    IF \E t \in AllRequesters : request[t].bot = b /\ ~Harmless(b, {op, request[t].op})
    THEN mixed \cup {b} ELSE mixed

Ask(t, b, op) ==
    /\ request[t] = Asleep
    /\ request' = [request EXCEPT ![t] = [op |-> op, bot |-> b, at |-> "look",
                                          actor |-> 0, isNew |-> FALSE]]

\* A user, the tray or bootstrap's and the batch operations' tasks.
Request(t, b, op) ==
    /\ made < MaxRequests
    /\ made' = made + 1 /\ UNCHANGED boots
    /\ Ask(t, b, op)
    /\ mixed' = IF closing.stopping THEN mixed \cup {b} ELSE Mixed(b, op)
    /\ UNCHANGED <<saved, derived, table, actors, skipped, launched, closing, restored, broken, crowded>>

-----------------------------------------------------------------------------
(* bootstrap                                                               *)

\* Up to MAX_BOTS of the saved bots get an actor, the others are skipped.
MutantBootstrap ==
    /\ boots < MaxBootstraps
    /\ boots' = boots + 1
    /\ \A b \in saved : Unborn(b) # {}
    /\ table' = [b \in BotIds |-> IF b \in saved \ Registered THEN NextActor(b) ELSE table[b]]
    /\ actors' = Spawn(saved \ Registered)
    /\ skipped' = saved \ {b \in BotIds : table'[b] # 0}
    /\ restored' = TRUE
    /\ UNCHANGED <<saved, derived, launched, request, closing, made, mixed, broken, crowded>>

Bootstrap ==
    /\ boots < MaxBootstraps
    /\ boots' = boots + 1
    /\ \E S \in SUBSET (saved \ Registered) :
          /\ \A b \in S : Unborn(b) # {}
          /\ Cardinality(Registered \cup S) <= MaxBots
          /\ S = saved \ Registered \/ Cardinality(Registered \cup S) = MaxBots
          /\ table' = [b \in BotIds |-> IF b \in S THEN NextActor(b) ELSE table[b]]
          /\ actors' = Spawn(S)
    /\ skipped' = saved \ {b \in BotIds : table'[b] # 0}
    /\ restored' = TRUE
    /\ crowded' = (crowded \/ \E t \in Requesters : request[t].isNew)
    /\ mixed' = mixed \cup {request[t].bot : t \in {u \in Requesters : request[u].isNew}}
    /\ UNCHANGED <<saved, derived, launched, request, closing, made, broken>>

-----------------------------------------------------------------------------
(* upsert_bot_config_with_overrides                                        *)

\* Is the bot new, and is there room for it?
SaveLook(t) ==
    /\ Is(t, "save", "look")
    /\ LET isNew == table[request[t].bot] = 0
       IN IF isNew /\ Cardinality(Registered) >= MaxBots
          THEN Finish(t) /\ UNCHANGED crowded
          ELSE /\ request' = [request EXCEPT ![t].at = "persist", ![t].isNew = isNew]
               /\ crowded' = (crowded \/ (isNew /\ \E u \in Requesters : request[u].isNew))
    /\ UNCHANGED <<saved, derived, table, actors, skipped, launched, closing, made, boots, mixed, restored, broken>>

SavePersist(t) ==
    /\ Is(t, "save", "persist")
    /\ saved' = saved \cup {request[t].bot}
    /\ Step(t, "render")
    /\ UNCHANGED <<derived, table, actors, skipped, launched, closing, made, boots, mixed, restored, broken, crowded>>

SavePersistFails(t) ==
    /\ Is(t, "save", "persist")
    /\ Finish(t)
    /\ UNCHANGED <<saved, derived, table, actors, skipped, launched, closing, made, boots,
                   mixed, restored, broken, crowded>>

\* The derived files, new ones and those of another backend.
SaveRender(t) ==
    /\ Is(t, "save", "render")
    /\ derived' = derived \cup {request[t].bot}
    /\ Step(t, "actor")
    /\ UNCHANGED <<saved, table, actors, skipped, launched, closing, made, boots, mixed, restored, broken, crowded>>

\* The configuration is saved, but a new bot gets no actor.
SaveRenderFails(t) ==
    /\ Is(t, "save", "render")
    /\ broken' = broken \cup {request[t].bot}
    /\ Finish(t)
    /\ UNCHANGED <<saved, derived, table, actors, skipped, launched, closing, restored, made, boots, mixed, crowded>>

\* A new actor, put into the table without another look at it; the pushes to a
\* running bot change nothing here, and a bot deleted meanwhile is not found.
SaveActor(t) ==
    /\ Is(t, "save", "actor")
    /\ LET b == request[t].bot
       IN IF request[t].isNew
          THEN /\ Unborn(b) # {}
               /\ table' = [table EXCEPT ![b] = NextActor(b)]
               /\ actors' = Spawn({b})
          ELSE UNCHANGED <<table, actors>>
    /\ Finish(t)
    /\ UNCHANGED <<saved, derived, skipped, launched, closing, made, boots, mixed, restored, broken, crowded>>

-----------------------------------------------------------------------------
(* start_bot and start_runtime_from_starting                               *)

StartLook(t) ==
    /\ Is(t, "start", "look")
    /\ IF table[request[t].bot] = 0 THEN Finish(t)
       ELSE request' = [request EXCEPT ![t].at = "config", ![t].actor = table[request[t].bot]]
    /\ UNCHANGED <<saved, derived, table, actors, skipped, launched, closing, made, boots,
                   mixed, restored, broken, crowded>>

StartConfig(t) ==
    /\ Is(t, "start", "config")
    /\ StepIf(t, request[t].bot \in saved, "render")
    /\ UNCHANGED <<saved, derived, table, actors, skipped, launched, closing, made, boots,
                   mixed, restored, broken, crowded>>

StartRender(t) ==
    /\ Is(t, "start", "render")
    /\ derived' = derived \cup {request[t].bot}
    /\ Step(t, "request")
    /\ UNCHANGED <<saved, table, actors, skipped, launched, closing, made, boots, mixed, restored, broken, crowded>>

\* MailboxClosed, refused, already starting or running: the start is over.
StartRequest(t) ==
    /\ Is(t, "start", "request")
    /\ IF Actor(t) \in {"Stopped", "Crashed"}
       THEN Tell(t, "request_start") /\ Step(t, "launch")
       ELSE Finish(t) /\ UNCHANGED actors
    /\ UNCHANGED <<saved, derived, table, skipped, launched, closing, made, boots, mixed, restored, broken, crowded>>

\* A token cancelled meanwhile ends the start before the launch.
StartLaunch(t) ==
    /\ Is(t, "start", "launch")
    /\ IF Actor(t) = "Starting"
       THEN /\ launched' = launched \cup {request[t].bot}
            /\ Step(t, "confirm")
       ELSE Finish(t) /\ UNCHANGED launched
    /\ UNCHANGED <<saved, derived, table, actors, skipped, closing, made, boots, mixed, restored, broken, crowded>>

StartLaunchFails(t) ==
    /\ Is(t, "start", "launch")
    /\ IF Accepts("mark_crashed", Actor(t)) /\ Actor(t) # "Closed"
       THEN Tell(t, "mark_crashed") ELSE UNCHANGED actors
    /\ Finish(t)
    /\ UNCHANGED <<saved, derived, table, skipped, launched, closing, made, boots, mixed, restored, broken, crowded>>

\* When the actor is gone or stopping, the start fails and leaves the process.
StartConfirm(t) ==
    /\ Is(t, "start", "confirm")
    /\ IF Actor(t) # "Closed" /\ Accepts("confirm_running", Actor(t))
       THEN Tell(t, "confirm_running") ELSE UNCHANGED actors
    /\ Finish(t)
    /\ UNCHANGED <<saved, derived, table, skipped, launched, closing, made, boots, mixed, restored, broken, crowded>>

-----------------------------------------------------------------------------
(* stop_bot                                                                *)

StopLook(t) ==
    /\ Is(t, "stop", "look")
    /\ IF table[request[t].bot] = 0 THEN Finish(t)
       ELSE request' = [request EXCEPT ![t].at = "request", ![t].actor = table[request[t].bot]]
    /\ UNCHANGED <<saved, derived, table, actors, skipped, launched, closing, made, boots,
                   mixed, restored, broken, crowded>>

StopRequest(t) ==
    /\ Is(t, "stop", "request")
    /\ IF Actor(t) = "Closed" THEN Finish(t) /\ UNCHANGED actors
       ELSE Tell(t, "request_stop") /\ Step(t, "backend")
    /\ UNCHANGED <<saved, derived, table, skipped, launched, closing, made, boots, mixed, restored, broken, crowded>>

\* The backend follows from the configuration; without one the bot stays Stopping.
StopBackend(t) ==
    /\ Is(t, "stop", "backend")
    /\ IF request[t].bot \in saved
       THEN launched' = launched \ {request[t].bot} /\ Step(t, "confirm")
       ELSE Finish(t) /\ UNCHANGED launched
    /\ UNCHANGED <<saved, derived, table, actors, skipped, closing, made, boots, mixed, restored, broken, crowded>>

StopBackendFails(t) ==
    /\ Is(t, "stop", "backend") /\ request[t].bot \in launched
    /\ IF Actor(t) # "Closed" /\ Accepts("mark_crashed", Actor(t))
       THEN Tell(t, "mark_crashed") ELSE UNCHANGED actors
    /\ broken' = broken \cup {request[t].bot}
    /\ Finish(t)
    /\ UNCHANGED <<saved, derived, table, skipped, launched, closing, restored, made, boots, mixed, crowded>>

StopConfirm(t) ==
    /\ Is(t, "stop", "confirm")
    /\ IF Actor(t) = "Stopping" THEN Tell(t, "confirm_stopped") ELSE UNCHANGED actors
    /\ Finish(t)
    /\ UNCHANGED <<saved, derived, table, skipped, launched, closing, made, boots, mixed, restored, broken, crowded>>

-----------------------------------------------------------------------------
(* delete_bot_internal                                                     *)

MutantDeleteLook(t) ==
    /\ Is(t, "delete", "look")
    /\ request' = [request EXCEPT ![t].at = "persist", ![t].actor = table[request[t].bot]]
    /\ UNCHANGED <<saved, derived, table, actors, skipped, launched, closing, made, boots,
                   mixed, restored, broken, crowded>>

\* An active bot is asked to stop first.
DeleteLook(t) ==
    /\ Is(t, "delete", "look")
    /\ LET b == request[t].bot
           i == table[b]
       IN IF i # 0 /\ IsActive(actors[b][i])
          THEN /\ actors' = [actors EXCEPT ![b][i] = Told("request_stop", @)]
               /\ request' = [request EXCEPT ![t].at = "backend", ![t].actor = i]
          ELSE /\ UNCHANGED actors
               /\ request' = [request EXCEPT ![t].at = "persist", ![t].actor = i]
    /\ UNCHANGED <<saved, derived, table, skipped, launched, closing, made, boots, mixed, restored, broken, crowded>>

DeleteBackend(t) ==
    /\ Is(t, "delete", "backend")
    /\ launched' = launched \ {request[t].bot}
    /\ Step(t, "confirm")
    /\ UNCHANGED <<saved, derived, table, actors, skipped, closing, made, boots, mixed, restored, broken, crowded>>

\* Configuration and actor are kept for another try.
DeleteBackendFails(t) ==
    /\ Is(t, "delete", "backend") /\ request[t].bot \in launched
    /\ broken' = broken \cup {request[t].bot}
    /\ Finish(t)
    /\ UNCHANGED <<saved, derived, table, actors, skipped, launched, closing, restored, made, boots, mixed, crowded>>

DeleteConfirm(t) ==
    /\ Is(t, "delete", "confirm")
    /\ IF Actor(t) = "Closed" THEN Finish(t) /\ UNCHANGED actors
       ELSE /\ Step(t, "persist")
            /\ IF Actor(t) = "Stopping" THEN Tell(t, "confirm_stopped") ELSE UNCHANGED actors
    /\ UNCHANGED <<saved, derived, table, skipped, launched, closing, made, boots, mixed, restored, broken, crowded>>

DeletePersist(t) ==
    /\ Is(t, "delete", "persist")
    /\ saved' = saved \ {request[t].bot}
    /\ Step(t, "files")
    /\ UNCHANGED <<derived, table, actors, skipped, launched, closing, made, boots, mixed, restored, broken, crowded>>

DeleteFiles(t) ==
    /\ Is(t, "delete", "files")
    /\ derived' = derived \ {request[t].bot}
    /\ Step(t, "close")
    /\ UNCHANGED <<saved, table, actors, skipped, launched, closing, made, boots, mixed, restored, broken, crowded>>

\* The configuration is gone, the actor stays.
DeleteFilesFail(t) ==
    /\ Is(t, "delete", "files")
    /\ broken' = broken \cup {request[t].bot}
    /\ Finish(t)
    /\ UNCHANGED <<saved, derived, table, actors, skipped, launched, closing, restored, made, boots, mixed, crowded>>

DeleteClose(t) ==
    /\ Is(t, "delete", "close")
    /\ actors' = IF request[t].actor = 0 THEN actors
                 ELSE [actors EXCEPT ![request[t].bot][request[t].actor] = "Closed"]
    /\ Step(t, "remove")
    /\ UNCHANGED <<saved, derived, table, skipped, launched, closing, made, boots, mixed, restored, broken, crowded>>

DeleteRemove(t) ==
    /\ Is(t, "delete", "remove")
    /\ table' = [table EXCEPT ![request[t].bot] = 0]
    /\ Finish(t)
    /\ UNCHANGED <<saved, derived, actors, skipped, launched, closing, made, boots, mixed, restored, broken, crowded>>

-----------------------------------------------------------------------------
(* shutdown_all                                                            *)

\* The move of the data root calls it when a local bot is active; the bots to
\* stop are chosen once.  What runs beside it is noted.
ShutdownBegin ==
    /\ ~closing.stopping
    /\ \E b \in Registered : IsActive(actors[b][table[b]])
    /\ closing' = [stopping |-> TRUE,
                   left |-> {b \in Registered : IsActive(actors[b][table[b]])}]
    /\ mixed' = mixed \cup {request[t].bot : t \in {u \in Requesters : request[u] # Asleep}}
    /\ UNCHANGED <<saved, derived, table, actors, skipped, launched, request, made, boots, restored, broken, crowded>>

ShutdownStop ==
    /\ \E b \in closing.left :
          /\ closing' = [closing EXCEPT !.left = @ \ {b}]
          /\ Ask(Closer, b, "stop")
    /\ UNCHANGED <<saved, derived, table, actors, skipped, launched, made, boots, mixed, restored, broken, crowded>>

\* Every actor is shut down, whether its bot stopped or not, and the table
\* emptied; it stays so, with the application running, until bootstrap.
ShutdownClear ==
    /\ closing.stopping /\ closing.left = {} /\ request[Closer] = Asleep
    /\ actors' = [b \in BotIds |->
                    IF table[b] = 0 THEN actors[b]
                    ELSE [actors[b] EXCEPT ![table[b]] = "Closed"]]
    /\ table' = [b \in BotIds |-> 0]
    /\ closing' = [closing EXCEPT !.stopping = FALSE]
    /\ restored' = FALSE
    /\ mixed' = mixed \cup {request[t].bot : t \in {u \in Requesters : request[u] # Asleep}}
    /\ UNCHANGED <<saved, derived, skipped, launched, request, made, boots, broken, crowded>>

-----------------------------------------------------------------------------
SaveStep(t) == SaveLook(t) \/ SavePersist(t) \/ SaveRender(t) \/ SaveActor(t)
StartStep(t) == \/ StartLook(t) \/ StartConfig(t) \/ StartRender(t)
                \/ StartRequest(t) \/ StartLaunch(t) \/ StartConfirm(t)
StopStep(t) == StopLook(t) \/ StopRequest(t) \/ StopBackend(t) \/ StopConfirm(t)
DeleteStep(t) == \/ DeleteLook(t) \/ DeleteBackend(t) \/ DeleteConfirm(t)
                 \/ DeletePersist(t) \/ DeleteFiles(t) \/ DeleteClose(t) \/ DeleteRemove(t)
Failure(t) == \/ SavePersistFails(t) \/ SaveRenderFails(t) \/ StartLaunchFails(t)
              \/ StopBackendFails(t) \/ DeleteBackendFails(t) \/ DeleteFilesFail(t)

RegistryNext ==
    \/ \E t \in Requesters, b \in BotIds, op \in Op : Request(t, b, op)
    \/ \E t \in AllRequesters :
          SaveStep(t) \/ StartStep(t) \/ StopStep(t) \/ DeleteStep(t) \/ Failure(t)
    \/ Bootstrap \/ ShutdownBegin \/ ShutdownStop \/ ShutdownClear

RegistrySpec == RegistryInit /\ [][RegistryNext]_registryVars

-----------------------------------------------------------------------------
(* Properties.                                                             *)

\* Type invariant of the registry.
RegistryTypeOK ==
    /\ saved \subseteq BotIds /\ derived \subseteq BotIds
    /\ skipped \subseteq BotIds /\ launched \subseteq BotIds
    /\ table \in [BotIds -> 0 .. MaxActors]
    /\ actors \in [BotIds -> [1 .. MaxActors -> ActorState]]
    /\ closing.stopping \in BOOLEAN /\ restored \in BOOLEAN /\ closing.left \subseteq BotIds
    /\ \A t \in AllRequesters :
          request[t] # Asleep => /\ request[t].op \in Op /\ request[t].bot \in BotIds
                                 /\ request[t].actor \in 0 .. MaxActors

\* A bot nobody is working on, that no two requests worked on at a time
\* (other than a save beside a save, a start or a stop), and for which no
\* request failed half-way.
Quiet(b) == b \notin mixed \cup broken /\ \A t \in AllRequesters : request[t].bot # b

\* The four places that know of a bot agree when the bot is at rest: a bot in
\* the table is a saved bot, a saved bot is in the table unless bootstrap left
\* it out or has not run since the table was emptied, its process lives
\* exactly while its actor says Running, and a deleted bot leaves no derived
\* file behind.  The requests for other bots, bootstrap, shutdown_all and the
\* limit interleave with all of it.
RestingBotIsConsistent ==
    \A b \in BotIds : Quiet(b) =>
        /\ b \in derived \cup Registered => b \in saved
        /\ restored /\ b \in saved => b \in Registered \cup skipped
        /\ b \in launched <=> (b \in Registered /\ actors[b][table[b]] = "Running")

\* The table never holds more than MAX_BOTS actors, however bots are saved,
\* deleted and restored, except when another new bot or bootstrap took room
\* while a new bot was being saved: the room is looked up under one lock and
\* taken under another.
LimitNeedsCrowd == Cardinality(Registered) > MaxBots => crowded

\* What the registry promises: both of the above.
RegistryIsConsistent == RestingBotIsConsistent /\ LimitNeedsCrowd
=============================================================================
