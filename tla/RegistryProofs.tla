-------------------------- MODULE RegistryProofs ---------------------------
(***************************************************************************)
(* Theorems about the registry of bots: the configurations, derived files, *)
(* actors and processes of a bot must agree, whichever requests meet.      *)
(***************************************************************************)
EXTENDS BotRegistry, FiniteSetTheorems, WellFoundedInduction, TLAPS

-----------------------------------------------------------------------------
(* The bot registry.                                                       *)

AnyStep == {"look", "persist", "render", "actor", "config", "request", "launch", "confirm",
            "backend", "files", "close", "remove"}
Requests == [op : Op, bot : BotIds, at : AnyStep, actor : 0 .. MaxActors, isNew : BOOLEAN]

RegistryTypes ==
    /\ saved \subseteq BotIds /\ derived \subseteq BotIds
    /\ skipped \subseteq BotIds /\ launched \subseteq BotIds
    /\ table \in [BotIds -> 0 .. MaxActors]
    /\ actors \in [BotIds -> [1 .. MaxActors -> ActorState]]
    /\ request \in [AllRequesters -> Requests \cup {Asleep}]
    /\ closing \in [stopping : BOOLEAN, left : SUBSET BotIds]
    /\ restored \in BOOLEAN /\ crowded \in BOOLEAN

\* A request is at a step of its operation; only a save past its look can be
\* one of a new bot, and shutdown_all asks for stops alone.
SoundRequest(t) ==
    /\ request[t].op = "save" => request[t].at \in {"look", "persist", "render", "actor"}
    /\ request[t].op = "start" =>
          request[t].at \in {"look", "config", "render", "request", "launch", "confirm"}
    /\ request[t].op = "stop" => request[t].at \in {"look", "request", "backend", "confirm"}
    /\ request[t].op = "delete" =>
          request[t].at \in {"look", "backend", "confirm", "persist", "files", "close", "remove"}
    /\ request[t].isNew => request[t].op = "save" /\ request[t].at # "look"
    /\ request[t].op \in {"start", "stop"} /\ request[t].at # "look" => request[t].actor # 0
    /\ request[t].op = "delete" /\ request[t].at \in {"backend", "confirm"} => request[t].actor # 0

RequestsAreSound ==
    /\ \A t \in AllRequesters : request[t] # Asleep => SoundRequest(t)
    /\ request[Closer] # Asleep => request[Closer].op = "stop" /\ closing.stopping
    /\ closing.left # {} => closing.stopping

\* The table is within its limit, and has room for the new bot being saved.
RoomIsKept ==
    ~crowded =>
        /\ Cardinality(Registered) <= MaxBots
        /\ \A t, u \in Requesters : request[t].isNew /\ request[u].isNew => t = u
        /\ \A t \in Requesters : request[t].isNew => Cardinality(Registered) < MaxBots

Clean(b) == b \notin mixed \cup broken
OnBot(b) == {t \in AllRequesters : request[t].bot = b}
In(t, op, steps) == request[t].op = op /\ request[t].at \in steps

\* The state of the actor in the table.
Now(b) == actors[b][table[b]]

\* A request that is about to change what the actor of its bot says.
Steers(t) ==
    \/ In(t, "start", {"launch", "confirm"})
    \/ In(t, "stop", {"backend", "confirm"})
    \/ In(t, "delete", {"backend", "confirm", "persist", "files", "close", "remove"})

\* Operations that may work on one bot at a time.
Tolerated(b, p, q) ==
    \/ p = "start" /\ q = "start"
    \/ b \in Registered /\ p = "save" /\ q \in {"save", "start", "stop"}
    \/ b \in Registered /\ q = "save" /\ p \in {"save", "start", "stop"}

\* Requests for one bot at a time are harmless ones, and one of them steers.
OneSteers(b) ==
    \A t, u \in OnBot(b) : t # u =>
        /\ Tolerated(b, request[t].op, request[u].op)
        /\ ~(Steers(t) /\ Steers(u))

\* A request past its look works on the actor in the table.
KnowsActor(b) ==
    \A t \in OnBot(b) :
        /\ request[t].op \in {"start", "stop"} /\ request[t].at # "look" =>
              request[t].actor = table[b]
        /\ In(t, "delete", {"backend", "confirm"}) => request[t].actor = table[b]
        /\ In(t, "delete", {"persist", "files", "close", "remove"}) => request[t].actor \in {0, table[b]}
        /\ request[t].op = "save" /\ request[t].at # "look" => (request[t].isNew <=> b \notin Registered)

\* What the actor says, and whether a process lives, at each step of a request.
Fits(t, b) ==
    /\ In(t, "start", {"launch"}) => Now(b) = "Starting" /\ b \notin launched
    /\ In(t, "start", {"confirm"}) => Now(b) = "Starting" /\ b \in launched
    /\ In(t, "stop", {"backend"}) => \/ Now(b) = "Stopping" /\ b \in launched
                                     \/ Now(b) \in {"Stopped", "Crashed"} /\ b \notin launched
    /\ In(t, "stop", {"confirm"}) => Now(b) \in {"Stopping", "Stopped", "Crashed"} /\ b \notin launched
    /\ In(t, "delete", {"backend"}) => Now(b) = "Stopping" /\ b \in launched
    /\ In(t, "delete", {"confirm"}) => Now(b) = "Stopping" /\ b \notin launched
    /\ In(t, "delete", {"persist", "files", "close"}) =>
          Now(b) \in {"Stopped", "Crashed"} /\ b \notin launched
    /\ In(t, "delete", {"remove"}) => b \notin launched

AtRest(b) == Now(b) \in {"Stopped", "Running", "Crashed"} /\ (b \in launched <=> Now(b) = "Running")

ActorFollows(b) ==
    /\ b \notin Registered => b \notin launched
    /\ b \in Registered => /\ \A t \in OnBot(b) : Fits(t, b)
                           /\ (\A t \in OnBot(b) : ~Steers(t)) => AtRest(b)

\* What is stored of the bot at each step.
FilesFollow(b) ==
    /\ \A t \in OnBot(b) :
        /\ In(t, "delete", {"files", "close", "remove"}) => b \notin saved
        /\ In(t, "delete", {"close", "remove"}) => b \notin derived
        /\ In(t, "save", {"render", "actor"}) => b \in saved
    /\ (\A t \in OnBot(b) : ~In(t, "delete", {"files", "close", "remove"})) /\ b \in Registered \cup derived =>
          b \in saved
    /\ restored /\ b \in saved =>
          \/ b \in Registered \cup skipped
          \/ \E t \in OnBot(b) : In(t, "save", {"render", "actor"})

\* While shutdown_all runs nobody else works on the bot, and a bot that runs is
\* one it is yet to stop.
ClosingFollows(b) ==
    closing.stopping =>
        /\ OnBot(b) \subseteq {Closer}
        /\ b \in closing.left => OnBot(b) = {}
        /\ b \in Registered /\ Now(b) = "Running" =>
              b \in closing.left \/ (Closer \in OnBot(b) /\ request[Closer].at \in {"look", "request"})

BotInv(b) == OneSteers(b) /\ KnowsActor(b) /\ ActorFollows(b) /\ FilesFollow(b) /\ ClosingFollows(b)

RegistryInv ==
    /\ RegistryTypes /\ RequestsAreSound /\ RoomIsKept
    /\ \A b \in BotIds : Clean(b) => BotInv(b)

-----------------------------------------------------------------------------
(* Lemmas of the bot registry.                                             *)

\* What the handlers of the actor do to its state.
LEMMA ToldIs ==
    ASSUME NEW st
    PROVE  /\ st \in {"Stopped", "Crashed"} => Told("request_start", st) = "Starting"
           /\ Told("confirm_running", st) = IF st = "Starting" THEN "Running" ELSE st
           /\ Told("request_stop", st) = IF st \in {"Running", "Starting"} THEN "Stopping" ELSE st
           /\ Told("confirm_stopped", st) = IF st = "Stopping" THEN "Stopped" ELSE st
           /\ Told("mark_crashed", st) = IF st = "Stopped" THEN st ELSE "Crashed"
           /\ Accepts("confirm_running", st) <=> st \in {"Starting", "Running"}
           /\ Accepts("mark_crashed", st) <=> st # "Stopped"
<1> DEFINE s == [NewSnapshot EXCEPT !.state = st]
<1>1. /\ s.state = st /\ s.pending_restart = FALSE
  BY DEF NewSnapshot
<1>2. /\ Advance(s, "Running", s.pending_restart, FALSE).state = "Running"
      /\ Advance(s, "Stopping", FALSE, s.last_error).state = "Stopping"
      /\ Advance(s, "Stopped", FALSE, FALSE).state = "Stopped"
  BY DEF Advance, NewSnapshot
<1>3. /\ Advance(NoteError(s), "Crashed", FALSE, TRUE).state = "Crashed"
      /\ Advance(ResetToken(s), "Starting", FALSE, FALSE).state = "Starting"
  BY DEF Advance, NewSnapshot, ResetToken, NoteError
<1>4. /\ Handle("request_start", s, {}) = RequestStart(s, {})
      /\ Handle("confirm_running", s, {}) = ConfirmRunning(s, {})
      /\ Handle("request_stop", s, {}) = RequestStop(s, {})
      /\ Handle("confirm_stopped", s, {}) = ConfirmStopped(s, {})
      /\ Handle("mark_crashed", s, {}) = MarkCrashed(s, {})
  BY DEF Handle
<1>5. \A x, c : /\ Advanced(x, c).snapshot = x /\ Advanced(x, c).result = "advanced"
                /\ Unmoved(x, c).snapshot = x /\ Unmoved(x, c).result = "unchanged"
                /\ Refused(x, c).snapshot = x /\ Refused(x, c).result = "invalid"
  BY DEF Advanced, Unmoved, Refused
<1>6. \A cmd : /\ Told(cmd, st) = Handle(cmd, s, {}).snapshot.state
               /\ Accepts(cmd, st) <=> Handle(cmd, s, {}).result # "invalid"
  BY DEF Told, Accepts
<1> HIDE DEF s
<1>7. ASSUME st \in {"Stopped", "Crashed"} PROVE Told("request_start", st) = "Starting"
  <2>1. RequestStart(s, {}) = Advanced(BeginRun(s), {})
    BY <1>1, <1>7 DEF RequestStart
  <2>2. BeginRun(s).state = "Starting"
    BY <1>3 DEF BeginRun
  <2> QED
    BY <1>4, <1>5, <1>6, <2>1, <2>2
<1>8. /\ Told("confirm_running", st) = IF st = "Starting" THEN "Running" ELSE st
      /\ Accepts("confirm_running", st) <=> st \in {"Starting", "Running"}
  <2> DEFINE a == Advance(s, "Running", s.pending_restart, FALSE)
  <2>1. CASE st = "Starting"
    <3>1. ConfirmRunning(s, {}) = Advanced(a, {})
      BY <1>1, <2>1 DEF ConfirmRunning
    <3>2. a.state = "Running"
      BY <1>2, <1>3
    <3> HIDE DEF a
    <3> QED
      BY <1>4, <1>5, <1>6, <2>1, <3>1, <3>2
  <2>2. CASE st = "Running"
    <3>1. ConfirmRunning(s, {}) = Unmoved(s, {})
      BY <1>1, <2>2 DEF ConfirmRunning
    <3> QED
      BY <1>1, <1>4, <1>5, <1>6, <2>2, <3>1
  <2>3. CASE st \notin {"Starting", "Running"}
    <3>1. ConfirmRunning(s, {}) = Refused(s, {})
      BY <1>1, <2>3 DEF ConfirmRunning
    <3> QED
      BY <1>1, <1>4, <1>5, <1>6, <2>3, <3>1
  <2> QED
    BY <2>1, <2>2, <2>3
<1>9. Told("request_stop", st) = IF st \in {"Running", "Starting"} THEN "Stopping" ELSE st
  <2> DEFINE a == Advance(s, "Stopping", FALSE, s.last_error)
  <2>1. CASE st \in {"Running", "Starting"}
    <3>1. RequestStop(s, {}) = Advanced(a, CancelCurrentToken(s, {}))
      BY <1>1, <2>1 DEF RequestStop
    <3>2. a.state = "Stopping"
      BY <1>2, <1>3
    <3> HIDE DEF a
    <3> QED
      BY <1>4, <1>5, <1>6, <2>1, <3>1, <3>2
  <2>2. CASE st \notin {"Running", "Starting"}
    <3>1. RequestStop(s, {}) = Unmoved(s, {})
      BY <1>1, <2>2 DEF RequestStop
    <3> QED
      BY <1>1, <1>4, <1>5, <1>6, <2>2, <3>1
  <2> QED
    BY <2>1, <2>2
<1>10. Told("confirm_stopped", st) = IF st = "Stopping" THEN "Stopped" ELSE st
  <2> DEFINE a == Advance(s, "Stopped", FALSE, FALSE)
  <2>1. CASE st = "Stopping"
    <3>1. ConfirmStopped(s, {}) = Advanced(a, {})
      BY <1>1, <2>1 DEF ConfirmStopped
    <3>2. a.state = "Stopped"
      BY <1>2, <1>3
    <3> HIDE DEF a
    <3> QED
      BY <1>4, <1>5, <1>6, <2>1, <3>1, <3>2
  <2>2. CASE st = "Stopped"
    <3>1. ConfirmStopped(s, {}) = Unmoved(s, {})
      BY <1>1, <2>2 DEF ConfirmStopped
    <3> QED
      BY <1>1, <1>4, <1>5, <1>6, <2>2, <3>1
  <2>3. CASE st \notin {"Stopping", "Stopped"}
    <3>1. ConfirmStopped(s, {}) = Refused(s, {})
      BY <1>1, <2>3 DEF ConfirmStopped
    <3> QED
      BY <1>1, <1>4, <1>5, <1>6, <2>3, <3>1
  <2> QED
    BY <2>1, <2>2, <2>3
<1>11. /\ Told("mark_crashed", st) = IF st = "Stopped" THEN st ELSE "Crashed"
       /\ Accepts("mark_crashed", st) <=> st # "Stopped"
  <2> DEFINE a == Advance(NoteError(s), "Crashed", FALSE, TRUE)
  <2>1. CASE st # "Stopped"
    <3>1. MarkCrashed(s, {}) = Advanced(a, CancelCurrentToken(s, {}))
      BY <1>1, <2>1 DEF MarkCrashed
    <3>2. a.state = "Crashed"
      BY <1>2, <1>3
    <3> HIDE DEF a
    <3> QED
      BY <1>4, <1>5, <1>6, <2>1, <3>1, <3>2
  <2>2. CASE st = "Stopped"
    <3>1. MarkCrashed(s, {}) = Refused(s, {})
      BY <1>1, <2>2 DEF MarkCrashed
    <3> QED
      BY <1>1, <1>4, <1>5, <1>6, <2>2, <3>1
  <2> QED
    BY <2>1, <2>2
<1> QED
  BY <1>7, <1>8, <1>9, <1>10, <1>11

\* The next actor of a bot is one that was never spawned.
LEMMA NextActorIsUnborn ==
    ASSUME NEW b, Unborn(b) # {}
    PROVE  NextActor(b) \in Unborn(b) /\ NextActor(b) \in 1 .. MaxActors
<1>1. Unborn(b) \in SUBSET Nat
  BY DEF Unborn
<1>2. \E i \in Unborn(b) : \A j \in Unborn(b) : i <= j
  <2> DEFINE T == Unborn(b)
             R == OpToRel(<, Nat)
  <2>1. IsWellFoundedOn(R, Nat)
    BY NatLessThanWellFounded
  <2>2. PICK i \in T : \A j \in T : <<j, i>> \notin R
    <3> HIDE DEF R, T
    <3>1. T \in SUBSET Nat /\ T # {}
      BY <1>1 DEF T
    <3> QED
      BY <2>1, <3>1, WFMin
  <2>3. \A j \in T : ~(j < i)
    BY <1>1, <2>2 DEF OpToRel
  <2> QED
    BY <1>1, <2>3
<1>3. NextActor(b) \in Unborn(b)
  BY <1>2 DEF NextActor
<1> QED
  BY <1>3 DEF Unborn

\* What the ghost mixed does not note is what may work on one bot at a time.
LEMMA HarmlessIsTolerated ==
    ASSUME NEW b, NEW p \in Op, NEW q \in Op
    PROVE  Harmless(b, {p, q}) <=> Tolerated(b, p, q)
<1>1. {p, q} = {"start"} <=> p = "start" /\ q = "start"
  OBVIOUS
<1>2. {p, q} = {"save"} <=> p = "save" /\ q = "save"
  OBVIOUS
<1>3. {p, q} = {"save", "start"} <=> (p = "save" /\ q = "start") \/ (p = "start" /\ q = "save")
  BY DEF Op
<1>4. {p, q} = {"save", "stop"} <=> (p = "save" /\ q = "stop") \/ (p = "stop" /\ q = "save")
  BY DEF Op
<1> QED
  BY <1>1, <1>2, <1>3, <1>4 DEF Harmless, Tolerated

\* What every step of a request has in common.
TaskStep(t) ==
    /\ request[t] # Asleep
    /\ request' \in [AllRequesters -> Requests \cup {Asleep}]
    /\ request'[t] # Asleep => request'[t].bot = request[t].bot /\ request'[t].op = request[t].op
    /\ \A u \in AllRequesters \ {t} : request'[u] = request[u]
    /\ \A b \in BotIds \ {request[t].bot} :
          /\ table'[b] = table[b] /\ actors'[b] = actors[b]
          /\ b \in saved' <=> b \in saved
          /\ b \in derived' <=> b \in derived
          /\ b \in launched' <=> b \in launched
    /\ skipped' = skipped /\ closing' = closing /\ restored' = restored
    /\ mixed' = mixed /\ broken \subseteq broken'

\* A request at work is one for a bot.
LEMMA RequestHasBot ==
    ASSUME RegistryInv, NEW t \in AllRequesters, request[t] # Asleep
    PROVE  /\ request[t] \in Requests /\ request[t].bot \in BotIds /\ request[t].op \in Op
           /\ request[t].actor \in 0 .. MaxActors /\ t \in OnBot(request[t].bot)
  BY DEF RegistryInv, RegistryTypes, Requests, OnBot

\* A step that touches neither a bot nor the requests for it.
Untouched(b) ==
    /\ OnBot(b)' = OnBot(b) /\ \A u \in OnBot(b) : request'[u] = request[u]
    /\ table'[b] = table[b] /\ actors'[b] = actors[b]
    /\ b \in saved' <=> b \in saved
    /\ b \in derived' <=> b \in derived
    /\ b \in launched' <=> b \in launched
    /\ b \in skipped' <=> b \in skipped
    /\ b \in closing'.left <=> b \in closing.left
    /\ closing'.stopping = closing.stopping /\ restored' = restored

\* What is known of a bot no step touches stays so.
LEMMA UntouchedBot ==
    ASSUME NEW b \in BotIds, BotInv(b), Untouched(b)
    PROVE  BotInv(b)'
<1>1. /\ Now(b)' = Now(b)
      /\ b \in Registered' <=> b \in Registered
  BY DEF Untouched, Now, Registered
<1>2. OneSteers(b)'
  BY <1>1 DEF BotInv, OneSteers, Tolerated, Steers, In, Untouched
<1>3. KnowsActor(b)'
  BY <1>1 DEF BotInv, KnowsActor, In, Untouched
<1>4. ActorFollows(b)'
  BY <1>1 DEF BotInv, ActorFollows, Fits, AtRest, Steers, In, Untouched
<1>5. FilesFollow(b)'
  BY <1>1 DEF BotInv, FilesFollow, In, Untouched
<1>6. ClosingFollows(b)'
  BY <1>1 DEF BotInv, ClosingFollows, Untouched
<1> QED
  BY <1>2, <1>3, <1>4, <1>5, <1>6 DEF BotInv

\* A step of a request leaves other bots alone.
LEMMA OtherBots ==
    ASSUME RegistryInv, NEW t \in AllRequesters, TaskStep(t),
           NEW b \in BotIds, b # request[t].bot, Clean(b)'
    PROVE  BotInv(b)'
<1>1. BotInv(b)
  BY DEF RegistryInv, Clean, TaskStep
<1>2. request'[t].bot # b
  BY BotIdsAssumption DEF TaskStep, Asleep
<1>3. OnBot(b)' = OnBot(b) /\ \A u \in OnBot(b) : request'[u] = request[u]
  BY <1>2 DEF TaskStep, OnBot
<1>4. Untouched(b)
  BY <1>3 DEF TaskStep, Untouched
<1> QED
  BY <1>1, <1>4, UntouchedBot

\* What a step of a request means for the requests for its own bot.
LEMMA OwnBot ==
    ASSUME RegistryInv, NEW t \in AllRequesters, TaskStep(t), NEW b, b = request[t].bot, Clean(b)'
    PROVE  /\ b \in BotIds /\ t \in OnBot(b) /\ BotInv(b)
           /\ OnBot(b)' = IF request'[t] = Asleep THEN OnBot(b) \ {t} ELSE OnBot(b)
           /\ \A u \in OnBot(b) : u \in AllRequesters /\ (u # t => request'[u] = request[u])
           /\ \A u \in OnBot(b) : u # t => Tolerated(b, request[t].op, request[u].op)
           /\ \A u \in OnBot(b) : u # t => ~(Steers(t) /\ Steers(u))
           /\ request[t].op # "stop" => ClosingFollows(b)'
<1>1. b \in BotIds /\ t \in OnBot(b)
  BY RequestHasBot DEF TaskStep
<1>2. BotInv(b)
  BY <1>1 DEF RegistryInv, Clean, TaskStep
<1>3. OnBot(b)' = IF request'[t] = Asleep THEN OnBot(b) \ {t} ELSE OnBot(b)
  <2>1. Asleep.bot # b
    BY <1>1, BotIdsAssumption DEF Asleep
  <2> QED
    BY <2>1 DEF TaskStep, OnBot
<1>4. \A u \in OnBot(b) : u \in AllRequesters /\ (u # t => request'[u] = request[u])
  BY DEF TaskStep, OnBot
<1>5. \A u \in OnBot(b) : u # t => Tolerated(b, request[t].op, request[u].op) /\ ~(Steers(t) /\ Steers(u))
  BY <1>1, <1>2 DEF BotInv, OneSteers
<1>6. request[t].op # "stop" => ClosingFollows(b)'
  <2>1. t = Closer => request[t].op = "stop"
    BY DEF RegistryInv, RequestsAreSound, TaskStep
  <2>2. closing.stopping => t = Closer
    BY <1>1, <1>2 DEF BotInv, ClosingFollows
  <2> QED
    BY <2>1, <2>2 DEF ClosingFollows, TaskStep
<1> QED
  BY <1>1, <1>2, <1>3, <1>4, <1>5, <1>6

\* One request still steers when a step does not begin to beside another.
LEMMA OneStillSteers ==
    ASSUME RegistryInv, NEW t \in AllRequesters, TaskStep(t), NEW b, b = request[t].bot, Clean(b)',
           b \in Registered => b \in Registered' \/ request[t].op = "delete",
           Steers(t)' /\ request'[t] # Asleep => Steers(t) \/ \A u \in OnBot(b) \ {t} : ~Steers(u)
    PROVE  OneSteers(b)'
<1>1. SUFFICES ASSUME NEW u \in OnBot(b)', NEW v \in OnBot(b)', u # v
               PROVE  Tolerated(b, request[u].op, request[v].op)' /\ ~(Steers(u) /\ Steers(v))'
  BY DEF OneSteers
<1>2. /\ u \in OnBot(b) /\ v \in OnBot(b)
      /\ u = t \/ v = t => request'[t] # Asleep
  BY OwnBot, <1>1
<1>3. /\ \A w \in {u, v} : request'[w].op = request[w].op /\ (w # t => (Steers(w)' <=> Steers(w)))
  BY OwnBot, <1>2 DEF TaskStep, Steers, In
<1>4. Tolerated(b, request[u].op, request[v].op) /\ ~(Steers(u) /\ Steers(v))
  BY OwnBot, <1>1, <1>2 DEF BotInv, OneSteers
<1>5. Tolerated(b, request[u].op, request[v].op)'
  <2>1. b \in Registered => b \in Registered' \/ (request[t].op = "delete" /\ (u = t \/ v = t \/ Tolerated(b, request[t].op, request[u].op)))
    BY OwnBot, <1>2
  <2> QED
    BY <1>3, <1>4, <2>1 DEF Tolerated
<1>6. ~(Steers(u) /\ Steers(v))'
  BY <1>1, <1>2, <1>3, <1>4
<1> QED
  BY <1>5, <1>6

\* The request of a task becomes r.
LEMMA RequestBecomes ==
    ASSUME RegistryInv, NEW t \in AllRequesters, NEW r \in Requests \cup {Asleep},
           request' = [request EXCEPT ![t] = r]
    PROVE  /\ request' \in [AllRequesters -> Requests \cup {Asleep}] /\ request'[t] = r
           /\ \A u \in AllRequesters \ {t} : request'[u] = request[u]
  BY DEF RegistryInv, RegistryTypes

\* The request of a task goes on to the step at.
Goes(t, at) ==
    /\ request'[t] # Asleep /\ request'[t].at = at
    /\ request'[t].op = request[t].op /\ request'[t].bot = request[t].bot
    /\ request'[t].actor = request[t].actor /\ request'[t].isNew = request[t].isNew

\* What becomes of the request when it goes on to its next step.
LEMMA RequestSteps ==
    ASSUME RegistryInv, NEW t \in AllRequesters, request[t] # Asleep, NEW at \in AnyStep, Step(t, at)
    PROVE  /\ request' \in [AllRequesters -> Requests \cup {Asleep}]
           /\ \A u \in AllRequesters \ {t} : request'[u] = request[u]
           /\ Goes(t, at)
<1>1. request[t] \in Requests /\ request[t].op # "none"
  BY RequestHasBot DEF Op
<1>2. [request[t] EXCEPT !.at = at] \in Requests
  BY <1>1 DEF Requests
<1>3. request' = [request EXCEPT ![t] = [request[t] EXCEPT !.at = at]]
  BY DEF Step
<1>4. request'[t] = [request[t] EXCEPT !.at = at] /\ request' \in [AllRequesters -> Requests \cup {Asleep}]
      /\ \A u \in AllRequesters \ {t} : request'[u] = request[u]
  BY <1>2, <1>3, RequestBecomes
<1>5. request'[t].op # "none"
  BY <1>1, <1>4 DEF Requests
<1> QED
  BY <1>1, <1>4, <1>5 DEF Requests, Asleep, Goes

\* The request of a task is over.
LEMMA RequestFinishes ==
    ASSUME RegistryInv, NEW t \in AllRequesters, Finish(t)
    PROVE  /\ request' \in [AllRequesters -> Requests \cup {Asleep}]
           /\ \A u \in AllRequesters \ {t} : request'[u] = request[u]
           /\ request'[t] = Asleep
  BY RequestBecomes DEF Finish

\* Requests stay sound when the one that steps does.
LEMMA RequestsStaySound ==
    ASSUME RegistryInv, NEW t \in AllRequesters, TaskStep(t), request'[t] # Asleep => SoundRequest(t)'
    PROVE  RequestsAreSound'
<1>1. \A u \in AllRequesters : request'[u] # Asleep => SoundRequest(u)'
  <2>1. \A u \in AllRequesters \ {t} : request'[u] = request[u]
    BY DEF TaskStep
  <2> QED
    BY <2>1 DEF RegistryInv, RequestsAreSound, SoundRequest
<1>2. request'[Closer] # Asleep => request'[Closer].op = "stop" /\ closing.stopping
  BY DEF RegistryInv, RequestsAreSound, TaskStep, AllRequesters
<1> QED
  BY <1>1, <1>2 DEF RegistryInv, RequestsAreSound, TaskStep

\* A step that registers nobody and looks no new bot up keeps the room.
LEMMA RoomStays ==
    ASSUME RegistryInv, crowded' = crowded, \A b \in BotIds : table'[b] # 0 => table[b] # 0,
           \A u \in Requesters : request'[u].isNew => request[u].isNew
    PROVE  RoomIsKept'
<1>1. Registered' \subseteq Registered /\ IsFiniteSet(Registered) /\ IsFiniteSet(Registered')
  <2>1. Registered' \subseteq BotIds /\ Registered \subseteq BotIds
    BY DEF Registered
  <2> QED
    BY <2>1, FS_Subset, BotIdsAssumption DEF Registered
<1>2. Cardinality(Registered') <= Cardinality(Registered) /\ Cardinality(Registered) \in Nat
      /\ Cardinality(Registered') \in Nat
  BY <1>1, FS_Subset, FS_CardinalityType
<1> QED
  BY <1>2, MaxBotsAssumption DEF RegistryInv, RoomIsKept

\* A step of a request keeps the invariant when it keeps what concerns its bot.
LEMMA TaskKeepsInv ==
    ASSUME RegistryInv, NEW t \in AllRequesters, TaskStep(t), RegistryTypes', RequestsAreSound', RoomIsKept',
           NEW b, b = request[t].bot, Clean(b)' => BotInv(b)'
    PROVE  RegistryInv'
<1>1. \A c \in BotIds : Clean(c)' => BotInv(c)'
  BY OtherBots
<1> QED
  BY <1>1 DEF RegistryInv

\* A command to an actor changes the state of that actor alone.
LEMMA TellChanges ==
    ASSUME RegistryInv, NEW t \in AllRequesters, request[t] # Asleep, request[t].actor # 0,
           NEW cmd \in {"request_start", "confirm_running", "request_stop", "confirm_stopped", "mark_crashed"},
           Tell(t, cmd), cmd = "request_start" => Actor(t) \in {"Stopped", "Crashed"}
    PROVE  /\ actors' \in [BotIds -> [1 .. MaxActors -> ActorState]]
           /\ \A b \in BotIds \ {request[t].bot} : actors'[b] = actors[b]
           /\ actors'[request[t].bot][request[t].actor] = Told(cmd, Actor(t))
           /\ request[t].actor \in 1 .. MaxActors
<1>1. request[t].bot \in BotIds /\ request[t].actor \in 1 .. MaxActors
  BY RequestHasBot, MaxActorsAssumption
<1>2. Actor(t) \in ActorState
  BY <1>1 DEF Actor, RegistryInv, RegistryTypes
<1>3. Told(cmd, Actor(t)) \in ActorState
  <2>1. \A x \in {"Starting", "Running", "Stopping", "Stopped", "Crashed"} : x \in ActorState
    BY DEF ActorState, State
  <2> QED
    BY <1>2, <2>1, ToldIs
<1>4. actors' = [actors EXCEPT ![request[t].bot][request[t].actor] = Told(cmd, Actor(t))]
  BY <1>1 DEF Tell, Actor, RegistryInv, RegistryTypes
<1>5. actors \in [BotIds -> [1 .. MaxActors -> ActorState]]
  BY DEF RegistryInv, RegistryTypes
<1> QED
  BY <1>1, <1>3, <1>4, <1>5

\* The actor of a bot follows the only request that steers.
LEMMA ActorMoves ==
    ASSUME RegistryInv, NEW t \in AllRequesters, TaskStep(t), NEW b, b = request[t].bot, Clean(b)',
           \A u \in OnBot(b) : u # t => ~Steers(u), b \in Registered',
           request'[t] # Asleep => Fits(t, b)',
           request'[t] = Asleep \/ ~Steers(t)' => AtRest(b)'
    PROVE  ActorFollows(b)'
<1>1. \A u \in OnBot(b)' : u \in OnBot(b) /\ (u # t => request'[u] = request[u]) /\ (u = t => request'[t] # Asleep)
  BY OwnBot
<1>2. \A u \in OnBot(b)' : Fits(u, b)'
  BY <1>1 DEF Fits, Steers, In
<1>3. request'[t] # Asleep => t \in OnBot(b)'
  BY OwnBot
<1>4. (\A u \in OnBot(b)' : ~Steers(u)') => AtRest(b)'
  BY <1>3
<1> QED
  BY <1>2, <1>4 DEF ActorFollows

\* Saving the configuration keeps the invariant.
LEMMA SavePersistKeepsInv ==
    ASSUME RegistryInv, NEW t \in AllRequesters, SavePersist(t)
    PROVE  RegistryInv'
<1>1. PICK b : b = request[t].bot
  OBVIOUS
<1>2. request[t] # Asleep /\ request[t].op = "save" /\ request[t].at = "persist"
  BY DEF SavePersist, Is, Asleep
<1>3. /\ request[t] \in Requests /\ b \in BotIds /\ request[t].actor \in 0 .. MaxActors
      /\ SoundRequest(t) /\ RegistryTypes
  BY <1>1, <1>2, RequestHasBot DEF RegistryInv, RequestsAreSound
<1>4. /\ request' \in [AllRequesters -> Requests \cup {Asleep}]
      /\ \A u \in AllRequesters \ {t} : request'[u] = request[u]
      /\ Goes(t, "render")
  BY <1>2, RequestSteps, RequestFinishes DEF SavePersist, StepIf, AnyStep
<1>5. TaskStep(t)
  BY <1>1, <1>2, <1>4 DEF SavePersist, TaskStep, Goes
<1>6. RegistryTypes'
  BY <1>1, <1>3, <1>4 DEF SavePersist, RegistryTypes
<1>7. RequestsAreSound'
  BY <1>2, <1>3, <1>4, <1>5, RequestsStaySound DEF SoundRequest, Goes
<1>8. RoomIsKept'
  BY <1>3, <1>4, RoomStays DEF SavePersist, AllRequesters, Goes, Asleep, RegistryTypes
<1>9. ASSUME Clean(b)' PROVE BotInv(b)'
  <2>1. /\ BotInv(b) /\ t \in OnBot(b)
        /\ OnBot(b)' = IF request'[t] = Asleep THEN OnBot(b) \ {t} ELSE OnBot(b)
        /\ \A u \in OnBot(b) : u # t => request'[u] = request[u]
        /\ \A u \in OnBot(b) : u # t => Tolerated(b, request[t].op, request[u].op) /\ ~(Steers(t) /\ Steers(u))
        /\ request[t].op # "stop" => ClosingFollows(b)'
    BY <1>1, <1>5, <1>9, OwnBot
  <2>2. OneSteers(b)'
    BY <1>1, <1>2, <1>4, <1>5, <1>9, <2>1, OneStillSteers DEF SavePersist, Registered, Steers,
       In, Goes
  <2>3. KnowsActor(b)'
    BY <1>1, <1>2, <1>3, <1>4, <2>1 DEF SavePersist, BotInv, KnowsActor, In, Goes, Registered
  <2>4. ActorFollows(b)'
    BY SMTT(90), <1>1, <1>2, <1>3, <1>4, <2>1 DEF SavePersist, BotInv, ActorFollows, Fits, AtRest,
       KnowsActor, In, Goes, Steers, Now, Registered
  <2>5. FilesFollow(b)'
    <3>1. \A u \in OnBot(b) : u # t => request[u].op # "delete"
      BY <1>2, <2>1 DEF Tolerated
    <3>2. saved' = saved \cup {b} /\ t \in OnBot(b)' /\ request'[t].at = "render" /\ request'[t].op = "save"
      BY <1>1, <1>2, <1>4, <2>1 DEF SavePersist, Goes
    <3>3. \A u \in OnBot(b)' : request'[u].op # "delete"
      BY <1>2, <2>1, <3>1, <3>2
    <3> QED
      BY <3>2, <3>3 DEF FilesFollow, In
  <2>6. ClosingFollows(b)'
    BY <1>2, <2>1
  <2> QED
    BY <2>2, <2>3, <2>4, <2>5, <2>6 DEF BotInv
<1> QED
  BY <1>1, <1>5, <1>6, <1>7, <1>8, <1>9, TaskKeepsInv

\* A configuration that could not be saved ends the save and changes nothing.
LEMMA SavePersistFailsKeepsInv ==
    ASSUME RegistryInv, NEW t \in AllRequesters, SavePersistFails(t)
    PROVE  RegistryInv'
<1>1. PICK b : b = request[t].bot
  OBVIOUS
<1>2. request[t] # Asleep /\ request[t].op = "save" /\ request[t].at = "persist"
  BY DEF SavePersistFails, Is, Asleep
<1>3. /\ request[t] \in Requests /\ b \in BotIds /\ request[t].actor \in 0 .. MaxActors
      /\ SoundRequest(t) /\ RegistryTypes
  BY <1>1, <1>2, RequestHasBot DEF RegistryInv, RequestsAreSound
<1>4. /\ request' \in [AllRequesters -> Requests \cup {Asleep}]
      /\ \A u \in AllRequesters \ {t} : request'[u] = request[u]
      /\ request'[t] = Asleep
  BY <1>2, RequestSteps, RequestFinishes DEF SavePersistFails, StepIf, AnyStep
<1>5. TaskStep(t)
  BY <1>1, <1>2, <1>4 DEF SavePersistFails, TaskStep, Goes
<1>6. RegistryTypes'
  BY <1>1, <1>3, <1>4 DEF SavePersistFails, RegistryTypes
<1>7. RequestsAreSound'
  BY <1>2, <1>3, <1>4, <1>5, RequestsStaySound DEF SoundRequest, Goes
<1>8. RoomIsKept'
  BY <1>3, <1>4, RoomStays DEF SavePersistFails, AllRequesters, Goes, Asleep, RegistryTypes
<1>9. ASSUME Clean(b)' PROVE BotInv(b)'
  <2>1. /\ BotInv(b) /\ t \in OnBot(b)
        /\ OnBot(b)' = IF request'[t] = Asleep THEN OnBot(b) \ {t} ELSE OnBot(b)
        /\ \A u \in OnBot(b) : u # t => request'[u] = request[u]
        /\ \A u \in OnBot(b) : u # t => Tolerated(b, request[t].op, request[u].op) /\ ~(Steers(t) /\ Steers(u))
        /\ request[t].op # "stop" => ClosingFollows(b)'
    BY <1>1, <1>5, <1>9, OwnBot
  <2>2. OneSteers(b)'
    BY <1>1, <1>2, <1>4, <1>5, <1>9, <2>1, OneStillSteers DEF SavePersistFails, Registered,
       Steers, In, Goes
  <2>3. KnowsActor(b)'
    BY <1>1, <1>2, <1>3, <1>4, <2>1 DEF SavePersistFails, BotInv, KnowsActor, In, Goes,
       Registered
  <2>4. ActorFollows(b)'
    BY SMTT(90), <1>1, <1>2, <1>3, <1>4, <2>1 DEF SavePersistFails, BotInv, ActorFollows, Fits, AtRest,
       KnowsActor, In, Goes, Steers, Now, Registered
  <2>5. FilesFollow(b)'
    BY <1>1, <1>2, <1>3, <1>4, <2>1 DEF SavePersistFails, BotInv, FilesFollow, KnowsActor, In,
       Goes, Registered
  <2>6. ClosingFollows(b)'
    BY <1>2, <2>1
  <2> QED
    BY <2>2, <2>3, <2>4, <2>5, <2>6 DEF BotInv
<1> QED
  BY <1>1, <1>5, <1>6, <1>7, <1>8, <1>9, TaskKeepsInv

\* Writing the derived files of a saved bot keeps the invariant.
LEMMA SaveRenderKeepsInv ==
    ASSUME RegistryInv, NEW t \in AllRequesters, SaveRender(t)
    PROVE  RegistryInv'
<1>1. PICK b : b = request[t].bot
  OBVIOUS
<1>2. request[t] # Asleep /\ request[t].op = "save" /\ request[t].at = "render"
  BY DEF SaveRender, Is, Asleep
<1>3. /\ request[t] \in Requests /\ b \in BotIds /\ request[t].actor \in 0 .. MaxActors
      /\ SoundRequest(t) /\ RegistryTypes
  BY <1>1, <1>2, RequestHasBot DEF RegistryInv, RequestsAreSound
<1>4. /\ request' \in [AllRequesters -> Requests \cup {Asleep}]
      /\ \A u \in AllRequesters \ {t} : request'[u] = request[u]
      /\ Goes(t, "actor")
  BY <1>2, RequestSteps, RequestFinishes DEF SaveRender, StepIf, AnyStep
<1>5. TaskStep(t)
  BY <1>1, <1>2, <1>4 DEF SaveRender, TaskStep, Goes
<1>6. RegistryTypes'
  BY <1>1, <1>3, <1>4 DEF SaveRender, RegistryTypes
<1>7. RequestsAreSound'
  BY <1>2, <1>3, <1>4, <1>5, RequestsStaySound DEF SoundRequest, Goes
<1>8. RoomIsKept'
  BY <1>3, <1>4, RoomStays DEF SaveRender, AllRequesters, Goes, Asleep, RegistryTypes
<1>9. ASSUME Clean(b)' PROVE BotInv(b)'
  <2>1. /\ BotInv(b) /\ t \in OnBot(b)
        /\ OnBot(b)' = IF request'[t] = Asleep THEN OnBot(b) \ {t} ELSE OnBot(b)
        /\ \A u \in OnBot(b) : u # t => request'[u] = request[u]
        /\ \A u \in OnBot(b) : u # t => Tolerated(b, request[t].op, request[u].op) /\ ~(Steers(t) /\ Steers(u))
        /\ request[t].op # "stop" => ClosingFollows(b)'
    BY <1>1, <1>5, <1>9, OwnBot
  <2>2. OneSteers(b)'
    BY <1>1, <1>2, <1>4, <1>5, <1>9, <2>1, OneStillSteers DEF SaveRender, Registered, Steers,
       In, Goes
  <2>3. KnowsActor(b)'
    BY <1>1, <1>2, <1>3, <1>4, <2>1 DEF SaveRender, BotInv, KnowsActor, In, Goes, Registered
  <2>4. ActorFollows(b)'
    BY SMTT(90), <1>1, <1>2, <1>3, <1>4, <2>1 DEF SaveRender, BotInv, ActorFollows, Fits, AtRest,
       KnowsActor, In, Goes, Steers, Now, Registered
  <2>5. FilesFollow(b)'
    BY <1>1, <1>2, <1>3, <1>4, <2>1 DEF SaveRender, BotInv, FilesFollow, KnowsActor, In, Goes,
       Registered
  <2>6. ClosingFollows(b)'
    BY <1>2, <2>1
  <2> QED
    BY <2>2, <2>3, <2>4, <2>5, <2>6 DEF BotInv
<1> QED
  BY <1>1, <1>5, <1>6, <1>7, <1>8, <1>9, TaskKeepsInv

\* A save that could not write the derived files is noted.
LEMMA SaveRenderFailsKeepsInv ==
    ASSUME RegistryInv, NEW t \in AllRequesters, SaveRenderFails(t)
    PROVE  RegistryInv'
<1>1. PICK b : b = request[t].bot
  OBVIOUS
<1>2. request[t] # Asleep /\ request[t].op = "save" /\ request[t].at = "render"
  BY DEF SaveRenderFails, Is, Asleep
<1>3. /\ request[t] \in Requests /\ b \in BotIds /\ request[t].actor \in 0 .. MaxActors
      /\ SoundRequest(t) /\ RegistryTypes
  BY <1>1, <1>2, RequestHasBot DEF RegistryInv, RequestsAreSound
<1>4. /\ request' \in [AllRequesters -> Requests \cup {Asleep}]
      /\ \A u \in AllRequesters \ {t} : request'[u] = request[u]
      /\ request'[t] = Asleep
  BY <1>2, RequestSteps, RequestFinishes DEF SaveRenderFails, StepIf, AnyStep
<1>5. TaskStep(t)
  BY <1>1, <1>2, <1>4 DEF SaveRenderFails, TaskStep, Goes
<1>6. RegistryTypes'
  BY <1>1, <1>3, <1>4 DEF SaveRenderFails, RegistryTypes
<1>7. RequestsAreSound'
  BY <1>2, <1>3, <1>4, <1>5, RequestsStaySound DEF SoundRequest, Goes
<1>8. RoomIsKept'
  BY SMTT(30), <1>3, <1>4, RoomStays DEF SaveRenderFails, AllRequesters, Goes, Asleep, RegistryTypes
<1>9. ~Clean(b)'
  BY <1>1 DEF SaveRenderFails, Clean
<1> QED
  BY <1>1, <1>5, <1>6, <1>7, <1>8, <1>9, TaskKeepsInv

\* Reading the configuration for a start keeps the invariant.
LEMMA StartConfigKeepsInv ==
    ASSUME RegistryInv, NEW t \in AllRequesters, StartConfig(t)
    PROVE  RegistryInv'
<1>1. PICK b : b = request[t].bot
  OBVIOUS
<1>2. request[t] # Asleep /\ request[t].op = "start" /\ request[t].at = "config"
  BY DEF StartConfig, Is, Asleep
<1>3. /\ request[t] \in Requests /\ b \in BotIds /\ request[t].actor \in 0 .. MaxActors
      /\ SoundRequest(t) /\ RegistryTypes
  BY <1>1, <1>2, RequestHasBot DEF RegistryInv, RequestsAreSound
<1>4. /\ request' \in [AllRequesters -> Requests \cup {Asleep}]
      /\ \A u \in AllRequesters \ {t} : request'[u] = request[u]
      /\ Goes(t, "render") \/ request'[t] = Asleep
  BY <1>2, RequestSteps, RequestFinishes DEF StartConfig, StepIf, AnyStep
<1>5. TaskStep(t)
  BY <1>1, <1>2, <1>4 DEF StartConfig, TaskStep, Goes
<1>6. RegistryTypes'
  BY <1>1, <1>3, <1>4 DEF StartConfig, RegistryTypes
<1>7. RequestsAreSound'
  BY <1>2, <1>3, <1>4, <1>5, RequestsStaySound DEF SoundRequest, Goes
<1>8. RoomIsKept'
  BY SMTT(30), <1>3, <1>4, RoomStays DEF StartConfig, AllRequesters, Goes, Asleep, RegistryTypes
<1>9. ASSUME Clean(b)' PROVE BotInv(b)'
  <2>1. /\ BotInv(b) /\ t \in OnBot(b)
        /\ OnBot(b)' = IF request'[t] = Asleep THEN OnBot(b) \ {t} ELSE OnBot(b)
        /\ \A u \in OnBot(b) : u # t => request'[u] = request[u]
        /\ \A u \in OnBot(b) : u # t => Tolerated(b, request[t].op, request[u].op) /\ ~(Steers(t) /\ Steers(u))
        /\ request[t].op # "stop" => ClosingFollows(b)'
    BY <1>1, <1>5, <1>9, OwnBot
  <2>2. OneSteers(b)'
    BY <1>1, <1>2, <1>4, <1>5, <1>9, <2>1, OneStillSteers DEF StartConfig, Registered, Steers,
       In, Goes
  <2>3. KnowsActor(b)'
    BY <1>1, <1>2, <1>3, <1>4, <2>1 DEF StartConfig, BotInv, KnowsActor, In, Goes, Registered
  <2>4. ActorFollows(b)'
    <3>1. table' = table /\ actors' = actors /\ launched' = launched
      BY DEF StartConfig
    <3>2. ~Steers(t) /\ (request'[t] # Asleep => ~Steers(t)' /\ Fits(t, b)')
      BY <1>2, <1>4 DEF Steers, In, Goes, Fits
    <3>3. \A u \in OnBot(b) : u # t => (Steers(u)' <=> Steers(u)) /\ (Fits(u, b)' <=> Fits(u, b))
      BY <2>1, <3>1 DEF Steers, In, Fits, Now
    <3>4. /\ b \in Registered' <=> b \in Registered
          /\ AtRest(b)' <=> AtRest(b)
      BY <3>1 DEF Registered, AtRest, Now
    <3> QED
      BY <2>1, <3>1, <3>2, <3>3, <3>4 DEF BotInv, ActorFollows
  <2>5. FilesFollow(b)'
    BY <1>1, <1>2, <1>3, <1>4, <2>1 DEF StartConfig, BotInv, FilesFollow, KnowsActor, In, Goes,
       Registered
  <2>6. ClosingFollows(b)'
    BY <1>2, <2>1
  <2> QED
    BY <2>2, <2>3, <2>4, <2>5, <2>6 DEF BotInv
<1> QED
  BY <1>1, <1>5, <1>6, <1>7, <1>8, <1>9, TaskKeepsInv

\* A start writes derived files for a saved bot only.
LEMMA StartRenderKeepsInv ==
    ASSUME RegistryInv, NEW t \in AllRequesters, StartRender(t)
    PROVE  RegistryInv'
<1>1. PICK b : b = request[t].bot
  OBVIOUS
<1>2. request[t] # Asleep /\ request[t].op = "start" /\ request[t].at = "render"
  BY DEF StartRender, Is, Asleep
<1>3. /\ request[t] \in Requests /\ b \in BotIds /\ request[t].actor \in 0 .. MaxActors
      /\ SoundRequest(t) /\ RegistryTypes
  BY <1>1, <1>2, RequestHasBot DEF RegistryInv, RequestsAreSound
<1>4. /\ request' \in [AllRequesters -> Requests \cup {Asleep}]
      /\ \A u \in AllRequesters \ {t} : request'[u] = request[u]
      /\ Goes(t, "request")
  BY <1>2, RequestSteps, RequestFinishes DEF StartRender, StepIf, AnyStep
<1>5. TaskStep(t)
  BY <1>1, <1>2, <1>4 DEF StartRender, TaskStep, Goes
<1>6. RegistryTypes'
  BY <1>1, <1>3, <1>4 DEF StartRender, RegistryTypes
<1>7. RequestsAreSound'
  BY <1>2, <1>3, <1>4, <1>5, RequestsStaySound DEF SoundRequest, Goes
<1>8. RoomIsKept'
  BY <1>3, <1>4, RoomStays DEF StartRender, AllRequesters, Goes, Asleep, RegistryTypes
<1>9. ASSUME Clean(b)' PROVE BotInv(b)'
  <2>1. /\ BotInv(b) /\ t \in OnBot(b)
        /\ OnBot(b)' = IF request'[t] = Asleep THEN OnBot(b) \ {t} ELSE OnBot(b)
        /\ \A u \in OnBot(b) : u # t => request'[u] = request[u]
        /\ \A u \in OnBot(b) : u # t => Tolerated(b, request[t].op, request[u].op) /\ ~(Steers(t) /\ Steers(u))
        /\ request[t].op # "stop" => ClosingFollows(b)'
    BY <1>1, <1>5, <1>9, OwnBot
  <2>2. OneSteers(b)'
    BY <1>1, <1>2, <1>4, <1>5, <1>9, <2>1, OneStillSteers DEF StartRender, Registered, Steers,
       In, Goes
  <2>3. KnowsActor(b)'
    BY <1>1, <1>2, <1>3, <1>4, <2>1 DEF StartRender, BotInv, KnowsActor, In, Goes, Registered
  <2>4. ActorFollows(b)'
    BY SMTT(90), <1>1, <1>2, <1>3, <1>4, <2>1 DEF StartRender, BotInv, ActorFollows, Fits, AtRest,
       KnowsActor, In, Goes, Steers, Now, Registered
  <2>5. FilesFollow(b)'
    <3>1. \A u \in OnBot(b) : request[u].op # "delete"
      BY <1>2, <2>1 DEF Tolerated
    <3>2. b \in Registered
      BY <1>1, <1>2, <1>3, <2>1 DEF BotInv, KnowsActor, SoundRequest, Registered
    <3>3. b \in saved /\ \A u \in OnBot(b) : request'[u].op # "delete"
      BY <1>2, <1>4, <2>1, <3>1, <3>2 DEF BotInv, FilesFollow, In, Goes
    <3>4. OnBot(b)' = OnBot(b) /\ saved' = saved /\ table' = table
      BY <1>4, <2>1 DEF StartRender, Goes
    <3>5. b \in Registered'
      BY <3>2, <3>4 DEF Registered
    <3> QED
      BY <2>1, <3>3, <3>4, <3>5 DEF FilesFollow, In
  <2>6. ClosingFollows(b)'
    BY <1>2, <2>1
  <2> QED
    BY <2>2, <2>3, <2>4, <2>5, <2>6 DEF BotInv
<1> QED
  BY <1>1, <1>5, <1>6, <1>7, <1>8, <1>9, TaskKeepsInv

\* A start that gets its actor from Stopped or Crashed to Starting steers alone.
LEMMA StartRequestKeepsInv ==
    ASSUME RegistryInv, NEW t \in AllRequesters, StartRequest(t)
    PROVE  RegistryInv'
<1>1. PICK b : b = request[t].bot
  OBVIOUS
<1>2. request[t] # Asleep /\ request[t].op = "start" /\ request[t].at = "request"
  BY DEF StartRequest, Is, Asleep
<1>3. /\ request[t] \in Requests /\ b \in BotIds /\ request[t].actor \in 0 .. MaxActors
      /\ SoundRequest(t) /\ RegistryTypes
  BY <1>1, <1>2, RequestHasBot DEF RegistryInv, RequestsAreSound
<1>4. /\ request' \in [AllRequesters -> Requests \cup {Asleep}]
      /\ \A u \in AllRequesters \ {t} : request'[u] = request[u]
      /\ Goes(t, "launch") \/ request'[t] = Asleep
  BY <1>2, RequestSteps, RequestFinishes DEF StartRequest, StepIf, AnyStep
<1>t. /\ actors' \in [BotIds -> [1 .. MaxActors -> ActorState]]
      /\ \A c \in BotIds \ {b} : actors'[c] = actors[c]
      /\ Tell(t, "request_start") /\ Actor(t) \in {"Stopped", "Crashed"} =>
            actors'[b][request[t].actor] = Told("request_start", actors[b][request[t].actor])
      /\ request[t].actor # 0
  <2>1. request[t].actor # 0
    BY <1>2, <1>3 DEF SoundRequest
  <2>2. CASE Tell(t, "request_start") /\ Actor(t) \in {"Stopped", "Crashed"}
    BY <1>1, <1>2, <2>1, <2>2, TellChanges DEF Actor
  <2>3. CASE ~(Tell(t, "request_start") /\ Actor(t) \in {"Stopped", "Crashed"})
    BY <1>3, <2>1, <2>3 DEF StartRequest, RegistryTypes
  <2> QED
    BY <2>2, <2>3
<1>5. TaskStep(t)
  BY <1>1, <1>2, <1>4, <1>t DEF StartRequest, TaskStep, Goes
<1>6. RegistryTypes'
  BY <1>1, <1>3, <1>4, <1>t DEF StartRequest, RegistryTypes
<1>7. RequestsAreSound'
  BY <1>2, <1>3, <1>4, <1>5, RequestsStaySound DEF SoundRequest, Goes
<1>8. RoomIsKept'
  BY <1>3, <1>4, RoomStays DEF StartRequest, AllRequesters, Goes, Asleep, RegistryTypes
<1>9. ASSUME Clean(b)' PROVE BotInv(b)'
  <2>1. /\ BotInv(b) /\ t \in OnBot(b)
        /\ OnBot(b)' = IF request'[t] = Asleep THEN OnBot(b) \ {t} ELSE OnBot(b)
        /\ \A u \in OnBot(b) : u # t => request'[u] = request[u]
        /\ \A u \in OnBot(b) : u # t => Tolerated(b, request[t].op, request[u].op) /\ ~(Steers(t) /\ Steers(u))
        /\ request[t].op # "stop" => ClosingFollows(b)'
    BY <1>1, <1>5, <1>9, OwnBot
  <2>r. b \in Registered /\ request[t].actor = table[b] /\ Actor(t) = Now(b) /\ Fits(t, b)
    BY <1>1, <1>2, <1>3, <2>1 DEF BotInv, KnowsActor, SoundRequest, Registered, Actor, Now, In,
       ActorFollows
  <2>n. Now(b) \in {"Stopped", "Crashed"} => \A u \in OnBot(b) : u # t => ~Steers(u)
    BY <1>2, <2>1, <2>r DEF BotInv, ActorFollows, Fits, Steers, In, Tolerated
  <2>2. OneSteers(b)'
    <3>1. table' = table
      BY DEF StartRequest
    <3>2. Now(b) \notin {"Stopped", "Crashed"} => request'[t] = Asleep
      BY <1>4, <2>r, RequestFinishes DEF StartRequest
    <3> QED
      BY <1>1, <1>5, <1>9, <2>n, <3>1, <3>2, OneStillSteers DEF Registered
  <2>3. KnowsActor(b)'
    BY <1>1, <1>2, <1>3, <1>4, <2>1 DEF StartRequest, BotInv, KnowsActor, In, Goes, Registered
  <2>4. ActorFollows(b)'
    <3>0. table' = table /\ launched' = launched /\ b \in Registered'
      BY <2>r DEF StartRequest, Registered
    <3>1. CASE Now(b) \in {"Stopped", "Crashed"}
      <4>1. Tell(t, "request_start") /\ Step(t, "launch")
        BY <2>r, <3>1 DEF StartRequest
      <4>2. Goes(t, "launch")
        BY <1>2, <4>1, RequestSteps DEF AnyStep
      <4>3. Now(b)' = "Starting"
        BY <1>t, <2>r, <3>0, <3>1, <4>1, ToldIs DEF Now
      <4>4. b \notin launched
        <5>1. \A u \in OnBot(b) : ~Steers(u)
          BY <1>2, <2>n, <3>1 DEF Steers, In
        <5> QED
          BY <2>1, <2>r, <3>1, <5>1 DEF BotInv, ActorFollows, AtRest
      <4>5. Fits(t, b)' /\ Steers(t)' /\ request'[t] # Asleep
        BY <1>2, <3>0, <4>2, <4>3, <4>4 DEF Fits, Steers, In, Goes
      <4> QED
        BY <1>1, <1>5, <1>9, <2>n, <3>0, <3>1, <4>5, ActorMoves
    <3>2. CASE Now(b) \notin {"Stopped", "Crashed"}
      <4>1. actors' = actors /\ request'[t] = Asleep
        BY <2>r, <3>2, RequestFinishes DEF StartRequest
      <4>2. Now(b)' = Now(b) /\ OnBot(b)' = OnBot(b) \ {t} /\ ~Steers(t)
        BY <1>2, <2>1, <3>0, <4>1 DEF Now, Steers, In
      <4> QED
        BY <2>1, <2>r, <3>0, <4>2 DEF BotInv, ActorFollows, Fits, AtRest, Steers, In
    <3> QED
      BY <3>1, <3>2
  <2>5. FilesFollow(b)'
    BY <1>1, <1>2, <1>3, <1>4, <2>1 DEF StartRequest, BotInv, FilesFollow, KnowsActor, In,
       Goes, Registered
  <2>6. ClosingFollows(b)'
    BY <1>2, <2>1
  <2> QED
    BY <2>2, <2>3, <2>4, <2>5, <2>6 DEF BotInv
<1> QED
  BY <1>1, <1>5, <1>6, <1>7, <1>8, <1>9, TaskKeepsInv

\* The launch of a bot whose actor says Starting keeps the invariant.
LEMMA StartLaunchKeepsInv ==
    ASSUME RegistryInv, NEW t \in AllRequesters, StartLaunch(t)
    PROVE  RegistryInv'
<1>1. PICK b : b = request[t].bot
  OBVIOUS
<1>2. request[t] # Asleep /\ request[t].op = "start" /\ request[t].at = "launch"
  BY DEF StartLaunch, Is, Asleep
<1>3. /\ request[t] \in Requests /\ b \in BotIds /\ request[t].actor \in 0 .. MaxActors
      /\ SoundRequest(t) /\ RegistryTypes
  BY <1>1, <1>2, RequestHasBot DEF RegistryInv, RequestsAreSound
<1>4. /\ request' \in [AllRequesters -> Requests \cup {Asleep}]
      /\ \A u \in AllRequesters \ {t} : request'[u] = request[u]
      /\ Goes(t, "confirm") \/ request'[t] = Asleep
  BY <1>2, RequestSteps, RequestFinishes DEF StartLaunch, StepIf, AnyStep
<1>5. TaskStep(t)
  BY <1>1, <1>2, <1>4 DEF StartLaunch, TaskStep, Goes
<1>6. RegistryTypes'
  BY <1>1, <1>3, <1>4 DEF StartLaunch, RegistryTypes
<1>7. RequestsAreSound'
  BY <1>2, <1>3, <1>4, <1>5, RequestsStaySound DEF SoundRequest, Goes
<1>8. RoomIsKept'
  BY <1>3, <1>4, RoomStays DEF StartLaunch, AllRequesters, Goes, Asleep, RegistryTypes
<1>9. ASSUME Clean(b)' PROVE BotInv(b)'
  <2>1. /\ BotInv(b) /\ t \in OnBot(b)
        /\ OnBot(b)' = IF request'[t] = Asleep THEN OnBot(b) \ {t} ELSE OnBot(b)
        /\ \A u \in OnBot(b) : u # t => request'[u] = request[u]
        /\ \A u \in OnBot(b) : u # t => Tolerated(b, request[t].op, request[u].op) /\ ~(Steers(t) /\ Steers(u))
        /\ request[t].op # "stop" => ClosingFollows(b)'
    BY <1>1, <1>5, <1>9, OwnBot
  <2>2. OneSteers(b)'
    BY <1>1, <1>2, <1>4, <1>5, <1>9, <2>1, OneStillSteers DEF StartLaunch, Registered, Steers,
       In, Goes
  <2>3. KnowsActor(b)'
    BY <1>1, <1>2, <1>3, <1>4, <2>1 DEF StartLaunch, BotInv, KnowsActor, In, Goes, Registered
  <2>r. b \in Registered /\ request[t].actor = table[b] /\ Actor(t) = Now(b) /\ Fits(t, b)
    BY <1>1, <1>2, <1>3, <2>1 DEF BotInv, KnowsActor, SoundRequest, Registered, Actor, Now, In,
       ActorFollows
  <2>4. ActorFollows(b)'
    <3>0. table' = table /\ b \in Registered' /\ \A u \in OnBot(b) : u # t => ~Steers(u)
      BY <1>2, <2>1, <2>r DEF StartLaunch, Registered, Steers, In, Tolerated
    <3>1. Now(b) = "Starting" /\ b \notin launched
      BY <1>2, <2>r DEF Fits, In
    <3>2. launched' = launched \cup {b} /\ actors' = actors /\ Step(t, "confirm")
      BY <1>1, <2>r, <3>1 DEF StartLaunch
    <3>3. Goes(t, "confirm")
      BY <1>2, <3>2, RequestSteps DEF AnyStep
    <3>4. Fits(t, b)' /\ Steers(t)' /\ request'[t] # Asleep
      BY <1>2, <3>0, <3>1, <3>2, <3>3 DEF Fits, Steers, In, Goes, Now
    <3> QED
      BY <1>1, <1>5, <1>9, <3>0, <3>4, ActorMoves
  <2>5. FilesFollow(b)'
    BY <1>1, <1>2, <1>3, <1>4, <2>1 DEF StartLaunch, BotInv, FilesFollow, KnowsActor, In, Goes,
       Registered
  <2>6. ClosingFollows(b)'
    BY <1>2, <2>1
  <2> QED
    BY <2>2, <2>3, <2>4, <2>5, <2>6 DEF BotInv
<1> QED
  BY <1>1, <1>5, <1>6, <1>7, <1>8, <1>9, TaskKeepsInv

\* A launch that failed leaves the actor Crashed and no process.
LEMMA StartLaunchFailsKeepsInv ==
    ASSUME RegistryInv, NEW t \in AllRequesters, StartLaunchFails(t)
    PROVE  RegistryInv'
<1>1. PICK b : b = request[t].bot
  OBVIOUS
<1>2. request[t] # Asleep /\ request[t].op = "start" /\ request[t].at = "launch"
  BY DEF StartLaunchFails, Is, Asleep
<1>3. /\ request[t] \in Requests /\ b \in BotIds /\ request[t].actor \in 0 .. MaxActors
      /\ SoundRequest(t) /\ RegistryTypes
  BY <1>1, <1>2, RequestHasBot DEF RegistryInv, RequestsAreSound
<1>4. /\ request' \in [AllRequesters -> Requests \cup {Asleep}]
      /\ \A u \in AllRequesters \ {t} : request'[u] = request[u]
      /\ request'[t] = Asleep
  BY <1>2, RequestSteps, RequestFinishes DEF StartLaunchFails, StepIf, AnyStep
<1>t. /\ actors' \in [BotIds -> [1 .. MaxActors -> ActorState]]
      /\ \A c \in BotIds \ {b} : actors'[c] = actors[c]
      /\ Tell(t, "mark_crashed") => actors'[b][request[t].actor] = Told("mark_crashed", actors[b][request[t].actor])
      /\ request[t].actor # 0
  <2>1. request[t].actor # 0
    BY <1>2, <1>3 DEF SoundRequest
  <2>2. CASE Tell(t, "mark_crashed")
    BY <1>1, <1>2, <2>1, <2>2, TellChanges DEF StartLaunchFails, Actor
  <2>3. CASE ~Tell(t, "mark_crashed")
    BY <1>3, <2>1, <2>3 DEF StartLaunchFails, RegistryTypes
  <2> QED
    BY <2>2, <2>3
<1>5. TaskStep(t)
  BY <1>1, <1>2, <1>4, <1>t DEF StartLaunchFails, TaskStep, Goes
<1>6. RegistryTypes'
  BY <1>1, <1>3, <1>4, <1>t DEF StartLaunchFails, RegistryTypes
<1>7. RequestsAreSound'
  BY <1>2, <1>3, <1>4, <1>5, RequestsStaySound DEF SoundRequest, Goes
<1>8. RoomIsKept'
  BY <1>3, <1>4, RoomStays DEF StartLaunchFails, AllRequesters, Goes, Asleep, RegistryTypes
<1>9. ASSUME Clean(b)' PROVE BotInv(b)'
  <2>1. /\ BotInv(b) /\ t \in OnBot(b)
        /\ OnBot(b)' = IF request'[t] = Asleep THEN OnBot(b) \ {t} ELSE OnBot(b)
        /\ \A u \in OnBot(b) : u # t => request'[u] = request[u]
        /\ \A u \in OnBot(b) : u # t => Tolerated(b, request[t].op, request[u].op) /\ ~(Steers(t) /\ Steers(u))
        /\ request[t].op # "stop" => ClosingFollows(b)'
    BY <1>1, <1>5, <1>9, OwnBot
  <2>2. OneSteers(b)'
    BY <1>1, <1>2, <1>4, <1>5, <1>9, <2>1, OneStillSteers DEF StartLaunchFails, Registered,
       Steers, In, Goes
  <2>3. KnowsActor(b)'
    BY <1>1, <1>2, <1>3, <1>4, <2>1 DEF StartLaunchFails, BotInv, KnowsActor, In, Goes,
       Registered
  <2>r. b \in Registered /\ request[t].actor = table[b] /\ Actor(t) = Now(b) /\ Fits(t, b)
    BY <1>1, <1>2, <1>3, <2>1 DEF BotInv, KnowsActor, SoundRequest, Registered, Actor, Now, In,
       ActorFollows
  <2>4. ActorFollows(b)'
    <3>0. table' = table /\ b \in Registered' /\ \A u \in OnBot(b) : u # t => ~Steers(u)
      BY <1>2, <2>1, <2>r DEF StartLaunchFails, Registered, Steers, In, Tolerated
    <3>1. Now(b) = "Starting" /\ b \notin launched
      BY <1>2, <2>r DEF Fits, In
    <3>2. launched' = launched /\ Tell(t, "mark_crashed") /\ request'[t] = Asleep
      BY <1>4, <2>r, <3>1, ToldIs, RequestFinishes DEF StartLaunchFails
    <3>3. Now(b)' = "Crashed"
      BY <1>t, <2>r, <3>0, <3>1, <3>2, ToldIs DEF Now
    <3>4. AtRest(b)'
      BY <3>1, <3>2, <3>3 DEF AtRest
    <3> QED
      BY <1>1, <1>5, <1>9, <3>0, <3>2, <3>4, ActorMoves
  <2>5. FilesFollow(b)'
    BY <1>1, <1>2, <1>3, <1>4, <2>1 DEF StartLaunchFails, BotInv, FilesFollow, KnowsActor, In,
       Goes, Registered
  <2>6. ClosingFollows(b)'
    BY <1>2, <2>1
  <2> QED
    BY <2>2, <2>3, <2>4, <2>5, <2>6 DEF BotInv
<1> QED
  BY <1>1, <1>5, <1>6, <1>7, <1>8, <1>9, TaskKeepsInv

\* A confirmed launch leaves the actor Running with its process.
LEMMA StartConfirmKeepsInv ==
    ASSUME RegistryInv, NEW t \in AllRequesters, StartConfirm(t)
    PROVE  RegistryInv'
<1>1. PICK b : b = request[t].bot
  OBVIOUS
<1>2. request[t] # Asleep /\ request[t].op = "start" /\ request[t].at = "confirm"
  BY DEF StartConfirm, Is, Asleep
<1>3. /\ request[t] \in Requests /\ b \in BotIds /\ request[t].actor \in 0 .. MaxActors
      /\ SoundRequest(t) /\ RegistryTypes
  BY <1>1, <1>2, RequestHasBot DEF RegistryInv, RequestsAreSound
<1>4. /\ request' \in [AllRequesters -> Requests \cup {Asleep}]
      /\ \A u \in AllRequesters \ {t} : request'[u] = request[u]
      /\ request'[t] = Asleep
  BY <1>2, RequestSteps, RequestFinishes DEF StartConfirm, StepIf, AnyStep
<1>t. /\ actors' \in [BotIds -> [1 .. MaxActors -> ActorState]]
      /\ \A c \in BotIds \ {b} : actors'[c] = actors[c]
      /\ Tell(t, "confirm_running") => actors'[b][request[t].actor] = Told("confirm_running", actors[b][request[t].actor])
      /\ request[t].actor # 0
  <2>1. request[t].actor # 0
    BY <1>2, <1>3 DEF SoundRequest
  <2>2. CASE Tell(t, "confirm_running")
    BY <1>1, <1>2, <2>1, <2>2, TellChanges DEF StartConfirm, Actor
  <2>3. CASE ~Tell(t, "confirm_running")
    BY <1>3, <2>1, <2>3 DEF StartConfirm, RegistryTypes
  <2> QED
    BY <2>2, <2>3
<1>5. TaskStep(t)
  BY <1>1, <1>2, <1>4, <1>t DEF StartConfirm, TaskStep, Goes
<1>6. RegistryTypes'
  BY <1>1, <1>3, <1>4, <1>t DEF StartConfirm, RegistryTypes
<1>7. RequestsAreSound'
  BY <1>2, <1>3, <1>4, <1>5, RequestsStaySound DEF SoundRequest, Goes
<1>8. RoomIsKept'
  BY <1>3, <1>4, RoomStays DEF StartConfirm, AllRequesters, Goes, Asleep, RegistryTypes
<1>9. ASSUME Clean(b)' PROVE BotInv(b)'
  <2>1. /\ BotInv(b) /\ t \in OnBot(b)
        /\ OnBot(b)' = IF request'[t] = Asleep THEN OnBot(b) \ {t} ELSE OnBot(b)
        /\ \A u \in OnBot(b) : u # t => request'[u] = request[u]
        /\ \A u \in OnBot(b) : u # t => Tolerated(b, request[t].op, request[u].op) /\ ~(Steers(t) /\ Steers(u))
        /\ request[t].op # "stop" => ClosingFollows(b)'
    BY <1>1, <1>5, <1>9, OwnBot
  <2>2. OneSteers(b)'
    BY <1>1, <1>2, <1>4, <1>5, <1>9, <2>1, OneStillSteers DEF StartConfirm, Registered, Steers,
       In, Goes
  <2>3. KnowsActor(b)'
    BY <1>1, <1>2, <1>3, <1>4, <2>1 DEF StartConfirm, BotInv, KnowsActor, In, Goes, Registered
  <2>r. b \in Registered /\ request[t].actor = table[b] /\ Actor(t) = Now(b) /\ Fits(t, b)
    BY <1>1, <1>2, <1>3, <2>1 DEF BotInv, KnowsActor, SoundRequest, Registered, Actor, Now, In,
       ActorFollows
  <2>4. ActorFollows(b)'
    <3>0. table' = table /\ b \in Registered' /\ \A u \in OnBot(b) : u # t => ~Steers(u)
      BY <1>2, <2>1, <2>r DEF StartConfirm, Registered, Steers, In, Tolerated
    <3>1. Now(b) = "Starting" /\ b \in launched
      BY <1>2, <2>r DEF Fits, In
    <3>2. launched' = launched /\ Tell(t, "confirm_running") /\ request'[t] = Asleep
      BY <1>4, <2>r, <3>1, ToldIs, RequestFinishes DEF StartConfirm
    <3>3. Now(b)' = "Running"
      BY <1>t, <2>r, <3>0, <3>1, <3>2, ToldIs DEF Now
    <3>4. AtRest(b)'
      BY <3>1, <3>2, <3>3 DEF AtRest
    <3> QED
      BY <1>1, <1>5, <1>9, <3>0, <3>2, <3>4, ActorMoves
  <2>5. FilesFollow(b)'
    BY <1>1, <1>2, <1>3, <1>4, <2>1 DEF StartConfirm, BotInv, FilesFollow, KnowsActor, In,
       Goes, Registered
  <2>6. ClosingFollows(b)'
    BY <1>2, <2>1
  <2> QED
    BY <2>2, <2>3, <2>4, <2>5, <2>6 DEF BotInv
<1> QED
  BY <1>1, <1>5, <1>6, <1>7, <1>8, <1>9, TaskKeepsInv

\* A stop that asked the actor to stop steers alone.
LEMMA StopRequestKeepsInv ==
    ASSUME RegistryInv, NEW t \in AllRequesters, StopRequest(t)
    PROVE  RegistryInv'
<1>1. PICK b : b = request[t].bot
  OBVIOUS
<1>2. request[t] # Asleep /\ request[t].op = "stop" /\ request[t].at = "request"
  BY DEF StopRequest, Is, Asleep
<1>3. /\ request[t] \in Requests /\ b \in BotIds /\ request[t].actor \in 0 .. MaxActors
      /\ SoundRequest(t) /\ RegistryTypes
  BY <1>1, <1>2, RequestHasBot DEF RegistryInv, RequestsAreSound
<1>4. /\ request' \in [AllRequesters -> Requests \cup {Asleep}]
      /\ \A u \in AllRequesters \ {t} : request'[u] = request[u]
      /\ Goes(t, "backend") \/ request'[t] = Asleep
  BY <1>2, RequestSteps, RequestFinishes DEF StopRequest, StepIf, AnyStep
<1>t. /\ actors' \in [BotIds -> [1 .. MaxActors -> ActorState]]
      /\ \A c \in BotIds \ {b} : actors'[c] = actors[c]
      /\ Tell(t, "request_stop") => actors'[b][request[t].actor] = Told("request_stop", actors[b][request[t].actor])
      /\ request[t].actor # 0
  <2>1. request[t].actor # 0
    BY <1>2, <1>3 DEF SoundRequest
  <2>2. CASE Tell(t, "request_stop")
    BY <1>1, <1>2, <2>1, <2>2, TellChanges DEF StopRequest, Actor
  <2>3. CASE ~Tell(t, "request_stop")
    BY <1>3, <2>1, <2>3 DEF StopRequest, RegistryTypes
  <2> QED
    BY <2>2, <2>3
<1>5. TaskStep(t)
  BY <1>1, <1>2, <1>4, <1>t DEF StopRequest, TaskStep, Goes
<1>6. RegistryTypes'
  BY <1>1, <1>3, <1>4, <1>t DEF StopRequest, RegistryTypes
<1>7. RequestsAreSound'
  BY <1>2, <1>3, <1>4, <1>5, RequestsStaySound DEF SoundRequest, Goes
<1>8. RoomIsKept'
  BY <1>3, <1>4, RoomStays DEF StopRequest, AllRequesters, Goes, Asleep, RegistryTypes
<1>9. ASSUME Clean(b)' PROVE BotInv(b)'
  <2>1. /\ BotInv(b) /\ t \in OnBot(b)
        /\ OnBot(b)' = IF request'[t] = Asleep THEN OnBot(b) \ {t} ELSE OnBot(b)
        /\ \A u \in OnBot(b) : u # t => request'[u] = request[u]
        /\ \A u \in OnBot(b) : u # t => Tolerated(b, request[t].op, request[u].op) /\ ~(Steers(t) /\ Steers(u))
        /\ request[t].op # "stop" => ClosingFollows(b)'
    BY <1>1, <1>5, <1>9, OwnBot
  <2>r. b \in Registered /\ request[t].actor = table[b] /\ Actor(t) = Now(b) /\ Fits(t, b)
    BY <1>1, <1>2, <1>3, <2>1 DEF BotInv, KnowsActor, SoundRequest, Registered, Actor, Now, In,
       ActorFollows
  <2>n. (\A u \in OnBot(b) : ~Steers(u)) /\ AtRest(b)
    <3>1. \A u \in OnBot(b) : ~Steers(u)
      BY <1>2, <2>1, <2>r DEF Steers, In, Tolerated
    <3> QED
      BY <2>1, <2>r, <3>1 DEF BotInv, ActorFollows
  <2>s. table' = table /\ launched' = launched /\ Tell(t, "request_stop") /\ Goes(t, "backend")
    <3>1. Tell(t, "request_stop") /\ Step(t, "backend")
      BY <2>r, <2>n DEF StopRequest, AtRest
    <3> QED
      BY <1>2, <3>1, RequestSteps DEF StopRequest, AnyStep
  <2>m. Now(b)' = IF Now(b) = "Running" THEN "Stopping" ELSE Now(b)
    BY <1>t, <2>r, <2>n, <2>s, ToldIs DEF Now, AtRest
  <2>2. OneSteers(b)'
    BY <1>1, <1>5, <1>9, <2>n, <2>s, OneStillSteers DEF Registered
  <2>3. KnowsActor(b)'
    BY <1>1, <1>2, <1>3, <1>4, <2>1 DEF StopRequest, BotInv, KnowsActor, In, Goes, Registered
  <2>4. ActorFollows(b)'
    <3>1. Fits(t, b)' /\ Steers(t)' /\ request'[t] # Asleep
      BY <1>2, <2>n, <2>s, <2>m DEF Fits, Steers, In, Goes, AtRest
    <3>2. b \in Registered'
      BY <2>r, <2>s DEF Registered
    <3> QED
      BY <1>1, <1>5, <1>9, <2>n, <3>1, <3>2, ActorMoves
  <2>5. FilesFollow(b)'
    BY <1>1, <1>2, <1>3, <1>4, <2>1 DEF StopRequest, BotInv, FilesFollow, KnowsActor, In, Goes,
       Registered
  <2>6. ClosingFollows(b)'
    <3>1. Now(b)' # "Running" /\ closing' = closing
      BY <2>n, <2>m DEF AtRest, StopRequest
    <3> QED
      BY <2>1, <3>1 DEF BotInv, ClosingFollows
  <2> QED
    BY <2>2, <2>3, <2>4, <2>5, <2>6 DEF BotInv
<1> QED
  BY <1>1, <1>5, <1>6, <1>7, <1>8, <1>9, TaskKeepsInv

\* The backend ends the process of a bot that is stopping.
LEMMA StopBackendKeepsInv ==
    ASSUME RegistryInv, NEW t \in AllRequesters, StopBackend(t)
    PROVE  RegistryInv'
<1>1. PICK b : b = request[t].bot
  OBVIOUS
<1>2. request[t] # Asleep /\ request[t].op = "stop" /\ request[t].at = "backend"
  BY DEF StopBackend, Is, Asleep
<1>3. /\ request[t] \in Requests /\ b \in BotIds /\ request[t].actor \in 0 .. MaxActors
      /\ SoundRequest(t) /\ RegistryTypes
  BY <1>1, <1>2, RequestHasBot DEF RegistryInv, RequestsAreSound
<1>4. /\ request' \in [AllRequesters -> Requests \cup {Asleep}]
      /\ \A u \in AllRequesters \ {t} : request'[u] = request[u]
      /\ Goes(t, "confirm") \/ request'[t] = Asleep
  BY <1>2, RequestSteps, RequestFinishes DEF StopBackend, StepIf, AnyStep
<1>5. TaskStep(t)
  BY <1>1, <1>2, <1>4 DEF StopBackend, TaskStep, Goes
<1>6. RegistryTypes'
  BY <1>1, <1>3, <1>4 DEF StopBackend, RegistryTypes
<1>7. RequestsAreSound'
  BY <1>2, <1>3, <1>4, <1>5, RequestsStaySound DEF SoundRequest, Goes
<1>8. RoomIsKept'
  BY <1>3, <1>4, RoomStays DEF StopBackend, AllRequesters, Goes, Asleep, RegistryTypes
<1>9. ASSUME Clean(b)' PROVE BotInv(b)'
  <2>1. /\ BotInv(b) /\ t \in OnBot(b)
        /\ OnBot(b)' = IF request'[t] = Asleep THEN OnBot(b) \ {t} ELSE OnBot(b)
        /\ \A u \in OnBot(b) : u # t => request'[u] = request[u]
        /\ \A u \in OnBot(b) : u # t => Tolerated(b, request[t].op, request[u].op) /\ ~(Steers(t) /\ Steers(u))
        /\ request[t].op # "stop" => ClosingFollows(b)'
    BY <1>1, <1>5, <1>9, OwnBot
  <2>2. OneSteers(b)'
    BY <1>1, <1>2, <1>4, <1>5, <1>9, <2>1, OneStillSteers DEF StopBackend, Registered, Steers,
       In, Goes
  <2>3. KnowsActor(b)'
    BY <1>1, <1>2, <1>3, <1>4, <2>1 DEF StopBackend, BotInv, KnowsActor, In, Goes, Registered
  <2>r. b \in Registered /\ request[t].actor = table[b] /\ Actor(t) = Now(b) /\ Fits(t, b)
    BY <1>1, <1>2, <1>3, <2>1 DEF BotInv, KnowsActor, SoundRequest, Registered, Actor, Now, In,
       ActorFollows
  <2>4. ActorFollows(b)'
    <3>0. table' = table /\ b \in Registered' /\ \A u \in OnBot(b) : u # t => ~Steers(u)
      BY <1>2, <2>1, <2>r DEF StopBackend, Registered, Steers, In, Tolerated
    <3>1. b \in saved
      <4>1. \A u \in OnBot(b) : request[u].op # "delete"
        BY <1>2, <2>1 DEF Tolerated
      <4> QED
        BY <2>1, <2>r, <4>1 DEF BotInv, FilesFollow, In
    <3>2. launched' = launched \ {b} /\ actors' = actors /\ Step(t, "confirm")
      BY <1>1, <3>1 DEF StopBackend
    <3>3. Goes(t, "confirm")
      BY <1>2, <3>2, RequestSteps DEF AnyStep
    <3>4. Now(b) \in {"Stopping", "Stopped", "Crashed"}
      BY <1>2, <2>r DEF Fits, In
    <3>5. Fits(t, b)' /\ Steers(t)' /\ request'[t] # Asleep
      BY <1>2, <3>0, <3>2, <3>3, <3>4 DEF Fits, Steers, In, Goes, Now
    <3> QED
      BY <1>1, <1>5, <1>9, <3>0, <3>5, ActorMoves
  <2>5. FilesFollow(b)'
    BY <1>1, <1>2, <1>3, <1>4, <2>1 DEF StopBackend, BotInv, FilesFollow, KnowsActor, In, Goes,
       Registered
  <2>6. ClosingFollows(b)'
    BY <1>1, <1>2, <1>3, <1>4, <2>1 DEF StopBackend, BotInv, ClosingFollows, KnowsActor,
       ActorFollows, Fits, In, Goes, Now, Registered
  <2> QED
    BY <2>2, <2>3, <2>4, <2>5, <2>6 DEF BotInv
<1> QED
  BY <1>1, <1>5, <1>6, <1>7, <1>8, <1>9, TaskKeepsInv

\* A stop whose backend failed is noted.
LEMMA StopBackendFailsKeepsInv ==
    ASSUME RegistryInv, NEW t \in AllRequesters, StopBackendFails(t)
    PROVE  RegistryInv'
<1>1. PICK b : b = request[t].bot
  OBVIOUS
<1>2. request[t] # Asleep /\ request[t].op = "stop" /\ request[t].at = "backend"
  BY DEF StopBackendFails, Is, Asleep
<1>3. /\ request[t] \in Requests /\ b \in BotIds /\ request[t].actor \in 0 .. MaxActors
      /\ SoundRequest(t) /\ RegistryTypes
  BY <1>1, <1>2, RequestHasBot DEF RegistryInv, RequestsAreSound
<1>4. /\ request' \in [AllRequesters -> Requests \cup {Asleep}]
      /\ \A u \in AllRequesters \ {t} : request'[u] = request[u]
      /\ request'[t] = Asleep
  BY <1>2, RequestSteps, RequestFinishes DEF StopBackendFails, StepIf, AnyStep
<1>t. /\ actors' \in [BotIds -> [1 .. MaxActors -> ActorState]]
      /\ \A c \in BotIds \ {b} : actors'[c] = actors[c]
      /\ Tell(t, "mark_crashed") => actors'[b][request[t].actor] = Told("mark_crashed", actors[b][request[t].actor])
      /\ request[t].actor # 0
  <2>1. request[t].actor # 0
    BY <1>2, <1>3 DEF SoundRequest
  <2>2. CASE Tell(t, "mark_crashed")
    BY <1>1, <1>2, <2>1, <2>2, TellChanges DEF StopBackendFails, Actor
  <2>3. CASE ~Tell(t, "mark_crashed")
    BY <1>3, <2>1, <2>3 DEF StopBackendFails, RegistryTypes
  <2> QED
    BY <2>2, <2>3
<1>5. TaskStep(t)
  BY <1>1, <1>2, <1>4, <1>t DEF StopBackendFails, TaskStep, Goes
<1>6. RegistryTypes'
  BY <1>1, <1>3, <1>4, <1>t DEF StopBackendFails, RegistryTypes
<1>7. RequestsAreSound'
  BY <1>2, <1>3, <1>4, <1>5, RequestsStaySound DEF SoundRequest, Goes
<1>8. RoomIsKept'
  BY <1>3, <1>4, RoomStays DEF StopBackendFails, AllRequesters, Goes, Asleep, RegistryTypes
<1>9. ~Clean(b)'
  BY <1>1 DEF StopBackendFails, Clean
<1> QED
  BY <1>1, <1>5, <1>6, <1>7, <1>8, <1>9, TaskKeepsInv

\* A confirmed stop leaves no process and no running actor.
LEMMA StopConfirmKeepsInv ==
    ASSUME RegistryInv, NEW t \in AllRequesters, StopConfirm(t)
    PROVE  RegistryInv'
<1>1. PICK b : b = request[t].bot
  OBVIOUS
<1>2. request[t] # Asleep /\ request[t].op = "stop" /\ request[t].at = "confirm"
  BY DEF StopConfirm, Is, Asleep
<1>3. /\ request[t] \in Requests /\ b \in BotIds /\ request[t].actor \in 0 .. MaxActors
      /\ SoundRequest(t) /\ RegistryTypes
  BY <1>1, <1>2, RequestHasBot DEF RegistryInv, RequestsAreSound
<1>4. /\ request' \in [AllRequesters -> Requests \cup {Asleep}]
      /\ \A u \in AllRequesters \ {t} : request'[u] = request[u]
      /\ request'[t] = Asleep
  BY <1>2, RequestSteps, RequestFinishes DEF StopConfirm, StepIf, AnyStep
<1>t. /\ actors' \in [BotIds -> [1 .. MaxActors -> ActorState]]
      /\ \A c \in BotIds \ {b} : actors'[c] = actors[c]
      /\ Tell(t, "confirm_stopped") => actors'[b][request[t].actor] = Told("confirm_stopped", actors[b][request[t].actor])
      /\ request[t].actor # 0
  <2>1. request[t].actor # 0
    BY <1>2, <1>3 DEF SoundRequest
  <2>2. CASE Tell(t, "confirm_stopped")
    BY <1>1, <1>2, <2>1, <2>2, TellChanges DEF StopConfirm, Actor
  <2>3. CASE ~Tell(t, "confirm_stopped")
    BY <1>3, <2>1, <2>3 DEF StopConfirm, RegistryTypes
  <2> QED
    BY <2>2, <2>3
<1>5. TaskStep(t)
  BY <1>1, <1>2, <1>4, <1>t DEF StopConfirm, TaskStep, Goes
<1>6. RegistryTypes'
  BY <1>1, <1>3, <1>4, <1>t DEF StopConfirm, RegistryTypes
<1>7. RequestsAreSound'
  BY <1>2, <1>3, <1>4, <1>5, RequestsStaySound DEF SoundRequest, Goes
<1>8. RoomIsKept'
  BY <1>3, <1>4, RoomStays DEF StopConfirm, AllRequesters, Goes, Asleep, RegistryTypes
<1>9. ASSUME Clean(b)' PROVE BotInv(b)'
  <2>1. /\ BotInv(b) /\ t \in OnBot(b)
        /\ OnBot(b)' = IF request'[t] = Asleep THEN OnBot(b) \ {t} ELSE OnBot(b)
        /\ \A u \in OnBot(b) : u # t => request'[u] = request[u]
        /\ \A u \in OnBot(b) : u # t => Tolerated(b, request[t].op, request[u].op) /\ ~(Steers(t) /\ Steers(u))
        /\ request[t].op # "stop" => ClosingFollows(b)'
    BY <1>1, <1>5, <1>9, OwnBot
  <2>2. OneSteers(b)'
    BY <1>1, <1>2, <1>4, <1>5, <1>9, <2>1, OneStillSteers DEF StopConfirm, Registered, Steers,
       In, Goes
  <2>3. KnowsActor(b)'
    BY <1>1, <1>2, <1>3, <1>4, <2>1 DEF StopConfirm, BotInv, KnowsActor, In, Goes, Registered
  <2>r. b \in Registered /\ request[t].actor = table[b] /\ Actor(t) = Now(b) /\ Fits(t, b)
    BY <1>1, <1>2, <1>3, <2>1 DEF BotInv, KnowsActor, SoundRequest, Registered, Actor, Now, In,
       ActorFollows
  <2>4. ActorFollows(b)'
    <3>0. table' = table /\ b \in Registered' /\ \A u \in OnBot(b) : u # t => ~Steers(u)
      BY <1>2, <2>1, <2>r DEF StopConfirm, Registered, Steers, In, Tolerated
    <3>1. Now(b) \in {"Stopping", "Stopped", "Crashed"} /\ b \notin launched
      BY <1>2, <2>r DEF Fits, In
    <3>2. launched' = launched /\ request'[t] = Asleep
      BY <1>4, RequestFinishes DEF StopConfirm
    <3>3. Now(b)' \in {"Stopped", "Crashed"}
      BY <1>t, <2>r, <3>0, <3>1, ToldIs DEF Now, StopConfirm
    <3>4. AtRest(b)'
      BY <3>1, <3>2, <3>3 DEF AtRest
    <3> QED
      BY <1>1, <1>5, <1>9, <3>0, <3>2, <3>4, ActorMoves
  <2>5. FilesFollow(b)'
    BY <1>1, <1>2, <1>3, <1>4, <2>1 DEF StopConfirm, BotInv, FilesFollow, KnowsActor, In, Goes,
       Registered
  <2>6. ClosingFollows(b)'
    <3>1. Now(b) \in {"Stopping", "Stopped", "Crashed"}
      BY <1>2, <2>r DEF Fits, In
    <3>2. Now(b)' # "Running"
      BY <1>t, <2>r, <3>1, ToldIs DEF Now, StopConfirm
    <3>3. closing' = closing
      BY DEF StopConfirm
    <3> QED
      BY <2>1, <3>2, <3>3 DEF BotInv, ClosingFollows
  <2> QED
    BY <2>2, <2>3, <2>4, <2>5, <2>6 DEF BotInv
<1> QED
  BY <1>1, <1>5, <1>6, <1>7, <1>8, <1>9, TaskKeepsInv

\* A deletion ends the process of its bot.
LEMMA DeleteBackendKeepsInv ==
    ASSUME RegistryInv, NEW t \in AllRequesters, DeleteBackend(t)
    PROVE  RegistryInv'
<1>1. PICK b : b = request[t].bot
  OBVIOUS
<1>2. request[t] # Asleep /\ request[t].op = "delete" /\ request[t].at = "backend"
  BY DEF DeleteBackend, Is, Asleep
<1>3. /\ request[t] \in Requests /\ b \in BotIds /\ request[t].actor \in 0 .. MaxActors
      /\ SoundRequest(t) /\ RegistryTypes
  BY <1>1, <1>2, RequestHasBot DEF RegistryInv, RequestsAreSound
<1>4. /\ request' \in [AllRequesters -> Requests \cup {Asleep}]
      /\ \A u \in AllRequesters \ {t} : request'[u] = request[u]
      /\ Goes(t, "confirm")
  BY <1>2, RequestSteps, RequestFinishes DEF DeleteBackend, StepIf, AnyStep
<1>5. TaskStep(t)
  BY <1>1, <1>2, <1>4 DEF DeleteBackend, TaskStep, Goes
<1>6. RegistryTypes'
  BY <1>1, <1>3, <1>4 DEF DeleteBackend, RegistryTypes
<1>7. RequestsAreSound'
  BY <1>2, <1>3, <1>4, <1>5, RequestsStaySound DEF SoundRequest, Goes
<1>8. RoomIsKept'
  BY <1>3, <1>4, RoomStays DEF DeleteBackend, AllRequesters, Goes, Asleep, RegistryTypes
<1>9. ASSUME Clean(b)' PROVE BotInv(b)'
  <2>1. /\ BotInv(b) /\ t \in OnBot(b)
        /\ OnBot(b)' = IF request'[t] = Asleep THEN OnBot(b) \ {t} ELSE OnBot(b)
        /\ \A u \in OnBot(b) : u # t => request'[u] = request[u]
        /\ \A u \in OnBot(b) : u # t => Tolerated(b, request[t].op, request[u].op) /\ ~(Steers(t) /\ Steers(u))
        /\ request[t].op # "stop" => ClosingFollows(b)'
    BY <1>1, <1>5, <1>9, OwnBot
  <2>2. OneSteers(b)'
    BY <1>1, <1>2, <1>4, <1>5, <1>9, <2>1, OneStillSteers DEF DeleteBackend, Registered,
       Steers, In, Goes
  <2>3. KnowsActor(b)'
    BY <1>1, <1>2, <1>3, <1>4, <2>1 DEF DeleteBackend, BotInv, KnowsActor, In, Goes, Registered
  <2>4. ActorFollows(b)'
    BY SMTT(90), <1>1, <1>2, <1>3, <1>4, <2>1 DEF DeleteBackend, BotInv, ActorFollows, Fits, AtRest,
       KnowsActor, In, Goes, Steers, Now, Registered
  <2>5. FilesFollow(b)'
    BY <1>1, <1>2, <1>3, <1>4, <2>1 DEF DeleteBackend, BotInv, FilesFollow, KnowsActor, In,
       Goes, Registered
  <2>6. ClosingFollows(b)'
    BY <1>2, <2>1
  <2> QED
    BY <2>2, <2>3, <2>4, <2>5, <2>6 DEF BotInv
<1> QED
  BY <1>1, <1>5, <1>6, <1>7, <1>8, <1>9, TaskKeepsInv

\* A deletion whose backend failed is noted.
LEMMA DeleteBackendFailsKeepsInv ==
    ASSUME RegistryInv, NEW t \in AllRequesters, DeleteBackendFails(t)
    PROVE  RegistryInv'
<1>1. PICK b : b = request[t].bot
  OBVIOUS
<1>2. request[t] # Asleep /\ request[t].op = "delete" /\ request[t].at = "backend"
  BY DEF DeleteBackendFails, Is, Asleep
<1>3. /\ request[t] \in Requests /\ b \in BotIds /\ request[t].actor \in 0 .. MaxActors
      /\ SoundRequest(t) /\ RegistryTypes
  BY <1>1, <1>2, RequestHasBot DEF RegistryInv, RequestsAreSound
<1>4. /\ request' \in [AllRequesters -> Requests \cup {Asleep}]
      /\ \A u \in AllRequesters \ {t} : request'[u] = request[u]
      /\ request'[t] = Asleep
  BY <1>2, RequestSteps, RequestFinishes DEF DeleteBackendFails, StepIf, AnyStep
<1>5. TaskStep(t)
  BY <1>1, <1>2, <1>4 DEF DeleteBackendFails, TaskStep, Goes
<1>6. RegistryTypes'
  BY <1>1, <1>3, <1>4 DEF DeleteBackendFails, RegistryTypes
<1>7. RequestsAreSound'
  BY <1>2, <1>3, <1>4, <1>5, RequestsStaySound DEF SoundRequest, Goes
<1>8. RoomIsKept'
  BY <1>3, <1>4, RoomStays DEF DeleteBackendFails, AllRequesters, Goes, Asleep, RegistryTypes
<1>9. ~Clean(b)'
  BY <1>1 DEF DeleteBackendFails, Clean
<1> QED
  BY <1>1, <1>5, <1>6, <1>7, <1>8, <1>9, TaskKeepsInv

\* A deletion goes on with a stopped actor.
LEMMA DeleteConfirmKeepsInv ==
    ASSUME RegistryInv, NEW t \in AllRequesters, DeleteConfirm(t)
    PROVE  RegistryInv'
<1>1. PICK b : b = request[t].bot
  OBVIOUS
<1>2. request[t] # Asleep /\ request[t].op = "delete" /\ request[t].at = "confirm"
  BY DEF DeleteConfirm, Is, Asleep
<1>3. /\ request[t] \in Requests /\ b \in BotIds /\ request[t].actor \in 0 .. MaxActors
      /\ SoundRequest(t) /\ RegistryTypes
  BY <1>1, <1>2, RequestHasBot DEF RegistryInv, RequestsAreSound
<1>4. /\ request' \in [AllRequesters -> Requests \cup {Asleep}]
      /\ \A u \in AllRequesters \ {t} : request'[u] = request[u]
      /\ request'[t] = Asleep \/ Goes(t, "persist")
  BY <1>2, RequestSteps, RequestFinishes DEF DeleteConfirm, StepIf, AnyStep
<1>t. /\ actors' \in [BotIds -> [1 .. MaxActors -> ActorState]]
      /\ \A c \in BotIds \ {b} : actors'[c] = actors[c]
      /\ Tell(t, "confirm_stopped") => actors'[b][request[t].actor] = Told("confirm_stopped", actors[b][request[t].actor])
      /\ request[t].actor # 0
  <2>1. request[t].actor # 0
    BY <1>2, <1>3 DEF SoundRequest
  <2>2. CASE Tell(t, "confirm_stopped")
    BY <1>1, <1>2, <2>1, <2>2, TellChanges DEF DeleteConfirm, Actor
  <2>3. CASE ~Tell(t, "confirm_stopped")
    BY <1>3, <2>1, <2>3 DEF DeleteConfirm, RegistryTypes
  <2> QED
    BY <2>2, <2>3
<1>5. TaskStep(t)
  BY <1>1, <1>2, <1>4, <1>t DEF DeleteConfirm, TaskStep, Goes
<1>6. RegistryTypes'
  BY <1>1, <1>3, <1>4, <1>t DEF DeleteConfirm, RegistryTypes
<1>7. RequestsAreSound'
  BY <1>2, <1>3, <1>4, <1>5, RequestsStaySound DEF SoundRequest, Goes
<1>8. RoomIsKept'
  BY <1>3, <1>4, RoomStays DEF DeleteConfirm, AllRequesters, Goes, Asleep, RegistryTypes
<1>9. ASSUME Clean(b)' PROVE BotInv(b)'
  <2>1. /\ BotInv(b) /\ t \in OnBot(b)
        /\ OnBot(b)' = IF request'[t] = Asleep THEN OnBot(b) \ {t} ELSE OnBot(b)
        /\ \A u \in OnBot(b) : u # t => request'[u] = request[u]
        /\ \A u \in OnBot(b) : u # t => Tolerated(b, request[t].op, request[u].op) /\ ~(Steers(t) /\ Steers(u))
        /\ request[t].op # "stop" => ClosingFollows(b)'
    BY <1>1, <1>5, <1>9, OwnBot
  <2>2. OneSteers(b)'
    BY <1>1, <1>2, <1>4, <1>5, <1>9, <2>1, OneStillSteers DEF DeleteConfirm, Registered,
       Steers, In, Goes
  <2>3. KnowsActor(b)'
    BY <1>1, <1>2, <1>3, <1>4, <2>1 DEF DeleteConfirm, BotInv, KnowsActor, In, Goes, Registered
  <2>r. b \in Registered /\ request[t].actor = table[b] /\ Actor(t) = Now(b) /\ Fits(t, b)
    BY <1>1, <1>2, <1>3, <2>1 DEF BotInv, KnowsActor, SoundRequest, Registered, Actor, Now, In,
       ActorFollows
  <2>4. ActorFollows(b)'
    <3>0. table' = table /\ b \in Registered' /\ \A u \in OnBot(b) : u # t => ~Steers(u)
      BY <1>2, <2>1, <2>r DEF DeleteConfirm, Registered, Steers, In, Tolerated
    <3>1. Now(b) = "Stopping" /\ b \notin launched
      BY <1>2, <2>r DEF Fits, In
    <3>2. launched' = launched /\ Tell(t, "confirm_stopped") /\ Step(t, "persist")
      BY <2>r, <3>1 DEF DeleteConfirm
    <3>3. Goes(t, "persist")
      BY <1>2, <3>2, RequestSteps DEF AnyStep
    <3>4. Now(b)' = "Stopped"
      BY <1>t, <2>r, <3>0, <3>1, <3>2, ToldIs DEF Now
    <3>5. Fits(t, b)' /\ Steers(t)' /\ request'[t] # Asleep
      BY <1>2, <3>1, <3>2, <3>3, <3>4 DEF Fits, Steers, In, Goes
    <3> QED
      BY <1>1, <1>5, <1>9, <3>0, <3>5, ActorMoves
  <2>5. FilesFollow(b)'
    BY <1>1, <1>2, <1>3, <1>4, <2>1 DEF DeleteConfirm, BotInv, FilesFollow, KnowsActor, In,
       Goes, Registered
  <2>6. ClosingFollows(b)'
    BY <1>2, <2>1
  <2> QED
    BY <2>2, <2>3, <2>4, <2>5, <2>6 DEF BotInv
<1> QED
  BY <1>1, <1>5, <1>6, <1>7, <1>8, <1>9, TaskKeepsInv

\* A deletion removes the configuration of a bot it works on alone.
LEMMA DeletePersistKeepsInv ==
    ASSUME RegistryInv, NEW t \in AllRequesters, DeletePersist(t)
    PROVE  RegistryInv'
<1>1. PICK b : b = request[t].bot
  OBVIOUS
<1>2. request[t] # Asleep /\ request[t].op = "delete" /\ request[t].at = "persist"
  BY DEF DeletePersist, Is, Asleep
<1>3. /\ request[t] \in Requests /\ b \in BotIds /\ request[t].actor \in 0 .. MaxActors
      /\ SoundRequest(t) /\ RegistryTypes
  BY <1>1, <1>2, RequestHasBot DEF RegistryInv, RequestsAreSound
<1>4. /\ request' \in [AllRequesters -> Requests \cup {Asleep}]
      /\ \A u \in AllRequesters \ {t} : request'[u] = request[u]
      /\ Goes(t, "files")
  BY <1>2, RequestSteps, RequestFinishes DEF DeletePersist, StepIf, AnyStep
<1>5. TaskStep(t)
  BY <1>1, <1>2, <1>4 DEF DeletePersist, TaskStep, Goes
<1>6. RegistryTypes'
  BY <1>1, <1>3, <1>4 DEF DeletePersist, RegistryTypes
<1>7. RequestsAreSound'
  BY <1>2, <1>3, <1>4, <1>5, RequestsStaySound DEF SoundRequest, Goes
<1>8. RoomIsKept'
  BY <1>3, <1>4, RoomStays DEF DeletePersist, AllRequesters, Goes, Asleep, RegistryTypes
<1>9. ASSUME Clean(b)' PROVE BotInv(b)'
  <2>1. /\ BotInv(b) /\ t \in OnBot(b)
        /\ OnBot(b)' = IF request'[t] = Asleep THEN OnBot(b) \ {t} ELSE OnBot(b)
        /\ \A u \in OnBot(b) : u # t => request'[u] = request[u]
        /\ \A u \in OnBot(b) : u # t => Tolerated(b, request[t].op, request[u].op) /\ ~(Steers(t) /\ Steers(u))
        /\ request[t].op # "stop" => ClosingFollows(b)'
    BY <1>1, <1>5, <1>9, OwnBot
  <2>2. OneSteers(b)'
    BY <1>1, <1>2, <1>4, <1>5, <1>9, <2>1, OneStillSteers DEF DeletePersist, Registered,
       Steers, In, Goes
  <2>3. KnowsActor(b)'
    BY <1>1, <1>2, <1>3, <1>4, <2>1 DEF DeletePersist, BotInv, KnowsActor, In, Goes, Registered
  <2>4. ActorFollows(b)'
    BY SMTT(90), <1>1, <1>2, <1>3, <1>4, <2>1 DEF DeletePersist, BotInv, ActorFollows, Fits, AtRest,
       KnowsActor, In, Goes, Steers, Now, Registered
  <2>5. FilesFollow(b)'
    <3>1. OnBot(b) = {t}
      BY <1>2, <2>1 DEF Tolerated
    <3>2. saved' = saved \ {b} /\ OnBot(b)' = {t} /\ request'[t].op = "delete" /\ request'[t].at = "files"
      BY <1>1, <1>2, <1>4, <2>1, <3>1 DEF DeletePersist, Goes
    <3> QED
      BY <3>2 DEF FilesFollow, In
  <2>6. ClosingFollows(b)'
    BY <1>2, <2>1
  <2> QED
    BY <2>2, <2>3, <2>4, <2>5, <2>6 DEF BotInv
<1> QED
  BY <1>1, <1>5, <1>6, <1>7, <1>8, <1>9, TaskKeepsInv

\* A deletion removes the derived files after the configuration.
LEMMA DeleteFilesKeepsInv ==
    ASSUME RegistryInv, NEW t \in AllRequesters, DeleteFiles(t)
    PROVE  RegistryInv'
<1>1. PICK b : b = request[t].bot
  OBVIOUS
<1>2. request[t] # Asleep /\ request[t].op = "delete" /\ request[t].at = "files"
  BY DEF DeleteFiles, Is, Asleep
<1>3. /\ request[t] \in Requests /\ b \in BotIds /\ request[t].actor \in 0 .. MaxActors
      /\ SoundRequest(t) /\ RegistryTypes
  BY <1>1, <1>2, RequestHasBot DEF RegistryInv, RequestsAreSound
<1>4. /\ request' \in [AllRequesters -> Requests \cup {Asleep}]
      /\ \A u \in AllRequesters \ {t} : request'[u] = request[u]
      /\ Goes(t, "close")
  BY <1>2, RequestSteps, RequestFinishes DEF DeleteFiles, StepIf, AnyStep
<1>5. TaskStep(t)
  BY <1>1, <1>2, <1>4 DEF DeleteFiles, TaskStep, Goes
<1>6. RegistryTypes'
  BY <1>1, <1>3, <1>4 DEF DeleteFiles, RegistryTypes
<1>7. RequestsAreSound'
  BY <1>2, <1>3, <1>4, <1>5, RequestsStaySound DEF SoundRequest, Goes
<1>8. RoomIsKept'
  BY <1>3, <1>4, RoomStays DEF DeleteFiles, AllRequesters, Goes, Asleep, RegistryTypes
<1>9. ASSUME Clean(b)' PROVE BotInv(b)'
  <2>1. /\ BotInv(b) /\ t \in OnBot(b)
        /\ OnBot(b)' = IF request'[t] = Asleep THEN OnBot(b) \ {t} ELSE OnBot(b)
        /\ \A u \in OnBot(b) : u # t => request'[u] = request[u]
        /\ \A u \in OnBot(b) : u # t => Tolerated(b, request[t].op, request[u].op) /\ ~(Steers(t) /\ Steers(u))
        /\ request[t].op # "stop" => ClosingFollows(b)'
    BY <1>1, <1>5, <1>9, OwnBot
  <2>2. OneSteers(b)'
    BY <1>1, <1>2, <1>4, <1>5, <1>9, <2>1, OneStillSteers DEF DeleteFiles, Registered, Steers,
       In, Goes
  <2>3. KnowsActor(b)'
    BY <1>1, <1>2, <1>3, <1>4, <2>1 DEF DeleteFiles, BotInv, KnowsActor, In, Goes, Registered
  <2>4. ActorFollows(b)'
    BY SMTT(90), <1>1, <1>2, <1>3, <1>4, <2>1 DEF DeleteFiles, BotInv, ActorFollows, Fits, AtRest,
       KnowsActor, In, Goes, Steers, Now, Registered
  <2>5. FilesFollow(b)'
    BY <1>1, <1>2, <1>3, <1>4, <2>1 DEF DeleteFiles, BotInv, FilesFollow, KnowsActor, In, Goes,
       Registered
  <2>6. ClosingFollows(b)'
    BY <1>2, <2>1
  <2> QED
    BY <2>2, <2>3, <2>4, <2>5, <2>6 DEF BotInv
<1> QED
  BY <1>1, <1>5, <1>6, <1>7, <1>8, <1>9, TaskKeepsInv

\* A deletion that could not remove the derived files is noted.
LEMMA DeleteFilesFailKeepsInv ==
    ASSUME RegistryInv, NEW t \in AllRequesters, DeleteFilesFail(t)
    PROVE  RegistryInv'
<1>1. PICK b : b = request[t].bot
  OBVIOUS
<1>2. request[t] # Asleep /\ request[t].op = "delete" /\ request[t].at = "files"
  BY DEF DeleteFilesFail, Is, Asleep
<1>3. /\ request[t] \in Requests /\ b \in BotIds /\ request[t].actor \in 0 .. MaxActors
      /\ SoundRequest(t) /\ RegistryTypes
  BY <1>1, <1>2, RequestHasBot DEF RegistryInv, RequestsAreSound
<1>4. /\ request' \in [AllRequesters -> Requests \cup {Asleep}]
      /\ \A u \in AllRequesters \ {t} : request'[u] = request[u]
      /\ request'[t] = Asleep
  BY <1>2, RequestSteps, RequestFinishes DEF DeleteFilesFail, StepIf, AnyStep
<1>5. TaskStep(t)
  BY <1>1, <1>2, <1>4 DEF DeleteFilesFail, TaskStep, Goes
<1>6. RegistryTypes'
  BY <1>1, <1>3, <1>4 DEF DeleteFilesFail, RegistryTypes
<1>7. RequestsAreSound'
  BY <1>2, <1>3, <1>4, <1>5, RequestsStaySound DEF SoundRequest, Goes
<1>8. RoomIsKept'
  BY <1>3, <1>4, RoomStays DEF DeleteFilesFail, AllRequesters, Goes, Asleep, RegistryTypes
<1>9. ~Clean(b)'
  BY <1>1 DEF DeleteFilesFail, Clean
<1> QED
  BY <1>1, <1>5, <1>6, <1>7, <1>8, <1>9, TaskKeepsInv

\* A deletion closes the actor of a bot without a process.
LEMMA DeleteCloseKeepsInv ==
    ASSUME RegistryInv, NEW t \in AllRequesters, DeleteClose(t)
    PROVE  RegistryInv'
<1>1. PICK b : b = request[t].bot
  OBVIOUS
<1>2. request[t] # Asleep /\ request[t].op = "delete" /\ request[t].at = "close"
  BY DEF DeleteClose, Is, Asleep
<1>3. /\ request[t] \in Requests /\ b \in BotIds /\ request[t].actor \in 0 .. MaxActors
      /\ SoundRequest(t) /\ RegistryTypes
  BY <1>1, <1>2, RequestHasBot DEF RegistryInv, RequestsAreSound
<1>4. /\ request' \in [AllRequesters -> Requests \cup {Asleep}]
      /\ \A u \in AllRequesters \ {t} : request'[u] = request[u]
      /\ Goes(t, "remove")
  BY <1>2, RequestSteps, RequestFinishes DEF DeleteClose, StepIf, AnyStep
<1>5. TaskStep(t)
  BY <1>1, <1>2, <1>4 DEF DeleteClose, TaskStep, Goes
<1>6. RegistryTypes'
  <2>1. actors' \in [BotIds -> [1 .. MaxActors -> ActorState]]
    <3>1. "Closed" \in ActorState
      BY DEF ActorState
    <3>2. actors \in [BotIds -> [1 .. MaxActors -> ActorState]]
      BY <1>3 DEF RegistryTypes
    <3>3. request[t].actor # 0 => request[t].actor \in 1 .. MaxActors
      BY <1>3, MaxActorsAssumption
    <3> QED
      BY <1>1, <1>3, <3>1, <3>2, <3>3 DEF DeleteClose
  <2> QED
    BY <1>3, <1>4, <2>1 DEF DeleteClose, RegistryTypes
<1>7. RequestsAreSound'
  BY <1>2, <1>3, <1>4, <1>5, RequestsStaySound DEF SoundRequest, Goes
<1>8. RoomIsKept'
  BY <1>3, <1>4, RoomStays DEF DeleteClose, AllRequesters, Goes, Asleep, RegistryTypes
<1>9. ASSUME Clean(b)' PROVE BotInv(b)'
  <2>1. /\ BotInv(b) /\ t \in OnBot(b)
        /\ OnBot(b)' = IF request'[t] = Asleep THEN OnBot(b) \ {t} ELSE OnBot(b)
        /\ \A u \in OnBot(b) : u # t => request'[u] = request[u]
        /\ \A u \in OnBot(b) : u # t => Tolerated(b, request[t].op, request[u].op) /\ ~(Steers(t) /\ Steers(u))
        /\ request[t].op # "stop" => ClosingFollows(b)'
    BY <1>1, <1>5, <1>9, OwnBot
  <2>2. OneSteers(b)'
    BY <1>1, <1>2, <1>4, <1>5, <1>9, <2>1, OneStillSteers DEF DeleteClose, Registered, Steers,
       In, Goes
  <2>3. KnowsActor(b)'
    BY <1>1, <1>2, <1>3, <1>4, <2>1 DEF DeleteClose, BotInv, KnowsActor, In, Goes, Registered
  <2>4. ActorFollows(b)'
    <3>1. OnBot(b) = {t}
      BY <1>2, <2>1 DEF Tolerated
    <3>2. b \notin launched'
      BY <1>2, <2>1, <3>1 DEF DeleteClose, BotInv, ActorFollows, Fits, In
    <3>3. OnBot(b)' = {t} /\ request'[t].op = "delete" /\ request'[t].at = "remove"
      BY <1>2, <1>4, <2>1, <3>1 DEF Goes
    <3> QED
      BY <3>2, <3>3 DEF ActorFollows, Fits, Steers, In
  <2>5. FilesFollow(b)'
    BY <1>1, <1>2, <1>3, <1>4, <2>1 DEF DeleteClose, BotInv, FilesFollow, KnowsActor, In, Goes,
       Registered
  <2>6. ClosingFollows(b)'
    BY <1>2, <2>1
  <2> QED
    BY <2>2, <2>3, <2>4, <2>5, <2>6 DEF BotInv
<1> QED
  BY <1>1, <1>5, <1>6, <1>7, <1>8, <1>9, TaskKeepsInv

\* A deletion takes the bot out of the table last.
LEMMA DeleteRemoveKeepsInv ==
    ASSUME RegistryInv, NEW t \in AllRequesters, DeleteRemove(t)
    PROVE  RegistryInv'
<1>1. PICK b : b = request[t].bot
  OBVIOUS
<1>2. request[t] # Asleep /\ request[t].op = "delete" /\ request[t].at = "remove"
  BY DEF DeleteRemove, Is, Asleep
<1>3. /\ request[t] \in Requests /\ b \in BotIds /\ request[t].actor \in 0 .. MaxActors
      /\ SoundRequest(t) /\ RegistryTypes
  BY <1>1, <1>2, RequestHasBot DEF RegistryInv, RequestsAreSound
<1>4. /\ request' \in [AllRequesters -> Requests \cup {Asleep}]
      /\ \A u \in AllRequesters \ {t} : request'[u] = request[u]
      /\ request'[t] = Asleep
  BY <1>2, RequestSteps, RequestFinishes DEF DeleteRemove, StepIf, AnyStep
<1>5. TaskStep(t)
  BY <1>1, <1>2, <1>4 DEF DeleteRemove, TaskStep, Goes
<1>6. RegistryTypes'
  <2>1. table' \in [BotIds -> 0 .. MaxActors]
    <3>1. table \in [BotIds -> 0 .. MaxActors] /\ 0 \in 0 .. MaxActors
      BY <1>3, MaxActorsAssumption DEF RegistryTypes
    <3>2. table' = [table EXCEPT ![b] = 0]
      BY <1>1 DEF DeleteRemove
    <3> QED
      BY <3>1, <3>2
  <2> QED
    BY <1>3, <1>4, <2>1 DEF DeleteRemove, RegistryTypes
<1>7. RequestsAreSound'
  BY <1>2, <1>3, <1>4, <1>5, RequestsStaySound DEF SoundRequest, Goes
<1>8. RoomIsKept'
  BY <1>3, <1>4, RoomStays DEF DeleteRemove, AllRequesters, Goes, Asleep, RegistryTypes
<1>9. ASSUME Clean(b)' PROVE BotInv(b)'
  <2>1. /\ BotInv(b) /\ t \in OnBot(b)
        /\ OnBot(b)' = IF request'[t] = Asleep THEN OnBot(b) \ {t} ELSE OnBot(b)
        /\ \A u \in OnBot(b) : u # t => request'[u] = request[u]
        /\ \A u \in OnBot(b) : u # t => Tolerated(b, request[t].op, request[u].op) /\ ~(Steers(t) /\ Steers(u))
        /\ request[t].op # "stop" => ClosingFollows(b)'
    BY <1>1, <1>5, <1>9, OwnBot
  <2>2. OneSteers(b)'
    BY <1>1, <1>2, <1>4, <1>5, <1>9, <2>1, OneStillSteers DEF DeleteRemove, Registered, Steers,
       In, Goes
  <2>a. OnBot(b)' = {}
    <3>1. OnBot(b) = {t}
      BY <1>2, <2>1 DEF Tolerated
    <3> QED
      BY <1>4, <2>1, <3>1
  <2>b. b \notin Registered' /\ b \notin saved' /\ b \notin derived' /\ b \notin launched'
    BY <1>1, <1>2, <1>3, <2>1 DEF DeleteRemove, Registered, BotInv, FilesFollow, ActorFollows,
       Fits, In, RegistryTypes
  <2>3. KnowsActor(b)'
    BY <2>a DEF KnowsActor
  <2>4. ActorFollows(b)'
    BY <2>b DEF ActorFollows
  <2>5. FilesFollow(b)'
    BY <2>a, <2>b DEF FilesFollow
  <2>6. ClosingFollows(b)'
    BY <1>2, <2>1
  <2> QED
    BY <2>2, <2>3, <2>4, <2>5, <2>6 DEF BotInv
<1> QED
  BY <1>1, <1>5, <1>6, <1>7, <1>8, <1>9, TaskKeepsInv

\* A request that looked its bot up goes on to the step at, with the actor i.
Looks(t, at, i, n) ==
    /\ request'[t] # Asleep /\ request'[t].at = at
    /\ request'[t].op = request[t].op /\ request'[t].bot = request[t].bot
    /\ request'[t].actor = i /\ request'[t].isNew = n

Looking(t, at, i, n) ==
    request' = [request EXCEPT ![t] = [request[t] EXCEPT !.at = at, !.actor = i, !.isNew = n]]

\* What becomes of the request when its look is done.
LEMMA RequestLooks ==
    ASSUME RegistryInv, NEW t \in AllRequesters, request[t] # Asleep,
           NEW at \in AnyStep, NEW i \in 0 .. MaxActors, NEW n \in BOOLEAN,
           Looking(t, at, i, n)
    PROVE  /\ request' \in [AllRequesters -> Requests \cup {Asleep}]
           /\ \A u \in AllRequesters \ {t} : request'[u] = request[u]
           /\ Looks(t, at, i, n)
<1> DEFINE r == [request[t] EXCEPT !.at = at, !.actor = i, !.isNew = n]
<1>1. request[t] \in Requests /\ request[t].op # "none"
  BY RequestHasBot DEF Op
<1>2. r \in Requests /\ r.op = request[t].op /\ r.bot = request[t].bot /\ r.at = at /\ r.actor = i /\ r.isNew = n
  BY <1>1 DEF Requests
<1>3. r # Asleep
  BY <1>1, <1>2 DEF Asleep
<1> HIDE DEF r
<1>4. request' = [request EXCEPT ![t] = r]
  BY DEF r, Looking
<1>5. request'[t] = r /\ request' \in [AllRequesters -> Requests \cup {Asleep}]
      /\ \A u \in AllRequesters \ {t} : request'[u] = request[u]
  BY <1>2, <1>4, RequestBecomes
<1> QED
  BY <1>2, <1>3, <1>5 DEF Looks

\* A start looks the actor up.
LEMMA StartLookKeepsInv ==
    ASSUME RegistryInv, NEW t \in AllRequesters, StartLook(t)
    PROVE  RegistryInv'
<1>1. PICK b : b = request[t].bot
  OBVIOUS
<1>2. request[t] # Asleep /\ request[t].op = "start" /\ request[t].at = "look"
  BY DEF StartLook, Is, Asleep
<1>3. /\ request[t] \in Requests /\ b \in BotIds /\ request[t].actor \in 0 .. MaxActors
      /\ SoundRequest(t) /\ RegistryTypes
  BY <1>1, <1>2, RequestHasBot DEF RegistryInv, RequestsAreSound
<1>4. /\ request' \in [AllRequesters -> Requests \cup {Asleep}]
      /\ \A u \in AllRequesters \ {t} : request'[u] = request[u]
      /\ \/ request'[t] = Asleep /\ table[b] = 0
         \/ Looks(t, "config", table[b], request[t].isNew) /\ table[b] # 0
  <2>1. CASE table[b] = 0
    <3>1. Finish(t)
      BY <1>1, <2>1 DEF StartLook
    <3> QED
      BY <2>1, <3>1, RequestFinishes
  <2>2. CASE table[b] # 0
    <3>1. table[b] \in 0 .. MaxActors /\ request[t].isNew \in BOOLEAN
      BY <1>3 DEF RegistryTypes, Requests
    <3>2. Looking(t, "config", table[b], request[t].isNew)
      BY <1>1, <1>3, <2>2 DEF StartLook, Requests, RegistryTypes, Looking
    <3>3. "config" \in AnyStep
      BY DEF AnyStep
    <3> QED
      BY <1>2, <2>2, <3>1, <3>2, <3>3, RequestLooks
  <2> QED
    BY <2>1, <2>2
<1>5. TaskStep(t)
  BY <1>1, <1>2, <1>4 DEF StartLook, TaskStep, Looks
<1>6. RegistryTypes'
  BY <1>1, <1>3, <1>4 DEF StartLook, RegistryTypes
<1>7. RequestsAreSound'
  BY <1>2, <1>3, <1>4, <1>5, RequestsStaySound DEF SoundRequest, Looks
<1>8. RoomIsKept'
  <2>1. \A u \in Requesters : request'[u].isNew => request[u].isNew
    BY <1>4 DEF AllRequesters, Looks, Asleep
  <2>2. crowded' = crowded /\ table' = table
    BY DEF StartLook
  <2> QED
    BY <2>1, <2>2, RoomStays
<1>9. ASSUME Clean(b)' PROVE BotInv(b)'
  <2>1. /\ BotInv(b) /\ t \in OnBot(b)
        /\ OnBot(b)' = IF request'[t] = Asleep THEN OnBot(b) \ {t} ELSE OnBot(b)
        /\ \A u \in OnBot(b) : u # t => request'[u] = request[u]
        /\ \A u \in OnBot(b) : u # t => Tolerated(b, request[t].op, request[u].op) /\ ~(Steers(t) /\ Steers(u))
        /\ request[t].op # "stop" => ClosingFollows(b)'
    BY <1>1, <1>5, <1>9, OwnBot
  <2>2. OneSteers(b)'
    BY <1>1, <1>2, <1>4, <1>5, <1>9, <2>1, OneStillSteers DEF StartLook, Registered, Steers,
       In, Looks
  <2>3. KnowsActor(b)'
    BY <1>1, <1>2, <1>3, <1>4, <2>1 DEF StartLook, BotInv, KnowsActor, In, Looks, Registered
  <2>4. ActorFollows(b)'
    <3>1. table' = table /\ actors' = actors /\ launched' = launched
      BY DEF StartLook
    <3>2. ~Steers(t) /\ (request'[t] # Asleep => ~Steers(t)' /\ Fits(t, b)')
      BY <1>2, <1>4 DEF Steers, In, Looks, Fits
    <3>3. \A u \in OnBot(b) : u # t => (Steers(u)' <=> Steers(u)) /\ (Fits(u, b)' <=> Fits(u, b))
      BY <2>1, <3>1 DEF Steers, In, Fits, Now
    <3>4. /\ b \in Registered' <=> b \in Registered
          /\ AtRest(b)' <=> AtRest(b)
      BY <3>1 DEF Registered, AtRest, Now
    <3> QED
      BY <2>1, <3>1, <3>2, <3>3, <3>4 DEF BotInv, ActorFollows
  <2>5. FilesFollow(b)'
    BY <1>1, <1>2, <1>3, <1>4, <2>1 DEF StartLook, BotInv, FilesFollow, KnowsActor, In, Looks,
       Registered
  <2>6. ClosingFollows(b)'
    BY <1>2, <2>1
  <2> QED
    BY <2>2, <2>3, <2>4, <2>5, <2>6 DEF BotInv
<1> QED
  BY <1>1, <1>5, <1>6, <1>7, <1>8, <1>9, TaskKeepsInv

\* A stop looks the actor up.
LEMMA StopLookKeepsInv ==
    ASSUME RegistryInv, NEW t \in AllRequesters, StopLook(t)
    PROVE  RegistryInv'
<1>1. PICK b : b = request[t].bot
  OBVIOUS
<1>2. request[t] # Asleep /\ request[t].op = "stop" /\ request[t].at = "look"
  BY DEF StopLook, Is, Asleep
<1>3. /\ request[t] \in Requests /\ b \in BotIds /\ request[t].actor \in 0 .. MaxActors
      /\ SoundRequest(t) /\ RegistryTypes
  BY <1>1, <1>2, RequestHasBot DEF RegistryInv, RequestsAreSound
<1>4. /\ request' \in [AllRequesters -> Requests \cup {Asleep}]
      /\ \A u \in AllRequesters \ {t} : request'[u] = request[u]
      /\ \/ request'[t] = Asleep /\ table[b] = 0
         \/ Looks(t, "request", table[b], request[t].isNew) /\ table[b] # 0
  <2>1. CASE table[b] = 0
    <3>1. Finish(t)
      BY <1>1, <2>1 DEF StopLook
    <3> QED
      BY <2>1, <3>1, RequestFinishes
  <2>2. CASE table[b] # 0
    <3>1. table[b] \in 0 .. MaxActors /\ request[t].isNew \in BOOLEAN
      BY <1>3 DEF RegistryTypes, Requests
    <3>2. Looking(t, "request", table[b], request[t].isNew)
      BY <1>1, <1>3, <2>2 DEF StopLook, Requests, RegistryTypes, Looking
    <3>3. "request" \in AnyStep
      BY DEF AnyStep
    <3> QED
      BY <1>2, <2>2, <3>1, <3>2, <3>3, RequestLooks
  <2> QED
    BY <2>1, <2>2
<1>5. TaskStep(t)
  BY <1>1, <1>2, <1>4 DEF StopLook, TaskStep, Looks
<1>6. RegistryTypes'
  BY <1>1, <1>3, <1>4 DEF StopLook, RegistryTypes
<1>7. RequestsAreSound'
  BY <1>2, <1>3, <1>4, <1>5, RequestsStaySound DEF SoundRequest, Looks
<1>8. RoomIsKept'
  <2>1. \A u \in Requesters : request'[u].isNew => request[u].isNew
    BY <1>4 DEF AllRequesters, Looks, Asleep
  <2>2. crowded' = crowded /\ table' = table
    BY DEF StopLook
  <2> QED
    BY <2>1, <2>2, RoomStays
<1>9. ASSUME Clean(b)' PROVE BotInv(b)'
  <2>1. /\ BotInv(b) /\ t \in OnBot(b)
        /\ OnBot(b)' = IF request'[t] = Asleep THEN OnBot(b) \ {t} ELSE OnBot(b)
        /\ \A u \in OnBot(b) : u # t => request'[u] = request[u]
        /\ \A u \in OnBot(b) : u # t => Tolerated(b, request[t].op, request[u].op) /\ ~(Steers(t) /\ Steers(u))
        /\ request[t].op # "stop" => ClosingFollows(b)'
    BY <1>1, <1>5, <1>9, OwnBot
  <2>2. OneSteers(b)'
    BY <1>1, <1>2, <1>4, <1>5, <1>9, <2>1, OneStillSteers DEF StopLook, Registered, Steers, In,
       Looks
  <2>3. KnowsActor(b)'
    BY <1>1, <1>2, <1>3, <1>4, <2>1 DEF StopLook, BotInv, KnowsActor, In, Looks, Registered
  <2>4. ActorFollows(b)'
    <3>1. table' = table /\ actors' = actors /\ launched' = launched
      BY DEF StopLook
    <3>2. ~Steers(t) /\ (request'[t] # Asleep => ~Steers(t)' /\ Fits(t, b)')
      BY <1>2, <1>4 DEF Steers, In, Looks, Fits
    <3>3. \A u \in OnBot(b) : u # t => (Steers(u)' <=> Steers(u)) /\ (Fits(u, b)' <=> Fits(u, b))
      BY <2>1, <3>1 DEF Steers, In, Fits, Now
    <3>4. /\ b \in Registered' <=> b \in Registered
          /\ AtRest(b)' <=> AtRest(b)
      BY <3>1 DEF Registered, AtRest, Now
    <3> QED
      BY <2>1, <3>1, <3>2, <3>3, <3>4 DEF BotInv, ActorFollows
  <2>5. FilesFollow(b)'
    BY <1>1, <1>2, <1>3, <1>4, <2>1 DEF StopLook, BotInv, FilesFollow, KnowsActor, In, Looks,
       Registered
  <2>6. ClosingFollows(b)'
    <3>1. closing' = closing /\ Now(b)' = Now(b) /\ (b \in Registered' <=> b \in Registered)
      BY DEF StopLook, Now, Registered
    <3>2. OnBot(b)' \subseteq OnBot(b) /\ (b \in Registered => OnBot(b)' = OnBot(b))
      BY <1>3, <1>4, <2>1 DEF Looks, Registered
    <3>3. Closer \in OnBot(b)' /\ request[Closer].at \in {"look", "request"} => request'[Closer].at \in {"look", "request"}
      <4>1. t \in OnBot(b)' => request'[t].at = "request"
        BY <1>4, <2>1 DEF Looks
      <4> QED
        BY <2>1, <3>2, <4>1
    <3> QED
      BY <2>1, <3>1, <3>2, <3>3 DEF BotInv, ClosingFollows
  <2> QED
    BY <2>2, <2>3, <2>4, <2>5, <2>6 DEF BotInv
<1> QED
  BY <1>1, <1>5, <1>6, <1>7, <1>8, <1>9, TaskKeepsInv

\* A save looks whether its bot is new and whether there is room for it.
LEMMA SaveLookKeepsInv ==
    ASSUME RegistryInv, NEW t \in AllRequesters, SaveLook(t)
    PROVE  RegistryInv'
<1>1. PICK b : b = request[t].bot
  OBVIOUS
<1>2. request[t] # Asleep /\ request[t].op = "save" /\ request[t].at = "look"
  BY DEF SaveLook, Is, Asleep
<1>3. /\ request[t] \in Requests /\ b \in BotIds /\ request[t].actor \in 0 .. MaxActors
      /\ SoundRequest(t) /\ RegistryTypes
  BY <1>1, <1>2, RequestHasBot DEF RegistryInv, RequestsAreSound
<1>4. PICK n \in BOOLEAN : n <=> table[b] = 0
  OBVIOUS
<1>s. /\ request' \in [AllRequesters -> Requests \cup {Asleep}]
      /\ \A u \in AllRequesters \ {t} : request'[u] = request[u]
      /\ \/ request'[t] = Asleep /\ crowded' = crowded
         \/ /\ Looks(t, "persist", request[t].actor, n)
            /\ n => Cardinality(Registered) < MaxBots
            /\ crowded' = (crowded \/ (n /\ \E u \in Requesters : request[u].isNew))
  <2>1. CASE n /\ Cardinality(Registered) >= MaxBots
    <3>1. Finish(t) /\ crowded' = crowded
      BY <1>1, <1>4, <2>1 DEF SaveLook
    <3> QED
      BY <3>1, RequestFinishes
  <2>2. CASE ~(n /\ Cardinality(Registered) >= MaxBots)
    <3>1. (table[b] = 0) = n
      BY <1>4
    <3>2. /\ request' = [request EXCEPT ![t].at = "persist", ![t].isNew = (table[b] = 0)]
          /\ crowded' = (crowded \/ ((table[b] = 0) /\ \E u \in Requesters : request[u].isNew))
      BY <1>1, <1>4, <2>2 DEF SaveLook
    <3>3. Looking(t, "persist", request[t].actor, n)
      BY <1>1, <1>3, <3>1, <3>2 DEF Requests, RegistryTypes, Looking
    <3>4. Looks(t, "persist", request[t].actor, n) /\ request' \in [AllRequesters -> Requests \cup {Asleep}]
          /\ \A u \in AllRequesters \ {t} : request'[u] = request[u]
      <4>1. "persist" \in AnyStep
        BY DEF AnyStep
      <4> QED
        BY <1>2, <1>3, <3>3, <4>1, RequestLooks
    <3>5. Cardinality(Registered) \in Nat
      BY FS_Subset, FS_CardinalityType, BotIdsAssumption DEF Registered
    <3>6. n => Cardinality(Registered) < MaxBots
      BY <2>2, <3>5, MaxBotsAssumption
    <3> QED
      BY <1>4, <3>2, <3>4, <3>6
  <2> QED
    BY <2>1, <2>2
<1>5. TaskStep(t)
  BY <1>1, <1>2, <1>s DEF SaveLook, TaskStep, Looks
<1>6. RegistryTypes'
  <2>1. crowded' \in BOOLEAN
    BY <1>3, <1>s DEF RegistryTypes
  <2> QED
    BY <1>1, <1>3, <1>s, <2>1 DEF SaveLook, RegistryTypes
<1>7. RequestsAreSound'
  BY <1>2, <1>3, <1>s, <1>5, RequestsStaySound DEF SoundRequest, Looks
<1>8. RoomIsKept'
  <2>1. CASE request'[t] = Asleep /\ crowded' = crowded
    BY <1>3, <1>s, <2>1, RoomStays DEF SaveLook, AllRequesters, Asleep
  <2>2. CASE /\ Looks(t, "persist", request[t].actor, n)
             /\ n => Cardinality(Registered) < MaxBots
             /\ crowded' = (crowded \/ (n /\ \E u \in Requesters : request[u].isNew))
    <3>1. Registered' = Registered
      BY DEF SaveLook, Registered
    <3>2. \A u \in Requesters : request'[u].isNew => request[u].isNew \/ (u = t /\ n)
      BY <1>s, <2>2 DEF Looks, AllRequesters
    <3>3. SUFFICES ASSUME ~crowded' PROVE RoomIsKept'
      BY DEF RoomIsKept
    <3>4. /\ ~crowded
          /\ n => \A u \in Requesters : ~request[u].isNew
      BY <2>2, <3>3
    <3>5. /\ Cardinality(Registered) <= MaxBots
          /\ \A u, v \in Requesters : request[u].isNew /\ request[v].isNew => u = v
          /\ \A u \in Requesters : request[u].isNew => Cardinality(Registered) < MaxBots
      BY <3>4 DEF RegistryInv, RoomIsKept
    <3>6. \A u, v \in Requesters : request'[u].isNew /\ request'[v].isNew => u = v
      BY <3>2, <3>4, <3>5
    <3>7. \A u \in Requesters : request'[u].isNew => Cardinality(Registered) < MaxBots
      BY <2>2, <3>2, <3>5
    <3> QED
      BY <3>1, <3>5, <3>6, <3>7 DEF RoomIsKept
  <2> QED
    BY <1>s, <2>1, <2>2
<1>9. ASSUME Clean(b)' PROVE BotInv(b)'
  <2>1. /\ BotInv(b) /\ t \in OnBot(b)
        /\ OnBot(b)' = IF request'[t] = Asleep THEN OnBot(b) \ {t} ELSE OnBot(b)
        /\ \A u \in OnBot(b) : u # t => request'[u] = request[u]
        /\ \A u \in OnBot(b) : u # t => Tolerated(b, request[t].op, request[u].op) /\ ~(Steers(t) /\ Steers(u))
        /\ request[t].op # "stop" => ClosingFollows(b)'
    BY <1>1, <1>5, <1>9, OwnBot
  <2>2. OneSteers(b)'
    BY <1>1, <1>2, <1>s, <1>4, <1>5, <1>9, <2>1, OneStillSteers DEF SaveLook, Registered,
       Steers, In, Looks
  <2>3. KnowsActor(b)'
    BY <1>1, <1>2, <1>3, <1>s, <1>4, <2>1 DEF SaveLook, BotInv, KnowsActor, RegistryTypes, In,
       Looks, Registered
  <2>4. ActorFollows(b)'
    <3>1. table' = table /\ actors' = actors /\ launched' = launched
      BY DEF SaveLook
    <3>2. ~Steers(t) /\ (request'[t] # Asleep => ~Steers(t)' /\ Fits(t, b)')
      BY <1>2, <1>s, <1>4 DEF Steers, In, Looks, Fits
    <3>3. \A u \in OnBot(b) : u # t => (Steers(u)' <=> Steers(u)) /\ (Fits(u, b)' <=> Fits(u, b))
      BY <2>1, <3>1 DEF Steers, In, Fits, Now
    <3>4. /\ b \in Registered' <=> b \in Registered
          /\ AtRest(b)' <=> AtRest(b)
      BY <3>1 DEF Registered, AtRest, Now
    <3> QED
      BY <2>1, <3>1, <3>2, <3>3, <3>4 DEF BotInv, ActorFollows
  <2>5. FilesFollow(b)'
    BY <1>1, <1>2, <1>3, <1>s, <1>4, <2>1 DEF SaveLook, BotInv, FilesFollow, KnowsActor, In,
       Looks, Registered
  <2>6. ClosingFollows(b)'
    BY <1>2, <2>1
  <2> QED
    BY <2>2, <2>3, <2>4, <2>5, <2>6 DEF BotInv
<1> QED
  BY <1>1, <1>5, <1>6, <1>7, <1>8, <1>9, TaskKeepsInv

\* A save gives a new bot its actor, in the room it looked up.
LEMMA SaveActorKeepsInv ==
    ASSUME RegistryInv, NEW t \in AllRequesters, SaveActor(t)
    PROVE  RegistryInv'
<1>1. PICK b : b = request[t].bot
  OBVIOUS
<1>2. request[t] # Asleep /\ request[t].op = "save" /\ request[t].at = "actor"
  BY DEF SaveActor, Is, Asleep
<1>3. /\ request[t] \in Requests /\ b \in BotIds /\ request[t].actor \in 0 .. MaxActors
      /\ SoundRequest(t) /\ RegistryTypes
  BY <1>1, <1>2, RequestHasBot DEF RegistryInv, RequestsAreSound
<1>4. /\ request' \in [AllRequesters -> Requests \cup {Asleep}]
      /\ \A u \in AllRequesters \ {t} : request'[u] = request[u]
      /\ request'[t] = Asleep
  BY RequestFinishes DEF SaveActor
<1>n. ASSUME request[t].isNew
      PROVE  /\ table' \in [BotIds -> 0 .. MaxActors] /\ table'[b] # 0
             /\ actors' \in [BotIds -> [1 .. MaxActors -> ActorState]]
             /\ \A c \in BotIds \ {b} : table'[c] = table[c] /\ actors'[c] = actors[c]
             /\ actors'[b][table'[b]] = "Stopped"
  <2>1. Unborn(b) # {} /\ table' = [table EXCEPT ![b] = NextActor(b)] /\ actors' = Spawn({b})
    BY <1>1, <1>n DEF SaveActor
  <2>2. NextActor(b) \in 1 .. MaxActors
    BY <2>1, NextActorIsUnborn
  <2>3. table \in [BotIds -> 0 .. MaxActors] /\ actors \in [BotIds -> [1 .. MaxActors -> ActorState]]
    BY <1>3 DEF RegistryTypes
  <2>4. "Stopped" \in ActorState
    BY DEF ActorState, State
  <2>5. actors' = [c \in BotIds |-> IF c = b THEN [actors[c] EXCEPT ![NextActor(c)] = "Stopped"] ELSE actors[c]]
    BY <2>1 DEF Spawn
  <2>6. table' \in [BotIds -> 0 .. MaxActors] /\ table'[b] = NextActor(b) /\ NextActor(b) # 0
        /\ \A c \in BotIds \ {b} : table'[c] = table[c]
    BY <1>3, <2>1, <2>2, <2>3, MaxActorsAssumption
  <2>7. /\ actors' \in [BotIds -> [1 .. MaxActors -> ActorState]]
        /\ \A c \in BotIds \ {b} : actors'[c] = actors[c]
        /\ actors'[b][NextActor(b)] = "Stopped"
    BY <1>3, <2>2, <2>3, <2>4, <2>5
  <2>8. actors'[b][table'[b]] = "Stopped"
    BY <2>6, <2>7
  <2> QED
    BY <2>6, <2>7, <2>8
<1>o. ~request[t].isNew => table' = table /\ actors' = actors
  BY DEF SaveActor
<1>5. TaskStep(t)
  BY <1>1, <1>2, <1>4, <1>n, <1>o DEF SaveActor, TaskStep
<1>6. RegistryTypes'
  <2>1. /\ table' \in [BotIds -> 0 .. MaxActors]
        /\ actors' \in [BotIds -> [1 .. MaxActors -> ActorState]]
    BY <1>3, <1>n, <1>o DEF RegistryTypes
  <2> QED
    BY <1>3, <1>4, <2>1 DEF SaveActor, RegistryTypes
<1>7. RequestsAreSound'
  BY <1>4, <1>5, RequestsStaySound
<1>8. RoomIsKept'
  <2>0. t \in Requesters
    BY <1>2 DEF AllRequesters, RegistryInv, RequestsAreSound
  <2>1. \A u \in Requesters : request'[u].isNew => request[u].isNew /\ u # t
    BY <1>4 DEF AllRequesters, Asleep
  <2>2. crowded' = crowded
    BY DEF SaveActor
  <2>3. CASE ~request[t].isNew
    BY <1>o, <2>1, <2>2, <2>3, RoomStays
  <2>4. CASE request[t].isNew
    <3>1. SUFFICES ASSUME ~crowded PROVE RoomIsKept'
      BY <2>2 DEF RoomIsKept
    <3>2. /\ Cardinality(Registered) < MaxBots
          /\ \A u \in Requesters : request[u].isNew => u = t
      BY <2>0, <2>4, <3>1 DEF RegistryInv, RoomIsKept
    <3>3. \A u \in Requesters : ~request'[u].isNew
      BY <2>1, <3>2
    <3>4. Registered' = Registered \cup {b}
      BY <1>3, <1>n, <2>4 DEF Registered
    <3>5. IsFiniteSet(Registered) /\ Cardinality(Registered) \in Nat
      BY FS_Subset, FS_CardinalityType, BotIdsAssumption DEF Registered
    <3>6. Cardinality(Registered') <= Cardinality(Registered) + 1
      BY <3>4, <3>5, FS_AddElement
    <3>7. Cardinality(Registered') \in Nat
      BY FS_Subset, FS_CardinalityType, BotIdsAssumption DEF Registered
    <3>8. Cardinality(Registered') <= MaxBots
      BY <3>2, <3>5, <3>6, <3>7, MaxBotsAssumption
    <3> QED
      BY <3>3, <3>8 DEF RoomIsKept
  <2> QED
    BY <2>3, <2>4
<1>9. ASSUME Clean(b)' PROVE BotInv(b)'
  <2>1. /\ BotInv(b) /\ t \in OnBot(b)
        /\ OnBot(b)' = IF request'[t] = Asleep THEN OnBot(b) \ {t} ELSE OnBot(b)
        /\ \A u \in OnBot(b) : u # t => request'[u] = request[u]
        /\ \A u \in OnBot(b) : u # t => Tolerated(b, request[t].op, request[u].op) /\ ~(Steers(t) /\ Steers(u))
        /\ request[t].op # "stop" => ClosingFollows(b)'
    BY <1>1, <1>5, <1>9, OwnBot
  <2>2. OneSteers(b)'
    <3>1. b \in Registered => b \in Registered'
      BY <1>n, <1>o DEF Registered
    <3> QED
      BY <1>1, <1>4, <1>5, <1>9, <3>1, OneStillSteers
  <2>a. request[t].isNew => OnBot(b)' = {} /\ b \notin Registered
    <3>1. request[t].isNew <=> b \notin Registered
      BY <1>2, <2>1 DEF BotInv, KnowsActor
    <3>2. request[t].isNew => OnBot(b) = {t}
      BY <1>2, <2>1, <3>1 DEF Tolerated
    <3> QED
      BY <1>4, <2>1, <3>1, <3>2
  <2>b. ~request[t].isNew => /\ (b \in Registered' <=> b \in Registered) /\ table' = table /\ Now(b)' = Now(b)
                             /\ b \in Registered
    <3>1. ~request[t].isNew => b \in Registered
      BY <1>2, <2>1 DEF BotInv, KnowsActor
    <3> QED
      BY <1>o, <3>1 DEF Registered, Now
  <2>c. request[t].isNew => b \in Registered' /\ Now(b)' = "Stopped"
    BY <1>3, <1>n DEF Registered, Now
  <2>d. /\ saved' = saved /\ derived' = derived /\ launched' = launched /\ skipped' = skipped /\ restored' = restored
        /\ b \in saved
    BY <1>2, <2>1 DEF SaveActor, BotInv, FilesFollow, In
  <2>3. KnowsActor(b)'
    BY <1>4, <2>1, <2>a, <2>b DEF BotInv, KnowsActor, In
  <2>4. ActorFollows(b)'
    <3>1. CASE request[t].isNew
      BY <2>1, <2>a, <2>c, <2>d, <3>1 DEF BotInv, ActorFollows, AtRest
    <3>2. CASE ~request[t].isNew
      <4>1. ~Steers(t) /\ OnBot(b)' = OnBot(b) \ {t}
        BY <1>2, <1>4, <2>1 DEF Steers, In
      <4> QED
        BY <2>1, <2>b, <2>d, <3>2, <4>1 DEF BotInv, ActorFollows, Fits, AtRest, Steers, In
    <3> QED
      BY <3>1, <3>2
  <2>5. FilesFollow(b)'
    <3>1. OnBot(b)' = OnBot(b) \ {t} /\ b \in Registered'
      BY <1>4, <2>1, <2>b, <2>c
    <3> QED
      BY <2>1, <2>d, <3>1 DEF BotInv, FilesFollow, In
  <2>6. ClosingFollows(b)'
    BY <1>2, <2>1
  <2> QED
    BY <2>2, <2>3, <2>4, <2>5, <2>6 DEF BotInv
<1> QED
  BY <1>1, <1>5, <1>6, <1>7, <1>8, <1>9, TaskKeepsInv

\* A deletion asks an active bot to stop, which has a process then.
LEMMA DeleteLookKeepsInv ==
    ASSUME RegistryInv, NEW t \in AllRequesters, DeleteLook(t)
    PROVE  RegistryInv'
<1>1. PICK b : b = request[t].bot
  OBVIOUS
<1>2. request[t] # Asleep /\ request[t].op = "delete" /\ request[t].at = "look"
  BY DEF DeleteLook, Is, Asleep
<1>3. /\ request[t] \in Requests /\ b \in BotIds /\ request[t].actor \in 0 .. MaxActors
      /\ SoundRequest(t) /\ RegistryTypes
  BY <1>1, <1>2, RequestHasBot DEF RegistryInv, RequestsAreSound
<1>4. table[b] \in 0 .. MaxActors /\ table' = table /\ "persist" \in AnyStep /\ "backend" \in AnyStep
  BY <1>3 DEF RegistryTypes, DeleteLook, AnyStep
<1>n. request[t].isNew \in BOOLEAN
  BY <1>3 DEF Requests
<1>a. ASSUME table[b] # 0, IsActive(actors[b][table[b]])
      PROVE  /\ Looks(t, "backend", table[b], request[t].isNew)
             /\ request' \in [AllRequesters -> Requests \cup {Asleep}]
             /\ \A u \in AllRequesters \ {t} : request'[u] = request[u]
             /\ actors' \in [BotIds -> [1 .. MaxActors -> ActorState]]
             /\ \A c \in BotIds \ {b} : actors'[c] = actors[c]
             /\ actors'[b][table[b]] = "Stopping"
  <2>1. /\ actors' = [actors EXCEPT ![b][table[b]] = Told("request_stop", @)]
        /\ request' = [request EXCEPT ![t].at = "backend", ![t].actor = table[b]]
    BY <1>1, <1>a DEF DeleteLook
  <2>2. Looking(t, "backend", table[b], request[t].isNew)
    BY <1>3, <2>1 DEF Requests, RegistryTypes, Looking
  <2>3. actors \in [BotIds -> [1 .. MaxActors -> ActorState]]
    BY <1>3 DEF RegistryTypes
  <2>4. table[b] \in 1 .. MaxActors
    BY <1>4, <1>a, MaxActorsAssumption
  <2>5. Told("request_stop", actors[b][table[b]]) = "Stopping" /\ "Stopping" \in ActorState
    <3>1. Told("request_stop", "Stopping") = "Stopping"
      BY ToldIs
    <3> QED
      BY <1>a, <3>1, ToldIs DEF IsActive, ActorState, State
  <2>6. actors' = [actors EXCEPT ![b][table[b]] = "Stopping"]
    BY <1>3, <2>1, <2>3, <2>4, <2>5
  <2>7. /\ actors' \in [BotIds -> [1 .. MaxActors -> ActorState]]
        /\ \A c \in BotIds \ {b} : actors'[c] = actors[c]
        /\ actors'[b][table[b]] = "Stopping"
    BY <1>3, <2>3, <2>4, <2>5, <2>6
  <2> QED
    BY <1>2, <1>4, <1>n, <2>2, <2>7, RequestLooks
<1>b. ASSUME ~(table[b] # 0 /\ IsActive(actors[b][table[b]]))
      PROVE  /\ Looks(t, "persist", table[b], request[t].isNew)
             /\ request' \in [AllRequesters -> Requests \cup {Asleep}]
             /\ \A u \in AllRequesters \ {t} : request'[u] = request[u]
             /\ actors' = actors
  <2>1. /\ actors' = actors
        /\ request' = [request EXCEPT ![t].at = "persist", ![t].actor = table[b]]
    BY <1>1, <1>b DEF DeleteLook
  <2>2. Looking(t, "persist", table[b], request[t].isNew)
    BY <1>3, <2>1 DEF Requests, RegistryTypes, Looking
  <2> QED
    BY <1>2, <1>4, <1>n, <2>1, <2>2, RequestLooks
<1>5. TaskStep(t)
  BY <1>1, <1>2, <1>a, <1>b DEF DeleteLook, TaskStep, Looks
<1>6. RegistryTypes'
  BY <1>3, <1>a, <1>b DEF DeleteLook, RegistryTypes
<1>7. RequestsAreSound'
  <2>1. request'[t] # Asleep => SoundRequest(t)'
    BY <1>2, <1>3, <1>a, <1>b DEF SoundRequest, Looks
  <2> QED
    BY <1>5, <2>1, RequestsStaySound
<1>8. RoomIsKept'
  <2>1. \A u \in Requesters : request'[u].isNew => request[u].isNew
    BY <1>a, <1>b DEF AllRequesters, Looks
  <2>2. crowded' = crowded
    BY DEF DeleteLook
  <2> QED
    BY <1>4, <2>1, <2>2, RoomStays
<1>9. ASSUME Clean(b)' PROVE BotInv(b)'
  <2>1. /\ BotInv(b) /\ t \in OnBot(b)
        /\ OnBot(b)' = IF request'[t] = Asleep THEN OnBot(b) \ {t} ELSE OnBot(b)
        /\ \A u \in OnBot(b) : u # t => request'[u] = request[u]
        /\ \A u \in OnBot(b) : u # t => Tolerated(b, request[t].op, request[u].op) /\ ~(Steers(t) /\ Steers(u))
        /\ request[t].op # "stop" => ClosingFollows(b)'
    BY <1>1, <1>5, <1>9, OwnBot
  <2>a. OnBot(b) = {t} /\ OnBot(b)' = {t} /\ ~Steers(t)
    <3>1. OnBot(b) = {t}
      BY <1>2, <2>1 DEF Tolerated
    <3>2. request'[t] # Asleep
      BY <1>a, <1>b DEF Looks
    <3> QED
      BY <1>2, <2>1, <3>1, <3>2 DEF Steers, In
  <2>b. /\ request'[t].op = "delete" /\ request'[t].actor = table[b]
        /\ request'[t].at = "backend" \/ request'[t].at = "persist"
    BY <1>2, <1>a, <1>b DEF Looks
  <2>c. saved' = saved /\ derived' = derived /\ launched' = launched /\ restored' = restored /\ skipped' = skipped
        /\ (b \in Registered' <=> b \in Registered)
    BY <1>4 DEF DeleteLook, Registered
  <2>2. OneSteers(b)'
    BY <2>a DEF OneSteers
  <2>3. KnowsActor(b)'
    BY <1>4, <2>a, <2>b DEF KnowsActor, In
  <2>4. ActorFollows(b)'
    <3>1. b \in Registered => AtRest(b)
      BY <2>1, <2>a DEF BotInv, ActorFollows
    <3>2. b \in Registered => table[b] # 0
      BY DEF Registered
    <3>3. CASE b \in Registered /\ IsActive(Now(b))
      <4>1. Now(b)' = "Stopping" /\ request'[t].at = "backend"
        BY <1>4, <1>a, <3>2, <3>3 DEF Now, Looks
      <4>2. b \in launched
        BY <3>1, <3>3 DEF AtRest, IsActive
      <4> QED
        BY <2>a, <2>b, <2>c, <3>3, <4>1, <4>2 DEF ActorFollows, Fits, Steers, In
    <3>4. CASE b \in Registered /\ ~IsActive(Now(b))
      <4>1. Now(b)' = Now(b) /\ request'[t].at = "persist"
        BY <1>4, <1>b, <3>4 DEF Now, Looks
      <4>2. Now(b) \in {"Stopped", "Crashed"} /\ b \notin launched
        BY <3>1, <3>4 DEF AtRest, IsActive
      <4> QED
        BY <2>a, <2>b, <2>c, <3>4, <4>1, <4>2 DEF ActorFollows, Fits, Steers, In
    <3>5. CASE b \notin Registered
      BY <2>1, <2>c, <3>5 DEF BotInv, ActorFollows
    <3> QED
      BY <3>3, <3>4, <3>5
  <2>5. FilesFollow(b)'
    BY <1>2, <2>1, <2>a, <2>b, <2>c DEF BotInv, FilesFollow, In
  <2>6. ClosingFollows(b)'
    BY <1>2, <2>1
  <2> QED
    BY <2>2, <2>3, <2>4, <2>5, <2>6 DEF BotInv
<1> QED
  BY <1>1, <1>5, <1>6, <1>7, <1>8, <1>9, TaskKeepsInv

\* A new request is looked at beside those there are.
LEMMA RequestKeepsInv ==
    ASSUME RegistryInv, NEW t \in Requesters, NEW b \in BotIds, NEW op \in Op, Request(t, b, op)
    PROVE  RegistryInv'
<1> DEFINE r == [op |-> op, bot |-> b, at |-> "look", actor |-> 0, isNew |-> FALSE]
<1>1. /\ t \in AllRequesters /\ t # Closer /\ request[t] = Asleep
      /\ RegistryTypes /\ request' = [request EXCEPT ![t] = r]
  BY RequestersAssumption DEF Request, Ask, AllRequesters, Closer, RegistryInv
<1>2. r \in Requests
  BY MaxActorsAssumption DEF Requests, AnyStep
<1>3. /\ r.op = op /\ r.bot = b /\ r.at = "look" /\ r.isNew = FALSE
      /\ r # Asleep
  BY BotIdsAssumption DEF Asleep
<1> HIDE DEF r
<1>4. /\ request' \in [AllRequesters -> Requests \cup {Asleep}] /\ request'[t] = r
      /\ \A u \in AllRequesters \ {t} : request'[u] = request[u]
  BY <1>1, <1>2, RequestBecomes
<1>5. /\ saved' = saved /\ derived' = derived /\ table' = table /\ actors' = actors /\ skipped' = skipped
      /\ launched' = launched /\ closing' = closing /\ restored' = restored /\ broken' = broken
      /\ crowded' = crowded /\ Registered' = Registered
      /\ mixed' = IF closing.stopping THEN mixed \cup {b} ELSE Mixed(b, op)
  BY DEF Request, Registered
<1>6. RegistryTypes'
  BY <1>1, <1>4, <1>5 DEF RegistryTypes
<1>7. RequestsAreSound'
  <2>1. \A u \in AllRequesters : request'[u] # Asleep => SoundRequest(u)'
    <3>1. SoundRequest(t)'
      BY <1>3, <1>4 DEF SoundRequest
    <3>2. \A u \in AllRequesters \ {t} : request'[u] # Asleep => SoundRequest(u)'
      BY <1>4 DEF RegistryInv, RequestsAreSound, SoundRequest
    <3> QED
      BY <3>1, <3>2
  <2>2. request'[Closer] = request[Closer]
    BY <1>1, <1>4 DEF AllRequesters
  <2> QED
    BY <1>5, <2>1, <2>2 DEF RegistryInv, RequestsAreSound
<1>8. RoomIsKept'
  <2>1. \A u \in Requesters : request'[u].isNew => request[u].isNew
    BY <1>3, <1>4 DEF AllRequesters
  <2> QED
    BY <1>5, <2>1, RoomStays
<1>9. ASSUME NEW c \in BotIds, Clean(c)' PROVE BotInv(c)'
  <2>1. Clean(c)
    BY <1>5, <1>9 DEF Clean, Mixed
  <2>2. BotInv(c)
    BY <2>1 DEF RegistryInv
  <2>3. t \notin OnBot(c)
    BY <1>1, BotIdsAssumption DEF OnBot, Asleep
  <2>4. CASE c # b
    <3>1. OnBot(c)' = OnBot(c) /\ \A u \in OnBot(c) : request'[u] = request[u]
      BY <1>3, <1>4, <2>3, <2>4 DEF OnBot
    <3>2. Untouched(c)
      BY <1>5, <3>1 DEF Untouched
    <3> QED
      BY <2>2, <3>2, UntouchedBot
  <2>5. CASE c = b
    <3>1. OnBot(c)' = OnBot(c) \cup {t} /\ \A u \in OnBot(c) : request'[u] = request[u] /\ u # t
      BY <1>1, <1>3, <1>4, <2>3, <2>5 DEF OnBot
    <3>2. ~closing.stopping
      BY <1>5, <1>9, <2>5 DEF Clean
    <3>3. \A u \in OnBot(c) : Tolerated(c, op, request[u].op)
      <4>1. \A u \in OnBot(c) : Harmless(b, {op, request[u].op})
        BY <1>5, <1>9, <2>5, <3>2 DEF Clean, Mixed, OnBot
      <4>2. \A u \in OnBot(c) : request[u].op \in Op
        BY <1>1, BotIdsAssumption DEF OnBot, RegistryTypes, Requests, Asleep
      <4> QED
        BY <2>5, <4>1, <4>2, HarmlessIsTolerated
    <3>4. Now(c)' = Now(c) /\ ~Steers(t)' /\ request'[t].at = "look" /\ request'[t].op = op
      BY <1>3, <1>4, <1>5 DEF Now, Steers, In
    <3>5. OneSteers(c)'
      <4>1. SUFFICES ASSUME NEW u \in OnBot(c)', NEW v \in OnBot(c)', u # v
                     PROVE  Tolerated(c, request[u].op, request[v].op)' /\ ~(Steers(u) /\ Steers(v))'
        BY DEF OneSteers
      <4>2. CASE u = t
        BY <1>5, <3>1, <3>3, <3>4, <4>1, <4>2 DEF Tolerated
      <4>3. CASE v = t
        BY <1>5, <3>1, <3>3, <3>4, <4>1, <4>3 DEF Tolerated
      <4>4. CASE u # t /\ v # t
        <5>1. Tolerated(c, request[u].op, request[v].op) /\ ~(Steers(u) /\ Steers(v))
          BY <2>2, <3>1, <4>1, <4>4 DEF BotInv, OneSteers
        <5> QED
          BY <1>5, <3>1, <4>4, <5>1 DEF Tolerated, Steers, In
      <4> QED
        BY <4>2, <4>3, <4>4
    <3>6. KnowsActor(c)'
      BY <1>5, <2>2, <3>1, <3>4 DEF BotInv, KnowsActor, In
    <3>7. ActorFollows(c)'
      <4>1. Fits(t, c)'
        BY <3>4 DEF Fits, In
      <4>2. /\ \A u \in OnBot(c) : (Steers(u)' <=> Steers(u)) /\ (Fits(u, c)' <=> Fits(u, c))
            /\ AtRest(c)' <=> AtRest(c)
        BY <1>5, <3>1, <3>4 DEF Steers, In, Fits, AtRest
      <4> QED
        BY <1>5, <2>2, <3>1, <4>1, <4>2 DEF BotInv, ActorFollows
    <3>8. FilesFollow(c)'
      BY <1>5, <2>2, <3>1, <3>4 DEF BotInv, FilesFollow, In
    <3>9. ClosingFollows(c)'
      BY <1>5, <3>2 DEF ClosingFollows
    <3> QED
      BY <3>5, <3>6, <3>7, <3>8, <3>9 DEF BotInv
  <2> QED
    BY <2>4, <2>5
<1> QED
  BY <1>6, <1>7, <1>8, <1>9 DEF RegistryInv

\* A task of shutdown_all asks for the stop of one of the bots it chose.
LEMMA ShutdownStopKeepsInv ==
    ASSUME RegistryInv, ShutdownStop
    PROVE  RegistryInv'
<1>1. PICK b \in closing.left : closing' = [closing EXCEPT !.left = @ \ {b}] /\ Ask(Closer, b, "stop")
  BY DEF ShutdownStop
<1> DEFINE r == [op |-> "stop", bot |-> b, at |-> "look", actor |-> 0, isNew |-> FALSE]
<1>2. RegistryTypes /\ RequestsAreSound /\ b \in BotIds /\ closing.stopping
  BY <1>1 DEF RegistryInv, RequestsAreSound, RegistryTypes
<1>3. r \in Requests
  BY <1>2, MaxActorsAssumption DEF Requests, AnyStep, Op
<1>4. /\ r.op = "stop" /\ r.bot = b /\ r.at = "look" /\ r.isNew = FALSE
      /\ r # Asleep /\ Closer \in AllRequesters
  BY DEF Asleep, AllRequesters
<1>5. request[Closer] = Asleep /\ request' = [request EXCEPT ![Closer] = r]
  BY <1>1 DEF Ask
<1> HIDE DEF r
<1>6. /\ request' \in [AllRequesters -> Requests \cup {Asleep}] /\ request'[Closer] = r
      /\ \A u \in AllRequesters \ {Closer} : request'[u] = request[u]
  BY <1>3, <1>4, <1>5, RequestBecomes
<1>7. /\ saved' = saved /\ derived' = derived /\ table' = table /\ actors' = actors /\ skipped' = skipped
      /\ launched' = launched /\ restored' = restored /\ broken' = broken
      /\ crowded' = crowded /\ Registered' = Registered /\ mixed' = mixed
  BY DEF ShutdownStop, Registered
<1>8. /\ closing' \in [stopping : BOOLEAN, left : SUBSET BotIds]
      /\ closing'.stopping = closing.stopping /\ closing'.left = closing.left \ {b}
  BY <1>1, <1>2 DEF RegistryTypes
<1>9. RegistryTypes'
  BY <1>2, <1>6, <1>7, <1>8 DEF RegistryTypes
<1>10. RequestsAreSound'
  <2>1. SoundRequest(Closer)'
    BY <1>4, <1>6 DEF SoundRequest
  <2>2. \A u \in AllRequesters \ {Closer} : request'[u] # Asleep => SoundRequest(u)'
    BY <1>2, <1>6 DEF RequestsAreSound, SoundRequest
  <2> QED
    BY <1>2, <1>4, <1>6, <1>8, <2>1, <2>2 DEF RequestsAreSound
<1>11. RoomIsKept'
  <2>1. \A u \in Requesters : request'[u].isNew => request[u].isNew
    BY <1>4, <1>6 DEF AllRequesters
  <2> QED
    BY <1>7, <2>1, RoomStays
<1>12. ASSUME NEW c \in BotIds, Clean(c)' PROVE BotInv(c)'
  <2>1. BotInv(c)
    BY <1>7, <1>12 DEF RegistryInv, Clean
  <2>2. Closer \notin OnBot(c)
    BY <1>5, BotIdsAssumption DEF OnBot, Asleep
  <2>3. CASE c # b
    <3>1. OnBot(c)' = OnBot(c) /\ \A u \in OnBot(c) : request'[u] = request[u]
      BY <1>4, <1>6, <2>2, <2>3 DEF OnBot
    <3>2. Untouched(c)
      BY <1>7, <1>8, <2>3, <3>1 DEF Untouched
    <3> QED
      BY <2>1, <3>2, UntouchedBot
  <2>4. CASE c = b
    <3>1. OnBot(c) = {}
      BY <1>1, <1>2, <2>1, <2>4 DEF BotInv, ClosingFollows
    <3>2. OnBot(c)' = {Closer}
      BY <1>4, <1>6, <2>4, <3>1 DEF OnBot
    <3>3. request'[Closer].op = "stop" /\ request'[Closer].at = "look" /\ Now(c)' = Now(c)
      BY <1>4, <1>6, <1>7 DEF Now
    <3>4. ~Steers(Closer)' /\ Fits(Closer, c)' /\ (AtRest(c)' <=> AtRest(c))
      BY <1>7, <3>3 DEF Steers, In, Fits, AtRest
    <3>5. OneSteers(c)' /\ KnowsActor(c)'
      BY <3>2, <3>3 DEF OneSteers, KnowsActor, In
    <3>6. ActorFollows(c)'
      BY <1>7, <2>1, <3>1, <3>2, <3>4 DEF BotInv, ActorFollows
    <3>7. FilesFollow(c)'
      BY <1>7, <2>1, <3>1, <3>2, <3>3 DEF BotInv, FilesFollow, In
    <3>8. ClosingFollows(c)'
      BY <1>8, <2>4, <3>2, <3>3 DEF ClosingFollows
    <3> QED
      BY <3>5, <3>6, <3>7, <3>8 DEF BotInv
  <2> QED
    BY <2>3, <2>4
<1> QED
  BY <1>9, <1>10, <1>11, <1>12 DEF RegistryInv

\* A step that notes every request at work leaves the clean bots with none.
LEMMA NotedBotsRest ==
    ASSUME RegistryInv, request[Closer] = Asleep, NEW c \in BotIds, Clean(c)',
           mixed' = mixed \cup {request[t].bot : t \in {u \in Requesters : request[u] # Asleep}},
           broken' = broken
    PROVE  OnBot(c) = {} /\ BotInv(c)
<1>1. Clean(c)
  BY DEF Clean
<1>2. \A u \in AllRequesters : request[u].bot # c
  <2>1. ASSUME NEW u \in AllRequesters, request[u].bot = c PROVE FALSE
    <3>1. request[u] # Asleep
      BY <2>1, BotIdsAssumption DEF Asleep
    <3>2. u \in Requesters
      BY <3>1 DEF AllRequesters
    <3> QED
      BY <2>1, <3>1, <3>2 DEF Clean
  <2> QED
    BY <2>1
<1> QED
  BY <1>1, <1>2 DEF OnBot, RegistryInv

\* shutdown_all chooses the bots it is to stop.
LEMMA ShutdownBeginKeepsInv ==
    ASSUME RegistryInv, ShutdownBegin
    PROVE  RegistryInv'
<1>1. /\ saved' = saved /\ derived' = derived /\ table' = table /\ actors' = actors /\ skipped' = skipped
      /\ launched' = launched /\ restored' = restored /\ broken' = broken /\ request' = request
      /\ crowded' = crowded /\ Registered' = Registered /\ ~closing.stopping
      /\ closing' = [stopping |-> TRUE, left |-> {b \in Registered : IsActive(actors[b][table[b]])}]
      /\ mixed' = mixed \cup {request[t].bot : t \in {u \in Requesters : request[u] # Asleep}}
  BY DEF ShutdownBegin, Registered
<1>2. request[Closer] = Asleep /\ RegistryTypes /\ RequestsAreSound
  BY <1>1 DEF RegistryInv, RequestsAreSound
<1>3. RegistryTypes'
  <2>1. Registered \subseteq BotIds
    BY DEF Registered
  <2> QED
    BY <1>1, <1>2, <2>1 DEF RegistryTypes
<1>4. RequestsAreSound'
  BY <1>1, <1>2 DEF RequestsAreSound, SoundRequest
<1>5. RoomIsKept'
  BY <1>1, RoomStays
<1>6. ASSUME NEW c \in BotIds, Clean(c)' PROVE BotInv(c)'
  <2>1. OnBot(c) = {} /\ BotInv(c)
    BY <1>1, <1>2, <1>6, NotedBotsRest
  <2>2. OnBot(c)' = {} /\ Now(c)' = Now(c)
    BY <1>1, <2>1 DEF OnBot, Now
  <2>3. OneSteers(c)' /\ KnowsActor(c)'
    BY <2>2 DEF OneSteers, KnowsActor
  <2>4. ActorFollows(c)'
    BY <1>1, <2>1, <2>2 DEF BotInv, ActorFollows, AtRest
  <2>5. FilesFollow(c)'
    BY <1>1, <2>1, <2>2 DEF BotInv, FilesFollow
  <2>6. ClosingFollows(c)'
    BY <1>1, <2>2 DEF ClosingFollows, Now, IsActive
  <2> QED
    BY <2>3, <2>4, <2>5, <2>6 DEF BotInv
<1> QED
  BY <1>3, <1>4, <1>5, <1>6 DEF RegistryInv

\* shutdown_all closes every actor and empties the table, with no process left.
LEMMA ShutdownClearKeepsInv ==
    ASSUME RegistryInv, ShutdownClear
    PROVE  RegistryInv'
<1>1. /\ saved' = saved /\ derived' = derived /\ skipped' = skipped
      /\ launched' = launched /\ restored' = FALSE /\ broken' = broken /\ request' = request
      /\ crowded' = crowded /\ table' = [b \in BotIds |-> 0]
      /\ closing.stopping /\ closing.left = {} /\ request[Closer] = Asleep
      /\ mixed' = mixed \cup {request[t].bot : t \in {u \in Requesters : request[u] # Asleep}}
  BY DEF ShutdownClear
<1>2. RegistryTypes /\ RequestsAreSound
  BY DEF RegistryInv
<1>3. /\ closing' \in [stopping : BOOLEAN, left : SUBSET BotIds]
      /\ closing'.stopping = FALSE /\ closing'.left = {}
  BY <1>1, <1>2 DEF ShutdownClear, RegistryTypes
<1>4. actors' \in [BotIds -> [1 .. MaxActors -> ActorState]]
  <2>1. actors' = [b \in BotIds |-> IF table[b] = 0 THEN actors[b]
                                    ELSE [actors[b] EXCEPT ![table[b]] = "Closed"]]
    BY DEF ShutdownClear
  <2>2. "Closed" \in ActorState /\ actors \in [BotIds -> [1 .. MaxActors -> ActorState]]
    BY <1>2 DEF ActorState, RegistryTypes
  <2> QED
    BY <2>1, <2>2
<1>5. RegistryTypes'
  <2>1. table' \in [BotIds -> 0 .. MaxActors]
    BY <1>1, MaxActorsAssumption
  <2> QED
    BY <1>1, <1>2, <1>3, <1>4, <2>1 DEF RegistryTypes
<1>6. RequestsAreSound'
  BY <1>1, <1>2, <1>3 DEF RequestsAreSound, SoundRequest
<1>7. RoomIsKept'
  BY <1>1, RoomStays
<1>8. ASSUME NEW c \in BotIds, Clean(c)' PROVE BotInv(c)'
  <2>1. OnBot(c) = {} /\ BotInv(c)
    BY <1>1, <1>8, NotedBotsRest
  <2>2. OnBot(c)' = {} /\ c \notin Registered'
    BY <1>1, <2>1 DEF OnBot, Registered
  <2>3. c \notin launched
    BY <1>1, <2>1 DEF BotInv, ActorFollows, AtRest, ClosingFollows
  <2>4. c \in derived => c \in saved
    BY <2>1 DEF BotInv, FilesFollow
  <2>5. OneSteers(c)' /\ KnowsActor(c)'
    BY <2>2 DEF OneSteers, KnowsActor
  <2>6. ActorFollows(c)' /\ ClosingFollows(c)'
    BY <1>1, <1>3, <2>2, <2>3 DEF ActorFollows, ClosingFollows
  <2>7. FilesFollow(c)'
    BY <1>1, <2>2, <2>4 DEF FilesFollow
  <2> QED
    BY <2>5, <2>6, <2>7 DEF BotInv
<1> QED
  BY <1>5, <1>6, <1>7, <1>8 DEF RegistryInv

\* Bootstrap gives every saved bot it has room for an actor.
LEMMA BootstrapKeepsInv ==
    ASSUME RegistryInv, Bootstrap
    PROVE  RegistryInv'
<1>1. PICK S \in SUBSET (saved \ Registered) :
          /\ \A b \in S : Unborn(b) # {}
          /\ Cardinality(Registered \cup S) <= MaxBots
          /\ table' = [b \in BotIds |-> IF b \in S THEN NextActor(b) ELSE table[b]]
          /\ actors' = Spawn(S)
  BY DEF Bootstrap
<1>2. /\ saved' = saved /\ derived' = derived /\ launched' = launched /\ request' = request
      /\ closing' = closing /\ broken' = broken /\ restored' = TRUE
      /\ skipped' = saved \ {b \in BotIds : table'[b] # 0}
      /\ crowded' = (crowded \/ \E t \in Requesters : request[t].isNew)
      /\ mixed' = mixed \cup {request[t].bot : t \in {u \in Requesters : request[u].isNew}}
  BY DEF Bootstrap
<1>3. RegistryTypes /\ RequestsAreSound
  BY DEF RegistryInv
<1>4. \A b \in S : b \in BotIds /\ table[b] = 0 /\ NextActor(b) \in 1 .. MaxActors
  <2>1. \A b \in S : NextActor(b) \in 1 .. MaxActors
    BY <1>1, NextActorIsUnborn
  <2> QED
    BY <1>1, <1>3, <2>1 DEF RegistryTypes, Registered
<1>5. /\ \A b \in S : table'[b] = NextActor(b) /\ table'[b] # 0 /\ actors'[b][table'[b]] = "Stopped"
      /\ \A b \in BotIds \ S : table'[b] = table[b] /\ actors'[b] = actors[b]
      /\ table' \in [BotIds -> 0 .. MaxActors]
      /\ actors' \in [BotIds -> [1 .. MaxActors -> ActorState]]
  <2>1. actors' = [b \in BotIds |-> IF b \in S THEN [actors[b] EXCEPT ![NextActor(b)] = "Stopped"] ELSE actors[b]]
    BY <1>1 DEF Spawn
  <2>2. /\ table \in [BotIds -> 0 .. MaxActors]
        /\ actors \in [BotIds -> [1 .. MaxActors -> ActorState]]
    BY <1>3 DEF RegistryTypes
  <2>3. \A b \in S : table'[b] = NextActor(b) /\ table'[b] # 0
    BY <1>1, <1>4, MaxActorsAssumption
  <2>4. \A b \in S : actors'[b][NextActor(b)] = "Stopped"
    BY <1>4, <2>1, <2>2
  <2>5. \A b \in BotIds \ S : table'[b] = table[b] /\ actors'[b] = actors[b]
    BY <1>1, <2>1
  <2>6. table' \in [BotIds -> 0 .. MaxActors]
    <3>1. \A b \in BotIds : table'[b] \in 0 .. MaxActors
      BY <1>1, <1>4, <2>2, MaxActorsAssumption
    <3> QED
      BY <1>1, <3>1
  <2>7. actors' \in [BotIds -> [1 .. MaxActors -> ActorState]]
    <3>1. "Stopped" \in ActorState
      BY DEF ActorState, State
    <3>2. \A b \in BotIds : actors'[b] \in [1 .. MaxActors -> ActorState]
      BY <1>4, <2>1, <2>2, <3>1
    <3> QED
      BY <2>1, <3>2
  <2> QED
    BY <2>3, <2>4, <2>5, <2>6, <2>7
<1>6. Registered' = Registered \cup S
  BY <1>4, <1>5 DEF Registered
<1>7. RegistryTypes'
  <2>1. skipped' \subseteq BotIds /\ crowded' \in BOOLEAN
    BY <1>2, <1>3 DEF RegistryTypes
  <2> QED
    BY <1>2, <1>3, <1>5, <2>1 DEF RegistryTypes
<1>8. RequestsAreSound'
  BY <1>2, <1>3 DEF RequestsAreSound, SoundRequest
<1>9. RoomIsKept'
  BY <1>1, <1>2, <1>6 DEF RoomIsKept
<1>10. ASSUME NEW b \in BotIds, Clean(b)' PROVE BotInv(b)'
  <2>1. BotInv(b)
    BY <1>2, <1>10 DEF RegistryInv, Clean
  <2>2. OnBot(b)' = OnBot(b) /\ (b \in Registered => b \in Registered')
    BY <1>2, <1>6 DEF OnBot
  <2>3. b \notin saved' \/ b \in Registered' \cup skipped'
    BY <1>2, <1>10 DEF Registered
  <2>4. CASE b \notin S
    <3>1. Now(b)' = Now(b) /\ table'[b] = table[b] /\ (b \in Registered' <=> b \in Registered)
      BY <1>5, <1>6, <1>10, <2>4 DEF Now
    <3>2. OneSteers(b)'
      BY <1>2, <2>1, <2>2, <3>1 DEF BotInv, OneSteers, Tolerated, Steers, In
    <3>3. KnowsActor(b)'
      BY <1>2, <2>1, <2>2, <3>1 DEF BotInv, KnowsActor, In
    <3>4. ActorFollows(b)'
      BY <1>2, <2>1, <2>2, <3>1 DEF BotInv, ActorFollows, Fits, AtRest, Steers, In
    <3>5. FilesFollow(b)'
      BY <1>2, <2>1, <2>2, <2>3, <3>1 DEF BotInv, FilesFollow, In
    <3>6. ClosingFollows(b)'
      BY <1>2, <2>1, <2>2, <3>1 DEF BotInv, ClosingFollows
    <3> QED
      BY <3>2, <3>3, <3>4, <3>5, <3>6 DEF BotInv
  <2>5. CASE b \in S
    <3>1. /\ b \in saved /\ b \notin Registered /\ b \in Registered' /\ table[b] = 0
          /\ Now(b)' = "Stopped" /\ b \notin launched
      BY <1>1, <1>4, <1>5, <1>6, <2>1, <2>5 DEF Now, BotInv, ActorFollows
    <3>2. \A t \in OnBot(b) : /\ request[t].op \in {"start", "stop"} => request[t].at = "look"
                              /\ ~In(t, "delete", {"backend", "confirm"})
                              /\ request[t].op = "delete" /\ request[t].at # "look" => request[t].actor = 0
      <4>1. SUFFICES ASSUME NEW t \in OnBot(b)
                     PROVE  /\ request[t].op \in {"start", "stop"} => request[t].at = "look"
                            /\ ~In(t, "delete", {"backend", "confirm"})
                            /\ request[t].op = "delete" /\ request[t].at # "look" => request[t].actor = 0
        OBVIOUS
      <4>2. SoundRequest(t)
        BY <1>3, <1>10, BotIdsAssumption DEF RequestsAreSound, OnBot, Asleep
      <4> QED
        BY <2>1, <3>1, <4>2 DEF BotInv, KnowsActor, SoundRequest, In
    <3>3. \A t \in OnBot(b) : request[t].op = "save" => request[t].at = "look"
      <4>1. SUFFICES ASSUME NEW t \in OnBot(b), request[t].op = "save", request[t].at # "look" PROVE FALSE
        OBVIOUS
      <4>2. request[t].isNew
        BY <2>1, <3>1, <4>1 DEF BotInv, KnowsActor
      <4>3. t \in Requesters
        BY <1>3, <4>1, BotIdsAssumption, <1>10 DEF OnBot, AllRequesters, RequestsAreSound,
           Asleep
      <4>4. b \in mixed'
        BY <1>2, <4>2, <4>3 DEF OnBot
      <4> QED
        BY <1>10, <4>4 DEF Clean
    <3>4. OneSteers(b)'
      BY <1>2, <2>1, <2>2 DEF BotInv, OneSteers, Tolerated, Steers, In
    <3>5. KnowsActor(b)'
      BY <1>2, <2>2, <3>2, <3>3 DEF KnowsActor, In
    <3>6. AtRest(b)' /\ \A t \in OnBot(b)' : Fits(t, b)'
      <4>1. \A t \in OnBot(b) : Fits(t, b)'
        BY <1>2, <3>1, <3>2 DEF Fits, In
      <4> QED
        BY <1>2, <2>2, <3>1, <4>1 DEF AtRest
    <3>7. ActorFollows(b)'
      BY <3>1, <3>6 DEF ActorFollows
    <3>8. FilesFollow(b)'
      BY <1>2, <2>1, <2>2, <2>3, <3>1 DEF BotInv, FilesFollow, In
    <3>9. ClosingFollows(b)'
      BY <1>2, <2>1, <2>2, <3>1 DEF BotInv, ClosingFollows
    <3> QED
      BY <3>4, <3>5, <3>7, <3>8, <3>9 DEF BotInv
  <2> QED
    BY <2>4, <2>5
<1> QED
  BY <1>7, <1>8, <1>9, <1>10 DEF RegistryInv

\* The application starts without actors, processes and requests.
LEMMA RegistryInitInv == RegistryInit => RegistryInv
<1> SUFFICES ASSUME RegistryInit PROVE RegistryInv
  OBVIOUS
<1>1. /\ \A t \in AllRequesters : request[t] = Asleep
      /\ Registered = {} /\ launched = {} /\ derived = saved /\ restored = FALSE
      /\ closing.stopping = FALSE /\ closing.left = {}
  BY DEF RegistryInit, Registered
<1>2. RegistryTypes
  <2>1. "Unborn" \in ActorState
    BY DEF ActorState
  <2>2. actors \in [BotIds -> [1 .. MaxActors -> ActorState]]
    BY <2>1 DEF RegistryInit
  <2>3. request \in [AllRequesters -> Requests \cup {Asleep}]
    BY DEF RegistryInit
  <2>4. table \in [BotIds -> 0 .. MaxActors]
    BY MaxActorsAssumption DEF RegistryInit
  <2> QED
    BY <2>2, <2>3, <2>4 DEF RegistryInit, RegistryTypes
<1>3. RequestsAreSound
  BY <1>1 DEF RequestsAreSound, AllRequesters
<1>4. RoomIsKept
  <2>1. \A t \in Requesters : ~request[t].isNew
    BY <1>1 DEF AllRequesters, Asleep
  <2>2. Cardinality(Registered) = 0
    BY <1>1, FS_EmptySet
  <2> QED
    BY <2>1, <2>2, MaxBotsAssumption DEF RoomIsKept
<1>5. ASSUME NEW b \in BotIds PROVE BotInv(b)
  <2>1. OnBot(b) = {}
    BY <1>1, BotIdsAssumption DEF OnBot, Asleep
  <2>2. OneSteers(b) /\ KnowsActor(b)
    BY <2>1 DEF OneSteers, KnowsActor
  <2>3. ActorFollows(b) /\ FilesFollow(b) /\ ClosingFollows(b)
    BY <1>1, <2>1 DEF ActorFollows, FilesFollow, ClosingFollows
  <2> QED
    BY <2>2, <2>3 DEF BotInv
<1> QED
  BY <1>2, <1>3, <1>4, <1>5 DEF RegistryInv

\* A stuttering step keeps the invariant.
LEMMA RegistryRests ==
    ASSUME RegistryInv, UNCHANGED registryVars
    PROVE  RegistryInv'
<1>1. /\ saved' = saved /\ derived' = derived /\ table' = table /\ actors' = actors /\ skipped' = skipped
      /\ launched' = launched /\ request' = request /\ closing' = closing /\ restored' = restored
      /\ mixed' = mixed /\ broken' = broken /\ crowded' = crowded /\ Registered' = Registered
  BY DEF registryVars, Registered
<1>2. RegistryTypes'
  BY <1>1 DEF RegistryInv, RegistryTypes
<1>3. RequestsAreSound'
  BY <1>1 DEF RegistryInv, RequestsAreSound, SoundRequest
<1>4. RoomIsKept'
  BY <1>1, RoomStays
<1>5. ASSUME NEW b \in BotIds, Clean(b)' PROVE BotInv(b)'
  <2>1. BotInv(b)
    BY <1>1, <1>5 DEF RegistryInv, Clean
  <2>2. Untouched(b)
    BY <1>1 DEF Untouched, OnBot
  <2> QED
    BY <2>1, <2>2, UntouchedBot
<1> QED
  BY <1>2, <1>3, <1>4, <1>5 DEF RegistryInv

\* Every step of the registry keeps the invariant.
LEMMA RegistryStepInv == RegistryInv /\ [RegistryNext]_registryVars => RegistryInv'
<1> SUFFICES ASSUME RegistryInv, [RegistryNext]_registryVars PROVE RegistryInv'
  OBVIOUS
<1>1. CASE \E t \in Requesters, b \in BotIds, op \in Op : Request(t, b, op)
  BY <1>1, RequestKeepsInv
<1>2. CASE \E t \in AllRequesters : SaveStep(t) \/ StartStep(t) \/ StopStep(t) \/ DeleteStep(t) \/ Failure(t)
  <2>1. PICK t \in AllRequesters : SaveStep(t) \/ StartStep(t) \/ StopStep(t) \/ DeleteStep(t) \/ Failure(t)
    BY <1>2
  <2>2. CASE SaveStep(t)
    BY <2>2, SaveLookKeepsInv, SavePersistKeepsInv, SaveRenderKeepsInv,
       SaveActorKeepsInv DEF SaveStep
  <2>3. CASE StartStep(t)
    BY <2>3, StartLookKeepsInv, StartConfigKeepsInv, StartRenderKeepsInv, StartRequestKeepsInv,
       StartLaunchKeepsInv, StartConfirmKeepsInv DEF StartStep
  <2>4. CASE StopStep(t)
    BY <2>4, StopLookKeepsInv, StopRequestKeepsInv, StopBackendKeepsInv,
       StopConfirmKeepsInv DEF StopStep
  <2>5. CASE DeleteStep(t)
    BY <2>5, DeleteLookKeepsInv, DeleteBackendKeepsInv, DeleteConfirmKeepsInv,
       DeletePersistKeepsInv,
       DeleteFilesKeepsInv, DeleteCloseKeepsInv, DeleteRemoveKeepsInv DEF DeleteStep
  <2>6. CASE Failure(t)
    BY <2>6, SavePersistFailsKeepsInv, SaveRenderFailsKeepsInv, StartLaunchFailsKeepsInv,
       StopBackendFailsKeepsInv, DeleteBackendFailsKeepsInv, DeleteFilesFailKeepsInv DEF Failure
  <2> QED
    BY <2>1, <2>2, <2>3, <2>4, <2>5, <2>6
<1>3. CASE Bootstrap \/ ShutdownBegin \/ ShutdownStop \/ ShutdownClear
  BY <1>3, BootstrapKeepsInv, ShutdownBeginKeepsInv, ShutdownStopKeepsInv, ShutdownClearKeepsInv
<1>4. CASE UNCHANGED registryVars
  BY <1>4, RegistryRests
<1> QED
  BY <1>1, <1>2, <1>3, <1>4 DEF RegistryNext

\* The invariant of the registry holds in every behaviour of save, start, stop,
\* delete, bootstrap and shutdown_all.
THEOREM RegistryInvariance == RegistrySpec => []RegistryInv
  BY RegistryInitInv, RegistryStepInv, PTL DEF RegistrySpec

\* The types of the registry's state.
THEOREM RegistryTypeCorrect == RegistrySpec => []RegistryTypeOK
<1>1. RegistryInv => RegistryTypeOK
  BY DEF RegistryInv, RegistryTypes, RegistryTypeOK, Requests
<1> QED
  BY <1>1, RegistryInvariance, PTL

\* For any number of bots, requests and tasks: a bot at rest, whose requests
\* were none of the mixed or half failed ones, has its configuration, derived
\* files, actor and process in agreement, and the table never grows past
\* MAX_BOTS unless room for a new bot was taken between the look at the table
\* and the insert.
THEOREM RegistryCorrect == RegistrySpec => []RegistryIsConsistent
<1>1. RegistryInv => RestingBotIsConsistent
  <2>1. SUFFICES ASSUME RegistryInv, NEW b \in BotIds, Quiet(b)
                 PROVE  /\ b \in derived \cup Registered => b \in saved
                        /\ restored /\ b \in saved => b \in Registered \cup skipped
                        /\ b \in launched <=> (b \in Registered /\ actors[b][table[b]] = "Running")
    BY DEF RestingBotIsConsistent
  <2>2. OnBot(b) = {} /\ BotInv(b)
    BY <2>1 DEF Quiet, OnBot, RegistryInv, Clean
  <2>3. /\ b \in derived \cup Registered => b \in saved
        /\ restored /\ b \in saved => b \in Registered \cup skipped
    BY <2>2 DEF BotInv, FilesFollow
  <2>4. b \in launched <=> (b \in Registered /\ actors[b][table[b]] = "Running")
    BY <2>2 DEF BotInv, ActorFollows, AtRest, Now
  <2> QED
    BY <2>3, <2>4
<1>2. RegistryInv => LimitNeedsCrowd
  <2>1. Cardinality(Registered) \in Nat
    BY FS_Subset, FS_CardinalityType, BotIdsAssumption DEF Registered
  <2> QED
    BY <2>1, MaxBotsAssumption DEF RegistryInv, RoomIsKept, LimitNeedsCrowd
<1>3. RegistryInv => RegistryIsConsistent
  BY <1>1, <1>2 DEF RegistryIsConsistent
<1> QED
  BY <1>3, RegistryInvariance, PTL
=============================================================================
