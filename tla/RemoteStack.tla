----------------------------- MODULE RemoteStack -----------------------------
(***************************************************************************)
(* The SnowLuma stack of one server (ncd-backend-snowluma/src/             *)
(* remote_snowluma): an X display and a node process on the remote machine *)
(* that all SnowLuma bots of that server share, reached through a pair of  *)
(* SSH tunnels.  RemoteSnowLumaDaemon counts the bots that use it, starts  *)
(* it for the first and stops it after the last; the tunnels have a count  *)
(* of their own.  The stack and the QQ processes on its display outlive    *)
(* the desktop, which looks for them when it starts again.                 *)
(*                                                                         *)
(* Starts and stops of one bot come from its actor, one at a time.  Left   *)
(* out: how the stack is installed and probed, the restart of the node for *)
(* another bot's metrics, the entry of the shared QQ tree, status pollers, *)
(* and a remote machine that reboots.                                      *)
(***************************************************************************)
EXTENDS Integers, FiniteSets

CONSTANTS StackBots,     (* the SnowLuma bots of the server                 *)
          MaxStarts,     (* bound: starts requested                         *)
          MaxReopens     (* bound: restarts of the desktop                  *)

VARIABLES stack,     (* the remote stack is ready                           *)
          qqs,       (* bots whose QQ process is alive                      *)
          refcount,  (* RemoteSnowLumaDaemon::refcount                      *)
          tunnels,   (* count of the server's TunnelBundle, 0 without one   *)
          endpoints, (* tunnel_eps is known                                 *)
          user,      (* what start, stop or attach does for each bot        *)
          excuses,   (* what can have gone wrong with the count             *)
          starts, reopens                                (* what is bounded *)

stackVars == <<stack, qqs, refcount, tunnels, endpoints, user, excuses, starts, reopens>>

\* Places of a start in ensure_running, where it holds stack_bootstrap.
Ensuring == {"checking", "raising", "joining", "opening", "counting"}
Attaching == {"attaching", "attach opening", "attach counting"}
\* With a reference: from its count to the release.
Holding == {"preparing", "asking", "injecting", "running", "dropping"}
\* Places of the release that found the count at zero.
Stopping == {"closing last", "killing", "clearing"}

StackPc == {"off", "found", "waiting", "closing"}
           \cup Ensuring \cup Attaching \cup Holding \cup Stopping

UsersAt(places) == {b \in StackBots : user[b].at \in places}
Goes(b, place) == user' = [user EXCEPT ![b].at = place]
\* A failed start has released its reference, or loses it.
Loses(b) == /\ Goes(b, "off")
            /\ excuses' = excuses \cup {"lost"}

StackInit ==
    /\ stack = FALSE /\ qqs = {}
    /\ refcount = 0 /\ tunnels = 0 /\ endpoints = FALSE
    /\ user = [b \in StackBots |-> [at |-> "off", cold |-> TRUE, attached |-> FALSE]]
    /\ excuses = {}
    /\ starts = 0 /\ reopens = 0

-----------------------------------------------------------------------------
(* RemoteSnowLumaDaemon::ensure_running, under stack_bootstrap.            *)

BeginStart(b, cold) ==
    /\ user[b].at = "off" /\ starts < MaxStarts
    /\ starts' = starts + 1
    /\ user' = [user EXCEPT ![b] = [at |-> "waiting", cold |-> cold, attached |-> FALSE]]
    /\ UNCHANGED <<stack, qqs, refcount, tunnels, endpoints, excuses, reopens>>

\* stack_bootstrap is no lock of release: a stop of the stack may be under way.
EnterBootstrap(b) ==
    /\ user[b].at = "waiting" /\ UsersAt(Ensuring) = {}
    /\ Goes(b, "checking")
    /\ excuses' = IF UsersAt(Stopping) # {} THEN excuses \cup {"overlap"} ELSE excuses
    /\ UNCHANGED <<stack, qqs, refcount, tunnels, endpoints, starts, reopens>>

CheckStack(b) ==
    /\ user[b].at = "checking"
    /\ Goes(b, IF stack THEN "joining" ELSE "raising")
    /\ UNCHANGED <<stack, qqs, refcount, tunnels, endpoints, excuses, starts, reopens>>

\* daemon_start, which looks again, and the wait for the WebUI's port
Raise(b) ==
    /\ user[b].at = "raising"
    /\ stack' = TRUE
    /\ Goes(b, "opening")
    /\ UNCHANGED <<qqs, refcount, tunnels, endpoints, excuses, starts, reopens>>

Join(b) ==
    /\ user[b].at = "joining" /\ stack
    /\ Goes(b, "opening")
    /\ UNCHANGED <<stack, qqs, refcount, tunnels, endpoints, excuses, starts, reopens>>

\* Every step up to the tunnels may fail; nothing has been counted yet, but a
\* stack whose WebUI answers too late is up.
EnsureFails(b) ==
    /\ user[b].at \in Ensuring \ {"counting"}
    /\ stack' \in {stack, stack \/ user[b].at = "raising"}
    /\ Goes(b, "off")
    /\ UNCHANGED <<qqs, refcount, tunnels, endpoints, excuses, starts, reopens>>

\* RemoteSnowLumaTunnelRegistry::acquire and the endpoints it returns
OpenTunnels(b) ==
    /\ user[b].at \in {"opening", "attach opening"}
    /\ tunnels' = tunnels + 1
    /\ endpoints' = TRUE
    /\ Goes(b, IF user[b].at = "opening" THEN "counting" ELSE "attach counting")
    /\ UNCHANGED <<stack, qqs, refcount, excuses, starts, reopens>>

MutantCount(b) ==
    /\ user[b].at = "counting"
    /\ refcount' = IF refcount = 0 THEN 1 ELSE refcount
    /\ Goes(b, "preparing")
    /\ UNCHANGED <<stack, qqs, tunnels, endpoints, excuses, starts, reopens>>

Count(b) ==
    /\ user[b].at = "counting"
    /\ refcount' = refcount + 1
    /\ Goes(b, "preparing")
    /\ UNCHANGED <<stack, qqs, tunnels, endpoints, excuses, starts, reopens>>

-----------------------------------------------------------------------------
(* RemoteSnowLumaBackend::start, once the stack runs.                      *)

MutantPrepareFails(b) ==
    /\ user[b].at = "preparing"
    /\ \/ Goes(b, "off") /\ UNCHANGED excuses
       \/ ~user[b].cold /\ Loses(b)
    /\ UNCHANGED <<stack, qqs, refcount, tunnels, endpoints, starts, reopens>>

\* The configuration, the QQ entry or bot_cold_start fails, or a hot start
\* finds no QQ: the reference is released; not so when looking for the
\* process is what fails.
PrepareFails(b) ==
    /\ user[b].at = "preparing"
    /\ \/ Goes(b, "dropping") /\ UNCHANGED excuses
       \/ ~user[b].cold /\ Loses(b)
    /\ UNCHANGED <<stack, qqs, refcount, tunnels, endpoints, starts, reopens>>

\* A hot start finds the QQ process, a cold one too or launches it.
Prepare(b) ==
    /\ user[b].at = "preparing"
    /\ b \in qqs \/ (user[b].cold /\ stack)
    /\ qqs' = qqs \cup {b}
    /\ Goes(b, "asking")
    /\ UNCHANGED <<stack, refcount, tunnels, endpoints, excuses, starts, reopens>>

\* tunnel_endpoints: without them the start returns with its reference.
AskEndpoints(b) ==
    /\ user[b].at = "asking"
    /\ IF endpoints THEN Goes(b, "injecting") /\ UNCHANGED excuses ELSE Loses(b)
    /\ UNCHANGED <<stack, qqs, refcount, tunnels, endpoints, starts, reopens>>

Inject(b) ==
    /\ user[b].at = "injecting" /\ stack /\ b \in qqs
    /\ Goes(b, "running")
    /\ UNCHANGED <<stack, qqs, refcount, tunnels, endpoints, excuses, starts, reopens>>

\* A cold start stops its QQ and, when that one has left a log, returns
\* before the release; attach_reconciled_running releases nothing either.
InjectFails(b) ==
    /\ user[b].at = "injecting"
    /\ qqs' = IF user[b].cold /\ ~user[b].attached THEN qqs \ {b} ELSE qqs
    /\ \/ ~user[b].attached /\ Goes(b, "dropping") /\ UNCHANGED excuses
       \/ (user[b].cold \/ user[b].attached) /\ Loses(b)
    /\ UNCHANGED <<stack, refcount, tunnels, endpoints, starts, reopens>>

-----------------------------------------------------------------------------
(* RemoteSnowLumaBackend::stop and RemoteSnowLumaDaemon::release.          *)

\* bot_stop of a cold started bot may fail, and nobody looks.
Stop(b) ==
    /\ user[b].at = "running"
    /\ \E left \in {qqs, IF user[b].cold THEN qqs \ {b} ELSE qqs} : qqs' = left
    /\ Goes(b, "dropping")
    /\ UNCHANGED <<stack, refcount, tunnels, endpoints, excuses, starts, reopens>>

\* stop_bot asks status first, which takes a status file that cannot be read,
\* and the missing QQ of a hot started bot, for a bot that is stopped.
StopSkipped(b) ==
    /\ user[b].at = "running" /\ (user[b].cold \/ b \notin qqs)
    /\ Loses(b)
    /\ UNCHANGED <<stack, qqs, refcount, tunnels, endpoints, starts, reopens>>

Drop(b) ==
    /\ user[b].at = "dropping"
    /\ IF refcount = 0
       THEN Goes(b, "off") /\ UNCHANGED <<refcount, excuses>>
       ELSE /\ refcount' = refcount - 1
            /\ Goes(b, IF refcount = 1 THEN "closing last" ELSE "closing")
            /\ excuses' = IF refcount = 1 /\ UsersAt(Ensuring \cup Attaching) # {}
                          THEN excuses \cup {"overlap"} ELSE excuses
    /\ UNCHANGED <<stack, qqs, tunnels, endpoints, starts, reopens>>

\* RemoteSnowLumaTunnelRegistry::release
Close(b) ==
    /\ user[b].at \in {"closing", "closing last"}
    /\ tunnels' = IF tunnels = 0 THEN 0 ELSE tunnels - 1
    /\ Goes(b, IF user[b].at = "closing" THEN "off" ELSE "killing")
    /\ UNCHANGED <<stack, qqs, refcount, endpoints, excuses, starts, reopens>>

\* stack_stop: the node first, ...
KillNode(b) ==
    /\ user[b].at = "killing"
    /\ stack' = FALSE
    /\ Goes(b, "clearing")
    /\ UNCHANGED <<qqs, refcount, tunnels, endpoints, excuses, starts, reopens>>

\* ... the display and the file that names the node last; the windows of the
\* display die with it.  Then the endpoints are forgotten.
KillDisplay(b) ==
    /\ user[b].at = "clearing"
    /\ stack' = FALSE
    /\ qqs' = {}
    /\ endpoints' = FALSE
    /\ Goes(b, "off")
    /\ UNCHANGED <<refcount, tunnels, excuses, starts, reopens>>

QqDies(b) ==
    /\ b \in qqs
    /\ qqs' = qqs \ {b}
    /\ UNCHANGED <<stack, refcount, tunnels, endpoints, user, excuses, starts, reopens>>

-----------------------------------------------------------------------------
(* The desktop leaves and comes back: exiting closes the tunnels, and what *)
(* runs on the server stays.                                               *)
Reopen ==
    /\ reopens < MaxReopens
    /\ reopens' = reopens + 1
    /\ refcount' = 0 /\ tunnels' = 0 /\ endpoints' = FALSE
    /\ excuses' = {}
    /\ user' = [b \in StackBots |->
                   [user[b] EXCEPT !.at = IF b \in qqs THEN "found" ELSE "off", !.attached = FALSE]]
    /\ UNCHANGED <<stack, qqs, starts>>

\* reconcile_bootstrap_bots looks at one bot after the other, and passes over
\* one whose QQ or stack is gone, or that cannot be asked.
PassOver(b) ==
    /\ user[b].at \in {"found", "attaching", "attach opening"}
    /\ Goes(b, "off")
    /\ UNCHANGED <<stack, qqs, refcount, tunnels, endpoints, excuses, starts, reopens>>

Attach(b) ==
    /\ user[b].at = "found" /\ b \in qqs
    /\ \A c \in StackBots : /\ user[c].at \notin Attaching
                          /\ user[c].attached => user[c].at \notin {"asking", "injecting"}
    /\ user' = [user EXCEPT ![b] = [@ EXCEPT !.at = "attaching", !.attached = TRUE]]
    /\ excuses' = IF UsersAt(Stopping) # {} THEN excuses \cup {"overlap"} ELSE excuses
    /\ UNCHANGED <<stack, qqs, refcount, tunnels, endpoints, starts, reopens>>

\* ensure_running_for_reconcile starts no stack, and counts one bot at most.
AttachCheck(b) ==
    /\ user[b].at = "attaching" /\ stack
    /\ Goes(b, "attach opening")
    /\ UNCHANGED <<stack, qqs, refcount, tunnels, endpoints, excuses, starts, reopens>>

AttachCount(b) ==
    /\ user[b].at = "attach counting"
    /\ refcount' = IF refcount = 0 THEN 1 ELSE refcount
    /\ excuses' = IF refcount = 0 THEN excuses ELSE excuses \cup {"uncounted"}
    /\ Goes(b, "asking")
    /\ UNCHANGED <<stack, qqs, tunnels, endpoints, starts, reopens>>

StackNext ==
    \/ Reopen
    \/ \E b \in StackBots :
          \/ \E cold \in BOOLEAN : BeginStart(b, cold)
          \/ EnterBootstrap(b) \/ CheckStack(b) \/ Raise(b) \/ Join(b) \/ EnsureFails(b)
          \/ OpenTunnels(b) \/ Count(b)
          \/ PrepareFails(b) \/ Prepare(b) \/ AskEndpoints(b) \/ Inject(b) \/ InjectFails(b)
          \/ Stop(b) \/ StopSkipped(b) \/ Drop(b) \/ Close(b) \/ KillNode(b) \/ KillDisplay(b)
          \/ QqDies(b)
          \/ PassOver(b) \/ Attach(b) \/ AttachCheck(b) \/ AttachCount(b)

StackSpec == StackInit /\ [][StackNext]_stackVars

-----------------------------------------------------------------------------
(* Properties.                                                             *)

\* Type invariant of the shared stack.
StackTypeOK ==
    /\ stack \in BOOLEAN /\ qqs \subseteq StackBots
    /\ refcount \in Nat /\ tunnels \in Nat /\ endpoints \in BOOLEAN
    /\ user \in [StackBots -> [at : StackPc, cold : BOOLEAN, attached : BOOLEAN]]
    /\ excuses \subseteq {"lost", "overlap", "uncounted"}

\* The count is that of the bots that use the stack, in every interleaving of
\* starts, stops and attachments, until a start or a skipped stop has lost a
\* reference or a second bot was attached without being counted.
StackCountIsUsers ==
    (excuses \cap {"lost", "uncounted"} = {}) => refcount = Cardinality(UsersAt(Holding))

\* Nobody takes the stack from a bot that runs: it is down under a running
\* bot only after a start met the stop of the stack, or a bot was attached
\* after a restart of the desktop without being counted.
RunningBotHasStack ==
    excuses \cap {"overlap", "uncounted"} = {}
        => \A b \in UsersAt({"running"}) : stack /\ endpoints
=============================================================================
