----------------------------- MODULE LoginPoller -----------------------------
(***************************************************************************)
(* The NapCat login poller of one bot (ncd-backend-napcat/src/napcat/      *)
(* login_poller) and what hears from it: the notifier that tells the user  *)
(* (ncd-runtime/src/notify/composite.rs) and the automatic restart.        *)
(*                                                                         *)
(* A poller asks two questions at a time, whether there is a login session *)
(* and whether the account is online, and applies both answers when it has *)
(* them; each is true when it is given, and the account may change between *)
(* them.  Disposing a poller cancels its token, which it looks at between  *)
(* two polls: a poll under way is finished, notices and restart included.  *)
(*                                                                         *)
(* QR codes, the badge in the window, the failure counter behind it and    *)
(* the poll intervals are left out.                                        *)
(***************************************************************************)
EXTENDS Integers, Sequences, FiniteSets

CONSTANTS MaxPollers,  (* bound: pollers spawned                            *)
          MaxSwings,   (* bound: changes of the account, launches included  *)
          MaxPolls     (* bound: polls begun                                *)

VARIABLES account,   (* what is true of the account                         *)
          pollers,   (* number -> a poller                                  *)
          debounced, (* an offline alert was delivered within the window    *)
          news,      (* the last alert the user was told of                 *)
          swings, polls                                   (* what is bounded *)

pollerVars == <<account, pollers, debounced, news, swings, polls>>

PollerIds == 1 .. MaxPollers

Account == {"down", "no session", "online", "offline"}

Fresh == [at |-> "idle", cancelled |-> FALSE, restart |-> FALSE, notify |-> FALSE, auth |-> FALSE,
          login |-> "waiting", reach |-> "waiting",
          logged |-> FALSE, online |-> FALSE, kicked |-> FALSE, sent |-> FALSE,
          offline |-> 0, todo |-> <<>>, seen |-> FALSE]

\* OFFLINE_CONFIRMATION_SAMPLES
Confirmed == 2

PollerInit ==
    /\ account = "down"
    /\ pollers = [p \in PollerIds |-> [Fresh EXCEPT !.at = "unborn"]]
    /\ debounced = FALSE
    /\ news = "none"
    /\ swings = 0 /\ polls = 0

Gone(s) == [Fresh EXCEPT !.at = "gone", !.online = s.online]

\* dispose cancels the token: the loop ends at once between two polls, and
\* otherwise after the poll under way.
Disposed(ps) ==
    [p \in PollerIds |-> CASE ps[p].at = "unborn" -> ps[p]
                           [] ps[p].at = "idle"   -> Gone(ps[p])
                           [] OTHER               -> [ps[p] EXCEPT !.cancelled = TRUE]]
Resumed(s) == IF s.todo # <<>> THEN s ELSE IF s.cancelled THEN Gone(s) ELSE [s EXCEPT !.at = "idle"]

-----------------------------------------------------------------------------
(* The account and the bot's process.                                      *)

Swing(to) ==
    /\ account # "down" /\ to \notin {"down", account} /\ swings < MaxSwings
    /\ account' = to
    /\ swings' = swings + 1
    /\ UNCHANGED <<pollers, debounced, news, polls>>

\* The bot starts, logged in or not; a stop, a crash or a deletion ends it.
Launch ==
    /\ account = "down" /\ swings < MaxSwings
    /\ swings' = swings + 1
    /\ account' \in {"no session", "online"}
    /\ UNCHANGED <<pollers, debounced, news, polls>>

Down ==
    /\ account # "down"
    /\ account' = "down"
    /\ UNCHANGED <<pollers, debounced, news, swings, polls>>

\* dispose_poller, by whoever saw the process end
Dispose ==
    /\ account = "down"
    /\ pollers' = Disposed(pollers)
    /\ UNCHANGED <<account, debounced, news, swings, polls>>

\* handle_webui_available: the old poller is disposed, a new one spawned,
\* which keeps what the bot's configuration says now of restarts and notices.
Spawned(p, restart, notify) ==
    /\ account # "down"
    /\ pollers[p].at = "unborn" /\ \A q \in 1 .. p - 1 : pollers[q].at # "unborn"
    /\ pollers' = [Disposed(pollers) EXCEPT ![p] = [Fresh EXCEPT !.restart = restart, !.notify = notify]]
    /\ UNCHANGED <<account, debounced, news, swings, polls>>

-----------------------------------------------------------------------------
(* run_poller                                                              *)

\* do_auth_refresh, every half an hour or asked for by a poll; an asked one
\* forgets the credential first.
Refresh(p) ==
    /\ pollers[p].at = "idle"
    /\ \E got \in {account # "down", FALSE} : pollers' = [pollers EXCEPT ![p].auth = got]
    /\ UNCHANGED <<account, debounced, news, swings, polls>>

\* do_status_poll without a credential: mark_probe_unavailable.
NoCredential(p) ==
    /\ pollers[p].at = "idle" /\ ~pollers[p].auth
    /\ pollers' = [pollers EXCEPT ![p].offline = 0]
    /\ UNCHANGED <<account, debounced, news, swings, polls>>

\* With one it asks both questions.
Poll(p) ==
    /\ pollers[p].at = "idle" /\ pollers[p].auth /\ polls < MaxPolls
    /\ polls' = polls + 1
    /\ pollers' = [pollers EXCEPT ![p].at = "asking"]
    /\ UNCHANGED <<account, debounced, news, swings>>

\* apply_login_status
AfterLogin(s) ==
    IF s.login \in {"error", "unauthorized"} THEN s
    ELSE IF s.login \in {"online", "offline"}
    THEN [s EXCEPT !.logged = TRUE, !.kicked = FALSE]
    ELSE [s EXCEPT !.logged = FALSE, !.kicked = @ \/ (s.logged /\ s.online)]

\* What was observed: the login check first, then the online check.
Reading(s) ==
    CASE s.login = "unauthorized" -> "nothing"
      [] s.login = "online"       -> "yes"
      [] s.login = "offline"      -> "no"
      [] OTHER                    -> IF s.reach \in {"yes", "no"} THEN s.reach ELSE "nothing"

\* apply_observed_online_status: one answer that says offline is not enough.
AfterOnline(s) ==
    [s EXCEPT !.online = TRUE, !.offline = 0, !.sent = FALSE, !.kicked = FALSE,
              !.todo = IF ~s.online /\ s.sent THEN <<"recovered">> ELSE <<>>,
              !.seen = s.logged]

MutantAfterOffline(s) ==
    LET n == IF s.offline < Confirmed THEN s.offline + 1 ELSE Confirmed
    IN IF s.online /\ n < Confirmed THEN [s EXCEPT !.offline = n]
       ELSE IF ~s.online THEN [s EXCEPT !.offline = n]
       ELSE IF ~s.logged THEN [s EXCEPT !.offline = n, !.online = FALSE, !.kicked = FALSE]
       ELSE [s EXCEPT !.offline = n, !.online = FALSE, !.kicked = FALSE, !.sent = s.notify,
                      !.todo = (IF s.notify THEN <<"manual">> ELSE <<>>)
                               \o (IF s.restart THEN <<"restart">> ELSE <<>>)]

AfterOffline(s) ==
    LET n == IF s.offline < Confirmed THEN s.offline + 1 ELSE Confirmed
        reported == s.logged \/ s.kicked
        notice == IF s.sent \/ ~s.notify THEN <<>> ELSE IF s.restart THEN <<"restarting">> ELSE <<"manual">>
    IN IF s.online /\ n < Confirmed THEN [s EXCEPT !.offline = n]
       ELSE IF ~s.online THEN [s EXCEPT !.offline = n]
       ELSE [s EXCEPT !.offline = n, !.online = FALSE, !.kicked = FALSE,
                      !.sent = @ \/ (reported /\ s.notify),
                      !.todo = IF reported
                               THEN notice \o (IF s.restart THEN <<"restart">> ELSE <<>>)
                               ELSE <<>>]

\* With the second answer both are applied.  mark_probe_unavailable forgets
\* the offline sample.
WithAnswers(s) ==
    IF "waiting" \in {s.login, s.reach} THEN s
    ELSE LET after == AfterLogin(s)
             done == CASE Reading(s) = "yes" -> AfterOnline(after)
                       [] Reading(s) = "no"  -> AfterOffline(after)
                       [] OTHER               -> [after EXCEPT !.offline = 0]
         IN Resumed([done EXCEPT !.at = "telling", !.login = "waiting", !.reach = "waiting"])

\* check_login_status: isLogin, isOffline, neither; or an error.
LoginAnswer(p) ==
    /\ pollers[p].at = "asking" /\ pollers[p].login = "waiting"
    /\ \E a \in {"error", "unauthorized"} \cup ({account} \ {"down"}) :
          pollers' = [pollers EXCEPT ![p] = WithAnswers([@ EXCEPT !.login = a])]
    /\ UNCHANGED <<account, debounced, news, swings, polls>>

\* check_online_status: the value of "online"; missing is as good as an error.
OnlineAnswer(p) ==
    /\ pollers[p].at = "asking" /\ pollers[p].reach = "waiting"
    /\ \E a \in {"error"} \cup
                CASE account = "down"   -> {}
                  [] account = "online" -> {"yes"}
                  [] OTHER              -> {"no"} :
          pollers' = [pollers EXCEPT ![p] = WithAnswers([@ EXCEPT !.reach = a])]
    /\ UNCHANGED <<account, debounced, news, swings, polls>>

-----------------------------------------------------------------------------
Telling(p, what) == pollers[p].at = "telling" /\ Head(pollers[p].todo) = what
AfterTelling(p) == [pollers EXCEPT ![p] = Resumed([@ EXCEPT !.todo = Tail(pollers[p].todo)])]

\* CompositeOfflineNotifier::deliver of an offline alert: a second one within
\* the window is only recorded.  (No window is one that ends at once.)
TellOffline(p) ==
    /\ Telling(p, "manual") \/ Telling(p, "restarting")
    /\ news' = IF debounced THEN news ELSE "offline"
    /\ debounced' = TRUE
    /\ pollers' = AfterTelling(p)
    /\ UNCHANGED <<account, swings, polls>>

MutantTellRecovered(p) ==
    /\ Telling(p, "recovered")
    /\ news' = "recovered" /\ UNCHANGED debounced
    /\ pollers' = AfterTelling(p)
    /\ UNCHANGED <<account, swings, polls>>

\* A recovery clears the window, but only when the settings, which can change
\* any time, say that recoveries are told.
TellRecovered(p) ==
    /\ Telling(p, "recovered")
    /\ \/ news' = "recovered" /\ debounced' = FALSE
       \/ UNCHANGED <<news, debounced>>
    /\ pollers' = AfterTelling(p)
    /\ UNCHANGED <<account, swings, polls>>

WindowEnds ==
    /\ debounced
    /\ debounced' = FALSE
    /\ UNCHANGED <<account, pollers, news, swings, polls>>

\* BotManager::restart_bot, awaited by the poller it disposes; the launch
\* that follows is Launch.  A restart that is refused changes nothing.
RestartBot(p) ==
    /\ Telling(p, "restart")
    /\ \/ account' = "down" /\ pollers' = Disposed(AfterTelling(p))
       \/ UNCHANGED account /\ pollers' = AfterTelling(p)
    /\ UNCHANGED <<debounced, news, swings, polls>>

PollerNext ==
    \/ \E a \in Account : Swing(a)
    \/ Launch \/ Down \/ Dispose \/ WindowEnds
    \/ \E p \in PollerIds :
          \/ \E restart, notify \in BOOLEAN : Spawned(p, restart, notify)
          \/ Refresh(p) \/ NoCredential(p) \/ Poll(p)
          \/ LoginAnswer(p) \/ OnlineAnswer(p)
          \/ TellOffline(p) \/ TellRecovered(p) \/ RestartBot(p)

PollerSpec == PollerInit /\ [][PollerNext]_pollerVars

-----------------------------------------------------------------------------
(* Properties.                                                             *)

\* Type invariant of the pollers.
PollerTypeOK ==
    /\ account \in Account /\ debounced \in BOOLEAN /\ news \in {"none", "offline", "recovered"}
    /\ \A p \in PollerIds : pollers[p].offline \in 0 .. Confirmed
                            /\ (pollers[p].todo # <<>> <=> pollers[p].at = "telling")

Told(s) == {s.todo[i] : i \in DOMAIN s.todo}

\* No outage goes by: a poller that knew of a login session when it last found
\* the account online, and decides that it is offline, kicked or disconnected,
\* tells the user and restarts the bot, as its configuration says, whatever
\* answers failed, were refused or came late in between.  (An online check
\* that says online after a login check that found no session makes it forget
\* the kick, as when the account changes between the two answers of a poll.)
OutageIsReported ==
    [][\A p \in PollerIds :
          (pollers[p].seen /\ pollers[p].online /\ ~pollers'[p].online)
          => /\ pollers[p].notify => Told(pollers'[p]) \cap {"manual", "restarting"} # {}
             /\ pollers[p].restart => "restart" \in Told(pollers'[p])
    ]_pollerVars

\* The user hears of a recovery only after an outage, whichever poller sees
\* either, with or without the debounce window; and a recovery opens it.
NewsAlternates ==
    [][(news' # news /\ news' = "recovered") => news = "offline" /\ ~debounced']_pollerVars
=============================================================================
