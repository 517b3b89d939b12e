---------------------------- MODULE ServerManager ----------------------------
(***************************************************************************)
(* ServerManager (ncd-server/src/server_manager.rs): the profiles of the   *)
(* remote servers in servers.json, the cache of live SSH connections, the  *)
(* lock and the cool-down of automatic connects, and the passwords in the  *)
(* keyring.                                                                *)
(*                                                                         *)
(* Every change of a profile, be it a user's edit or the state a probe     *)
(* found, loads the whole file, changes one profile and writes the whole   *)
(* file back.  Nothing locks the file, and writing truncates it first; a   *)
(* reader of a truncated file finds no profile at all.                     *)
(*                                                                         *)
(* An operation is a task with a list of steps it still has to do; some    *)
(* steps replace themselves by others.  Host names, latencies, failure     *)
(* counts and the known_hosts check are left out: a handshake succeeds or  *)
(* fails.                                                                  *)
(***************************************************************************)
EXTENDS Integers, Sequences, FiniteSets, SequencesExt

CONSTANTS Servers,        (* ids of servers                                  *)
          Clients,        (* tasks that run an operation                     *)
          MaxOperations,  (* bound: operations begun                         *)
          MaxSaveErrors,  (* bound: writes of servers.json that fail         *)
          MaxRestarts     (* bound: times the application dies               *)

VARIABLES profiles,   (* server -> its profile in servers.json              *)
          torn,       (* servers.json is truncated or garbled               *)
          passwords,  (* servers with an SSH password in the keyring        *)
          hosts,      (* server -> its cached connection                    *)
          flight,     (* server -> the task that holds its connect lock     *)
          cooling,    (* servers whose automatic connect is in cool-down    *)
          client,     (* task -> the operation it runs                      *)
          operations, saveErrors, restarts,               (* what is bounded *)
          clobbered,      (* history: two rewrites of the file met, or one died *)
          crossed     (* history: servers with operations that crossed      *)

serverVars == <<profiles, torn, passwords, hosts, flight, cooling, client,
                operations, saveErrors, restarts, clobbered, crossed>>

NoServer == [state |-> "absent", auth |-> "none"]
NewServer == [state |-> "Unknown", auth |-> "password"]
ServerState == {"absent", "Unknown", "Connected", "Disconnected", "Failed"}

NoClient == "nobody"
ASSUME NobodyAssumption == NoClient \notin Servers \cup Clients
Idle == [op |-> "none", id |-> NoClient, todo |-> <<>>, phase |-> "next",
         copy |-> <<>>, shared |-> FALSE]

\* What an operation does, step by step.
Program == [add      |-> <<"remember", "insert">>,
            update   |-> <<"replace", "evict", "Disconnected">>,
            password |-> <<"replace", "evict", "Disconnected", "connect">>,
            delete   |-> <<"remove", "forget">>,
            test     |-> <<"handshake">>,
            setup    |-> <<"authorize", "drop password", "rekey", "keep", "Connected">>,
            ensure   |-> <<"connect">>,
            live     |-> <<"check", "connect">>,
            refresh  |-> <<"evict", "connect", "health">>,
            mark     |-> <<"evict", "Disconnected", "health">>,
            walk     |-> <<"probe">>]

\* The steps that rewrite servers.json.
Edits == {"insert", "replace", "remove", "rekey",
          "Connected", "Disconnected", "Failed", "health"}

\* Servers nobody added, servers nobody connected yet, and connected ones.
ServerInit ==
    /\ profiles \in [Servers -> {NoServer, NewServer, [NewServer EXCEPT !.state = "Connected"]}]
    /\ torn = FALSE
    /\ passwords = {s \in Servers : profiles[s] # NoServer}
    /\ hosts = [s \in Servers |-> IF profiles[s].state = "Connected" THEN "alive" ELSE "none"]
    /\ flight = [s \in Servers |-> NoClient]
    /\ cooling = {}
    /\ client = [c \in Clients |-> Idle]
    /\ operations = 0 /\ saveErrors = 0 /\ restarts = 0
    /\ clobbered = FALSE
    /\ crossed = {}

-----------------------------------------------------------------------------
Doing(c, step) == client[c].todo # <<>> /\ client[c].phase = "next" /\ Head(client[c].todo) = step
Target(c) == client[c].id

\* The task goes on with steps, then with what it had to do after this one.
Continue(c, steps) == client' = [client EXCEPT ![c].todo = steps \o Tail(@)]

\* It returns, and its guard of the connect lock is dropped.
Leave(c) ==
    /\ client' = [client EXCEPT ![c] = Idle]
    /\ flight' = [s \in Servers |-> IF flight[s] = c THEN NoClient ELSE flight[s]]
ContinueOr(c, cond, steps) == IF cond THEN Continue(c, steps) /\ UNCHANGED flight ELSE Leave(c)

\* Several automatic connects of one server may run at a time.
SharesLock == {"ensure", "live"}
Crosses(op, id) ==
    \E c \in Clients : client[c].id = id /\ ~({op, client[c].op} \subseteq SharesLock)

Operate(c, op, id) ==
    /\ client[c] = Idle /\ operations < MaxOperations
    /\ operations' = operations + 1
    /\ client' = [client EXCEPT ![c] = [Idle EXCEPT !.op = op, !.id = id, !.todo = Program[op]]]
    /\ crossed' = IF Crosses(op, id) THEN crossed \cup {id} ELSE crossed
    /\ UNCHANGED <<profiles, torn, passwords, hosts, flight, cooling, saveErrors, restarts, clobbered>>

Finished(c) ==
    /\ client[c] # Idle /\ client[c].todo = <<>>
    /\ Leave(c)
    /\ UNCHANGED <<profiles, torn, passwords, hosts, cooling, operations, saveErrors,
                   restarts, clobbered, crossed>>

-----------------------------------------------------------------------------
(* load, change, save                                                      *)

Listed(s) == ~torn /\ profiles[s] # NoServer
Rewriting(c) == client[c].phase \in {"loaded", "open"}

Load(c) ==
    /\ client[c].todo # <<>> /\ client[c].phase = "next" /\ Head(client[c].todo) \in Edits
    /\ client' = [client EXCEPT ![c].phase = "loaded",
                                ![c].copy = IF torn THEN [s \in Servers |-> NoServer] ELSE profiles]
    /\ clobbered' = (clobbered \/ \E d \in Clients : Rewriting(d))
    /\ UNCHANGED <<profiles, torn, passwords, hosts, flight, cooling, operations,
                   saveErrors, restarts, crossed>>

\* The edit of one profile; the state edits ignore a server that is not there.
Edited(edit, p) ==
    CASE edit = "insert"  -> NewServer
      [] edit = "replace" -> [NewServer EXCEPT !.auth = p.auth]
      [] edit = "remove"  -> NoServer
      [] edit = "rekey"   -> [p EXCEPT !.auth = "key"]
      [] edit = "health"  -> p
      [] OTHER            -> [p EXCEPT !.state = edit]

\* A second insert, or an edit or removal of what is not there, is an error.
EditRefused(c) ==
    LET edit == Head(client[c].todo)
        there == client[c].copy[Target(c)] # NoServer
    IN \/ edit = "insert" /\ there
       \/ edit \in {"replace", "remove"} /\ ~there

\* update_server stores the new password once it has found the server.
PasswordsAfterEdit(c) ==
    IF client[c].op = "password" /\ Head(client[c].todo) = "replace" /\ ~EditRefused(c)
    THEN passwords \cup {Target(c)} ELSE passwords

Change(c) ==
    /\ client[c].phase = "loaded"
    /\ LET edit == Head(client[c].todo)
           id == Target(c)
           others == {d \in Clients \ {c} : client[d].phase = "open"}
       IN IF EditRefused(c) THEN Leave(c) /\ UNCHANGED torn
          ELSE IF edit # "insert" /\ client[c].copy[id] = NoServer
          THEN /\ client' = [client EXCEPT ![c].phase = "next", ![c].todo = Tail(@), ![c].copy = <<>>]
               /\ UNCHANGED <<torn, flight>>
          ELSE /\ client' = [d \in Clients |->
                     IF d = c THEN [client[c] EXCEPT !.phase = "open", !.shared = others # {},
                                                     !.copy[id] = Edited(edit, @)]
                     ELSE IF d \in others THEN [client[d] EXCEPT !.shared = TRUE] ELSE client[d]]
               /\ torn' = TRUE
               /\ UNCHANGED flight
    /\ passwords' = PasswordsAfterEdit(c)
    /\ UNCHANGED <<profiles, hosts, cooling, operations, saveErrors, restarts, clobbered, crossed>>

\* The truncated file is filled.  Two writes at a time can garble it.
WriteBack(c) ==
    /\ client[c].phase = "open"
    /\ profiles' = client[c].copy
    /\ torn' \in {FALSE} \cup (IF client[c].shared THEN {TRUE} ELSE {})
    /\ client' = [client EXCEPT ![c].phase = "next", ![c].todo = Tail(@),
                                ![c].copy = <<>>, ![c].shared = FALSE]
    /\ UNCHANGED <<passwords, hosts, flight, cooling, operations, saveErrors, restarts,
                   clobbered, crossed>>

\* The file cannot be opened: an edit by the user fails, a state edit is skipped.
SaveFails(c) ==
    /\ client[c].phase = "loaded" /\ ~EditRefused(c) /\ saveErrors < MaxSaveErrors
    /\ saveErrors' = saveErrors + 1
    /\ IF Head(client[c].todo) \in {"insert", "replace", "remove", "rekey"}
       THEN Leave(c)
       ELSE /\ client' = [client EXCEPT ![c].phase = "next", ![c].todo = Tail(@), ![c].copy = <<>>]
            /\ UNCHANGED flight
    /\ passwords' = PasswordsAfterEdit(c)
    /\ UNCHANGED <<profiles, torn, hosts, cooling, operations, restarts, clobbered, crossed>>

-----------------------------------------------------------------------------
(* The keyring and the cache.                                              *)

\* add_server stores the password before it looks at the file.
Remember(c) ==
    /\ Doing(c, "remember")
    /\ passwords' = passwords \cup {Target(c)}
    /\ Continue(c, <<>>)
    /\ UNCHANGED <<profiles, torn, hosts, flight, cooling, operations, saveErrors, restarts,
                   clobbered, crossed>>

MutantForget(c) ==
    /\ Doing(c, "forget")
    /\ passwords' = passwords \ {Target(c)}
    /\ cooling' = cooling \ {Target(c)}
    /\ flight' = [flight EXCEPT ![Target(c)] = NoClient]
    /\ Continue(c, <<>>)
    /\ UNCHANGED <<profiles, torn, hosts, operations, saveErrors, restarts, clobbered, crossed>>

\* delete_server, after the save: keyring and purge_server_runtime_maps.  The
\* connect lock is dropped from its map even when a task holds it.
Forget(c) ==
    /\ Doing(c, "forget")
    /\ passwords' = passwords \ {Target(c)}
    /\ hosts' = [hosts EXCEPT ![Target(c)] = "none"]
    /\ cooling' = cooling \ {Target(c)}
    /\ flight' = [flight EXCEPT ![Target(c)] = NoClient]
    /\ Continue(c, <<>>)
    /\ UNCHANGED <<profiles, torn, operations, saveErrors, restarts, clobbered, crossed>>

Evict(c) ==
    /\ Doing(c, "evict")
    /\ hosts' = [hosts EXCEPT ![Target(c)] = "none"]
    /\ Continue(c, <<>>)
    /\ UNCHANGED <<profiles, torn, passwords, flight, cooling, operations, saveErrors,
                   restarts, clobbered, crossed>>

-----------------------------------------------------------------------------
(* test_connection and ensure_connected                                    *)

\* The manual test, without lock; the password may come with the request.
Handshake(c) ==
    /\ Doing(c, "handshake")
    /\ ContinueOr(c, Listed(Target(c)), <<"handshaking">>)
    /\ UNCHANGED <<profiles, torn, passwords, hosts, cooling, operations, saveErrors,
                   restarts, clobbered, crossed>>

Answered(c) ==
    /\ Doing(c, "handshaking") \/ Doing(c, "autoshaking")
    /\ LET auto == Doing(c, "autoshaking")
       IN \/ /\ hosts' = [hosts EXCEPT ![Target(c)] = "alive"]
             /\ Continue(c, <<"Connected", "health">> \o (IF auto THEN <<"warm", "unlock">> ELSE <<>>))
          \/ /\ Continue(c, <<"Failed", "health">> \o (IF auto THEN <<"cool">> ELSE <<>>))
             /\ UNCHANGED hosts
    /\ UNCHANGED <<profiles, torn, passwords, flight, cooling, operations, saveErrors,
                   restarts, clobbered, crossed>>

\* ensure_connected: the cache, then the cool-down.
Connect(c) ==
    /\ Doing(c, "connect")
    /\ IF hosts[Target(c)] # "none" THEN Continue(c, <<>>) /\ UNCHANGED flight
       ELSE ContinueOr(c, Target(c) \notin cooling, <<"lock">>)
    /\ UNCHANGED <<profiles, torn, passwords, hosts, cooling, operations, saveErrors,
                   restarts, clobbered, crossed>>

MutantLock(c) ==
    /\ Doing(c, "lock")
    /\ IF hosts[Target(c)] # "none"
       THEN Continue(c, <<>>)
       ELSE Continue(c, <<"auto">>)
    /\ UNCHANGED flight
    /\ UNCHANGED <<profiles, torn, passwords, hosts, cooling, operations, saveErrors,
                   restarts, clobbered, crossed>>

\* The single-flight lock, and a second look at the cache.
Lock(c) ==
    /\ Doing(c, "lock")
    /\ flight[Target(c)] = NoClient
    /\ IF hosts[Target(c)] # "none"
       THEN Continue(c, <<>>) /\ UNCHANGED flight
       ELSE Continue(c, <<"auto">>) /\ flight' = [flight EXCEPT ![Target(c)] = c]
    /\ UNCHANGED <<profiles, torn, passwords, hosts, cooling, operations, saveErrors,
                   restarts, clobbered, crossed>>

\* A profile that is gone or has no stored password fails like a handshake.
AutoAttempt(c) ==
    /\ Doing(c, "auto")
    /\ LET id == Target(c)
       IN Continue(c, IF Listed(id) /\ (profiles[id].auth = "key" \/ id \in passwords)
                      THEN <<"autoshaking">> ELSE <<"cool">>)
    /\ UNCHANGED <<profiles, torn, passwords, hosts, flight, cooling, operations, saveErrors,
                   restarts, clobbered, crossed>>

\* The cool-down is set or cleared while the lock is held.
Cool(c) ==
    /\ Doing(c, "cool")
    /\ cooling' = cooling \cup {Target(c)}
    /\ Leave(c)
    /\ UNCHANGED <<profiles, torn, passwords, hosts, operations, saveErrors, restarts, clobbered, crossed>>

Warm(c) ==
    /\ Doing(c, "warm")
    /\ cooling' = cooling \ {Target(c)}
    /\ Continue(c, <<>>)
    /\ UNCHANGED <<profiles, torn, passwords, hosts, flight, operations, saveErrors,
                   restarts, clobbered, crossed>>

Unlock(c) ==
    /\ Doing(c, "unlock")
    /\ flight' = [s \in Servers |-> IF flight[s] = c THEN NoClient ELSE flight[s]]
    /\ Continue(c, <<>>)
    /\ UNCHANGED <<profiles, torn, passwords, hosts, cooling, operations, saveErrors,
                   restarts, clobbered, crossed>>

CoolDownEnds(s) ==
    /\ s \in cooling
    /\ cooling' = cooling \ {s}
    /\ UNCHANGED <<profiles, torn, passwords, hosts, flight, client, operations, saveErrors,
                   restarts, clobbered, crossed>>

-----------------------------------------------------------------------------
(* get_live_host, the probe loop, setup_key_auth                           *)

\* A cached connection is probed under the connect lock.
Check(c) ==
    /\ Doing(c, "check")
    /\ LET id == Target(c)
       IN IF hosts[id] = "none" THEN Continue(c, <<>>) /\ UNCHANGED flight
          ELSE /\ flight[id] = NoClient
               /\ flight' = [flight EXCEPT ![id] = c]
               /\ IF hosts[id] = "alive"
                  THEN client' = [client EXCEPT ![c].todo = <<"health", "unlock">>]
                  ELSE Continue(c, <<"evict", "Disconnected", "health", "unlock">>)
    /\ UNCHANGED <<profiles, torn, passwords, hosts, cooling, operations, saveErrors,
                   restarts, clobbered, crossed>>

\* run_health_probe_loop, for one server it found Connected.
Probe(c) ==
    /\ Doing(c, "probe")
    /\ LET id == Target(c)
           dead == Listed(id) /\ profiles[id].state = "Connected" /\ hosts[id] = "dead"
       IN ContinueOr(c, dead, <<"evict", "Disconnected", "health">>)
    /\ UNCHANGED <<profiles, torn, passwords, hosts, cooling, operations, saveErrors,
                   restarts, clobbered, crossed>>

\* Log in by password, append the public key; either may fail.
Authorize(c) ==
    /\ Doing(c, "authorize")
    /\ \/ Listed(Target(c)) /\ Continue(c, <<>>) /\ UNCHANGED flight
       \/ Leave(c)
    /\ UNCHANGED <<profiles, torn, passwords, hosts, cooling, operations, saveErrors,
                   restarts, clobbered, crossed>>

\* The password moves to the sudo slot before the profile is switched.
DropPassword(c) ==
    /\ Doing(c, "drop password")
    /\ passwords' = passwords \ {Target(c)}
    /\ Continue(c, <<>>)
    /\ UNCHANGED <<profiles, torn, hosts, flight, cooling, operations, saveErrors, restarts,
                   clobbered, crossed>>

Keep(c) ==
    /\ Doing(c, "keep")
    /\ hosts' = [hosts EXCEPT ![Target(c)] = "alive"]
    /\ Continue(c, <<>>)
    /\ UNCHANGED <<profiles, torn, passwords, flight, cooling, operations, saveErrors,
                   restarts, clobbered, crossed>>

-----------------------------------------------------------------------------
\* A connection dies without telling anybody.
Break(s) ==
    /\ hosts[s] = "alive"
    /\ hosts' = [hosts EXCEPT ![s] = "dead"]
    /\ UNCHANGED <<profiles, torn, passwords, flight, cooling, client, operations,
                   saveErrors, restarts, clobbered, crossed>>

\* The application dies; servers.json stays as it is.
Restart ==
    /\ restarts < MaxRestarts
    /\ restarts' = restarts + 1
    /\ hosts' = [s \in Servers |-> "none"]
    /\ flight' = [s \in Servers |-> NoClient]
    /\ cooling' = {}
    /\ client' = [c \in Clients |-> Idle]
    /\ clobbered' = (clobbered \/ torn)
    /\ crossed' = crossed \cup {client[c].id : c \in {d \in Clients : client[d] # Idle}}
    /\ UNCHANGED <<profiles, torn, passwords, operations, saveErrors>>

Rewrite(c) == Load(c) \/ Change(c) \/ WriteBack(c) \/ SaveFails(c)
ConnectStep(c) == \/ Handshake(c) \/ Answered(c) \/ Connect(c) \/ Lock(c) \/ AutoAttempt(c)
                  \/ Cool(c) \/ Warm(c) \/ Unlock(c) \/ Check(c) \/ Probe(c)
OtherStep(c) == \/ Remember(c) \/ Forget(c) \/ Evict(c) \/ Authorize(c)
                \/ DropPassword(c) \/ Keep(c) \/ Finished(c)

ServerNext ==
    \/ \E c \in Clients, op \in DOMAIN Program, s \in Servers : Operate(c, op, s)
    \/ \E c \in Clients : Rewrite(c) \/ ConnectStep(c) \/ OtherStep(c)
    \/ \E s \in Servers : CoolDownEnds(s) \/ Break(s)
    \/ Restart

ServerSpec == ServerInit /\ [][ServerNext]_serverVars

-----------------------------------------------------------------------------
(* Properties.                                                             *)

\* Type invariant of the server manager.
ServerTypeOK ==
    /\ \A s \in Servers : /\ profiles[s].state \in ServerState
                          /\ profiles[s].auth \in {"none", "password", "key"}
                          /\ hosts[s] \in {"none", "alive", "dead"}
                          /\ flight[s] \in Clients \cup {NoClient}
    /\ passwords \subseteq Servers /\ cooling \subseteq Servers /\ crossed \subseteq Servers
    /\ \A c \in Clients : client[c].phase \in {"next", "loaded", "open"}

AtRest(s) == s \notin crossed /\ \A c \in Clients : client[c].id # s

\* A cached connection is one the probe loop watches: when nobody works on a
\* server, its cached connection belongs to a profile in the file, and that
\* profile does not say Disconnected or Unknown, whatever automatic connects
\* and live checks of the server ran at a time, connections broke and the
\* cool-down began or ended.  (It may say Failed: a manual test that fails
\* leaves the connection that was cached before.)
CachedHostIsWatched ==
    ~clobbered => \A s \in Servers :
        (AtRest(s) /\ hosts[s] # "none" /\ saveErrors = 0)
        => profiles[s].state \in {"Connected", "Failed"}

\* At most one automatic handshake with a server is under way, however many
\* callers ask for it, unless the server was deleted in the middle of one.
ConnectsAreSingle ==
    \A s \in Servers \ crossed :
        Cardinality({c \in Clients : client[c].id = s /\ Doing(c, "autoshaking")}) <= 1
=============================================================================
