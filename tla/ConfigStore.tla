---------------------------- MODULE ConfigStore ----------------------------
(***************************************************************************)
(* The configuration files of the data root and everything that writes     *)
(* them: LocalConfigStore (ncd-config/src/store.rs), the bot repository    *)
(* with its cache (bot_repo.rs), the start-up migration (migration.rs) and *)
(* the import of a configuration package                                   *)
(* (src-tauri/src/commands/config_transfer.rs).                            *)
(*                                                                         *)
(* A transaction copies the files it will touch into a backup directory    *)
(* named after the current second, then replaces the files one by one: the *)
(* old file is renamed to a sibling .bak, the new one is renamed into its  *)
(* place.  When a step fails the files done so far are restored from the   *)
(* backup directory.  Transactions run on blocking threads and interleave; *)
(* the application can die between any two file operations.                *)
(*                                                                         *)
(* The content of a file is the set of the changes it contains; {} stands  *)
(* for "no such file".  Temporary files left by a crash are left out:      *)
(* nothing ever reads them.                                                *)
(***************************************************************************)
EXTENDS Integers, Sequences, FiniteSets, SequencesExt

CONSTANTS ConfigWriters,    (* threads that run a transaction               *)
          KeepBaks,         (* MAX_JSON_BAK_FILES, 3 in the code            *)
          KeepBackups,      (* MAX_MIGRATION_BACKUPS, 5 in the code         *)
          MaxTransactions,  (* bound: transactions begun                    *)
          MaxSeconds,       (* bound: seconds the clock counts              *)
          MaxCrashes,       (* bound: crashes                               *)
          MaxFailures       (* bound: file operations that fail             *)

ASSUME KeepAssumption == KeepBaks \in Nat \ {0} /\ KeepBackups \in Nat \ {0}
ASSUME TransactionsAssumption == MaxTransactions \in Nat

VARIABLES disk,      (* file -> what a reader finds under its name           *)
          baks,      (* file -> its .bak siblings, oldest first              *)
          backups,   (* second -> the backup directory of that second        *)
          second,    (* the clock, as create_backup_root reads it            *)
          txn,       (* writer -> the transaction it is in                   *)
          listed,    (* the repository's cached bot.json, or NotLoaded       *)
          running,   (* the application is up: its windows take requests     *)
          begun, crashes, failures,                        (* what is bounded *)
          acked,     (* history: saves that returned Ok                      *)
          harm,      (* history: what an acknowledged save may be lost to    *)
          replaced   (* history: bot.json files installed since a torn crash *)

configVars == <<disk, baks, backups, second, txn, listed, running, begun,
                crashes, failures, acked, harm, replaced>>

ConfigFile == {"bot", "onebot", "napcat", "report"}

\* The payloads that do not come from a request.
LegacyBots  == {0}
ReportOf == [migrated |-> {1}, failed |-> {2}, clean |-> {3}]

NotLoaded == {-1}

\* The start-up writer is a writer like the others.
Boot == "boot"
ASSUME BootAssumption == Boot \notin ConfigWriters
AllWriters == ConfigWriters \cup {Boot}

Kind == {"save", "render", "clean", "import", "migrate", "report"}

\* What the transactions of each kind touch, in order.
Writes(kind) ==
    CASE kind = "none"                            -> <<>>
      [] kind \in {"save", "import", "migrate"} -> <<"bot">>
      [] kind = "render"                        -> <<"onebot", "napcat">>
      [] kind = "report"                        -> <<"report">>
      [] kind = "clean"                         -> <<>>
Deletes(kind) == IF kind = "clean" THEN <<"onebot", "napcat">> ELSE <<>>
Files(kind) == Range(Writes(kind)) \cup Range(Deletes(kind))

Resting == [kind |-> "none", at |-> "rest", payload |-> {}, stamp |-> 0,
            done |-> 0, removed |-> {}, moved |-> FALSE, clash |-> FALSE,
            before |-> <<>>]

Active(w) == txn[w].kind # "none"
At(w, pc) == txn[w].at = pc

\* The file a writer is at.
WriteAt(w) == Writes(txn[w].kind)[txn[w].done + 1]
DeleteAt(w) == Deletes(txn[w].kind)[txn[w].done + 1]
MoreWrites(kind, done) == done < Len(Writes(kind))
Written(w) == {Writes(txn[w].kind)[i] : i \in (1 .. txn[w].done) \cap DOMAIN Writes(txn[w].kind)}

\* The first start ever, or a start after the one that migrated.
ConfigInit ==
    /\ disk \in {[f \in ConfigFile |-> {}],
                [f \in ConfigFile |-> IF f = "bot" THEN LegacyBots
                                      ELSE IF f = "report" THEN ReportOf.migrated
                                      ELSE {}]}
    /\ baks = [f \in ConfigFile |-> <<>>]
    /\ backups = <<>>
    /\ second = 1
    /\ txn = [w \in AllWriters |-> Resting]
    /\ listed = NotLoaded
    /\ running = FALSE
    /\ begun = 0 /\ crashes = 0 /\ failures = 0
    /\ acked = {}
    /\ harm = {}
    /\ replaced = 0

-----------------------------------------------------------------------------
\* A transaction begins; its payload is fixed now.
Enter(w, kind, payload) ==
    LET rivals == {v \in AllWriters : Active(v) /\ Files(txn[v].kind) \cap Files(kind) # {}}
    IN txn' = [v \in AllWriters |->
                 IF v = w
                 THEN [Resting EXCEPT !.kind = kind, !.payload = payload,
                                      !.at = IF kind = "report" THEN "move" ELSE "open",
                                      !.clash = rivals # {},
                                      !.before = [f \in Files(kind) |-> disk[f]]]
                 ELSE IF v \in rivals THEN [txn[v] EXCEPT !.clash = TRUE] ELSE txn[v]]

NewRequest ==
    /\ running /\ begun < MaxTransactions
    /\ begun' = begun + 1

RequestId == begun + 10

MutantSave(w) ==
    /\ ~Active(w) /\ NewRequest
    /\ LET bots == IF listed = NotLoaded THEN disk["bot"] ELSE listed
       IN /\ listed' = bots
          /\ Enter(w, "save", bots \cup {RequestId})
    /\ UNCHANGED <<disk, baks, backups, second, running, crashes, failures,
                   acked, harm, replaced>>

\* LocalConfigRepo::upsert: holds write_lock, reads the cache (and fills it
\* from the disk, where a missing bot.json is an empty list).
Save(w) ==
    /\ ~Active(w) /\ NewRequest
    /\ \A v \in AllWriters : txn[v].kind # "save"
    /\ LET bots == IF listed = NotLoaded THEN disk["bot"] ELSE listed
       IN /\ listed' = bots
          /\ Enter(w, "save", bots \cup {RequestId})
    /\ UNCHANGED <<disk, baks, backups, second, running, crashes, failures,
                   acked, harm, replaced>>

\* render_backend_config, the clean-up of another backend's files, and
\* import_config, which does not take write_lock and does not tell the cache.
RenderOrImport(w, kind) ==
    /\ ~Active(w) /\ NewRequest
    /\ kind \in {"render", "clean", "import"}
    /\ Enter(w, kind, {RequestId})
    /\ UNCHANGED <<disk, baks, backups, second, listed, running, crashes,
                   failures, acked, harm, replaced>>

-----------------------------------------------------------------------------
(* apply_transaction.                                                      *)

\* create_backup_root: two transactions of one second share a directory, and
\* the oldest directories go.
Newest(dirs) == {s \in dirs : Cardinality({t \in dirs : t > s}) < KeepBackups}

Open(w) ==
    /\ At(w, "open")
    /\ LET dirs == Newest(DOMAIN backups \cup {second})
       IN backups' = [s \in dirs |->
                        IF s \in DOMAIN backups THEN backups[s]
                        ELSE [users |-> 0, copy |-> [f \in ConfigFile |-> {}]]]
    /\ txn' = [txn EXCEPT ![w].at = "snapshot", ![w].stamp = second]
    /\ UNCHANGED <<disk, baks, second, listed, running, begun, crashes,
                   failures, acked, harm, replaced>>

\* snapshot_existing of every file; a copy into a directory that was pruned
\* meanwhile fails, and so does the transaction, before it touched anything.
CopyOld(w) ==
    /\ At(w, "snapshot")
    /\ LET there == {f \in Files(txn[w].kind) : disk[f] # {}}
           s == txn[w].stamp
       IN IF s \in DOMAIN backups
          THEN /\ backups' = [backups EXCEPT ![s] =
                    [users |-> @.users + 1,
                     copy |-> [f \in ConfigFile |-> IF f \in there THEN disk[f]
                                                    ELSE @.copy[f]]]]
               /\ txn' = [txn EXCEPT ![w].at = IF MoreWrites(txn[w].kind, 0)
                                               THEN "move" ELSE "delete"]
          ELSE /\ UNCHANGED backups
               /\ txn' = [txn EXCEPT ![w].at = IF there # {} THEN "failed"
                                               ELSE IF MoreWrites(txn[w].kind, 0)
                                               THEN "move" ELSE "delete"]
    /\ UNCHANGED <<disk, baks, second, listed, running, begun, crashes,
                   failures, acked, harm, replaced>>

\* write_json_atomic, first half: the new file is written aside and the old
\* one is renamed to its .bak name.
MoveAside(w) ==
    /\ At(w, "move")
    /\ LET f == WriteAt(w)
       IN /\ baks' = IF disk[f] = {} THEN baks ELSE [baks EXCEPT ![f] = Append(@, disk[f])]
          /\ disk' = [disk EXCEPT ![f] = {}]
          /\ txn' = [txn EXCEPT ![w].at = "install", ![w].moved = disk[f] # {}]
    /\ harm' = IF txn[w].kind = "import" THEN harm \cup {"imported"} ELSE harm
    /\ UNCHANGED <<backups, second, listed, running, begun, crashes, failures,
                   acked, replaced>>

LastOf(seq, n) == SubSeq(seq, IF Len(seq) > n THEN Len(seq) - n + 1 ELSE 1, Len(seq))

\* Second half: the new file is renamed into place, older .bak files are pruned.
Install(w) ==
    /\ At(w, "install")
    /\ LET f == WriteAt(w)
       IN /\ disk' = [disk EXCEPT ![f] = txn[w].payload]
          /\ baks' = [baks EXCEPT ![f] = LastOf(@, KeepBaks)]
          /\ replaced' = IF f = "bot" /\ "torn" \in harm THEN replaced + 1 ELSE replaced
    /\ txn' = [txn EXCEPT ![w].done = @ + 1,
                          ![w].at = IF MoreWrites(txn[w].kind, txn[w].done + 1)
                                    THEN "move" ELSE "delete"]
    /\ UNCHANGED <<backups, second, listed, running, begun, crashes, failures,
                   acked, harm>>

MutantReplaceFails(w) ==
    /\ failures < MaxFailures
    /\ failures' = failures + 1
    /\ At(w, "move") \/ At(w, "install")
    /\ UNCHANGED <<disk, baks>>
    /\ txn' = [txn EXCEPT ![w].at = "undo"]
    /\ UNCHANGED <<backups, second, listed, running, begun, crashes, acked, harm, replaced>>

\* Writing aside or one of the renames fails; a file that was moved aside is
\* moved back unless somebody else has written it meanwhile.
ReplaceFails(w) ==
    /\ failures < MaxFailures
    /\ failures' = failures + 1
    /\ At(w, "move") \/ At(w, "install")
    /\ LET f == WriteAt(w)
       IN IF At(w, "install") /\ txn[w].moved /\ disk[f] = {} /\ baks[f] # <<>>
          THEN /\ disk' = [disk EXCEPT ![f] = Last(baks[f])]
               /\ baks' = [baks EXCEPT ![f] = Front(@)]
          ELSE UNCHANGED <<disk, baks>>
    /\ txn' = [txn EXCEPT ![w].at = "undo"]
    /\ UNCHANGED <<backups, second, listed, running, begun, crashes, acked, harm, replaced>>

\* The deletes of a transaction follow its writes.
Delete(w) ==
    /\ At(w, "delete") /\ txn[w].done < Len(Deletes(txn[w].kind))
    /\ disk' = [disk EXCEPT ![DeleteAt(w)] = {}]
    /\ txn' = [txn EXCEPT ![w].done = @ + 1,
                          ![w].removed = IF disk[DeleteAt(w)] = {} THEN @
                                         ELSE @ \cup {DeleteAt(w)}]
    /\ UNCHANGED <<baks, backups, second, listed, running, begun, crashes,
                   failures, acked, harm, replaced>>

DeleteFails(w) ==
    /\ failures < MaxFailures
    /\ failures' = failures + 1
    /\ At(w, "delete") /\ txn[w].done < Len(Deletes(txn[w].kind))
    /\ disk[DeleteAt(w)] # {}
    /\ txn' = [txn EXCEPT ![w].at = "undo"]
    /\ UNCHANGED <<disk, baks, backups, second, listed, running, begun, crashes,
                   acked, harm, replaced>>

\* restore_transaction_state: a file without a copy in the backup directory
\* counts as one that did not exist before.
Restored(w) ==
    LET s == txn[w].stamp
    IN [f \in ConfigFile |->
          IF f \notin Written(w) \cup txn[w].removed THEN disk[f]
          ELSE IF s \in DOMAIN backups /\ backups[s].copy[f] # {} THEN backups[s].copy[f]
          ELSE IF f \in Written(w) THEN {} ELSE disk[f]]

Undo(w) ==
    /\ At(w, "undo")
    /\ disk' = IF txn[w].kind = "report" THEN disk ELSE Restored(w)
    /\ txn' = [txn EXCEPT ![w].at = "failed"]
    /\ UNCHANGED <<baks, backups, second, listed, running, begun, crashes,
                   failures, acked, harm, replaced>>

-----------------------------------------------------------------------------
\* The transaction returns to its caller.  A save hands its list to the cache.
ReturnOk(w) ==
    /\ At(w, "delete") /\ txn[w].done = Len(Writes(txn[w].kind)) + Len(Deletes(txn[w].kind))
    /\ w # Boot
    /\ listed' = IF txn[w].kind = "save" THEN txn[w].payload ELSE listed
    /\ acked' = IF txn[w].kind = "save"
                THEN acked \cup {CHOOSE k \in txn[w].payload : \A j \in txn[w].payload : j <= k}
                ELSE acked
    /\ txn' = [txn EXCEPT ![w] = Resting]
    /\ UNCHANGED <<disk, baks, backups, second, running, begun, crashes,
                   failures, harm, replaced>>

ReturnErr(w) ==
    /\ At(w, "failed") /\ w # Boot
    /\ txn' = [txn EXCEPT ![w] = Resting]
    /\ UNCHANGED <<disk, baks, backups, second, listed, running, begun, crashes,
                   failures, acked, harm, replaced>>

-----------------------------------------------------------------------------
(* MigrationOrchestrator::bootstrap: before anything else writes.          *)

\* With a report on disk the schema counts as current; otherwise the best
\* legacy configuration found replaces bot.json.
BootLook ==
    /\ ~running /\ ~Active(Boot)
    /\ IF disk["report"] # {}
       THEN IF disk["report"] = ReportOf.clean
            THEN running' = TRUE /\ UNCHANGED txn
            ELSE Enter(Boot, "report", ReportOf.clean) /\ UNCHANGED running
       ELSE Enter(Boot, "migrate", LegacyBots) /\ UNCHANGED running
    /\ UNCHANGED <<disk, baks, backups, second, listed, begun, crashes,
                   failures, acked, harm, replaced>>

\* save_migration_report, also after a migration that failed.
BootReport ==
    /\ txn[Boot].kind = "migrate"
    /\ At(Boot, "delete") \/ At(Boot, "failed")
    /\ Enter(Boot, "report", IF At(Boot, "failed") THEN ReportOf.failed ELSE ReportOf.migrated)
    /\ UNCHANGED <<disk, baks, backups, second, listed, running, begun, crashes,
                   failures, acked, harm, replaced>>

\* The result of writing the report is ignored.
BootDone ==
    /\ txn[Boot].kind = "report"
    /\ At(Boot, "delete") \/ At(Boot, "failed")
    /\ txn' = [txn EXCEPT ![Boot] = Resting]
    /\ running' = TRUE
    /\ harm' = IF disk["report"] = {} THEN harm \cup {"unreported"} ELSE harm
    /\ UNCHANGED <<disk, baks, backups, second, listed, begun, crashes,
                   failures, acked, replaced>>

\* The application exits or dies; the next start begins with BootLook.
Crash ==
    /\ crashes < MaxCrashes
    /\ crashes' = crashes + 1
    /\ running' = FALSE
    /\ listed' = NotLoaded
    /\ txn' = [w \in AllWriters |-> Resting]
    /\ harm' = IF \E w \in AllWriters : At(w, "install") /\ txn[w].moved
                                          /\ disk[WriteAt(w)] = {}
                                          /\ WriteAt(w) \in {"bot", "report"}
               THEN harm \cup {"torn"} ELSE harm
    /\ UNCHANGED <<disk, baks, backups, second, begun, failures, acked, replaced>>

Tick ==
    /\ second < MaxSeconds
    /\ \E w \in AllWriters : Active(w)
    /\ second' = second + 1
    /\ UNCHANGED <<disk, baks, backups, txn, listed, running, begun, crashes,
                   failures, acked, harm, replaced>>

FileStep(w) ==
    Open(w) \/ CopyOld(w) \/ MoveAside(w) \/ Install(w) \/ Delete(w) \/ Undo(w)

ConfigNext ==
    \/ \E w \in ConfigWriters :
          \/ Save(w)
          \/ \E kind \in {"render", "clean", "import"} : RenderOrImport(w, kind)
          \/ ReturnOk(w) \/ ReturnErr(w)
    \/ \E w \in AllWriters : FileStep(w) \/ ReplaceFails(w) \/ DeleteFails(w)
    \/ BootLook \/ BootReport \/ BootDone
    \/ Crash \/ Tick

ConfigSpec == ConfigInit /\ [][ConfigNext]_configVars

-----------------------------------------------------------------------------
(* Properties.                                                             *)

\* Type invariant of the files, the transactions and the cache.
FileContent == SUBSET (0 .. MaxTransactions + 10)

ConfigTypeOK ==
    /\ disk \in [ConfigFile -> FileContent]
    /\ \A f \in ConfigFile : baks[f] \in Seq(FileContent)
    /\ \A s \in DOMAIN backups : s \in 1 .. second /\ backups[s].copy \in [ConfigFile -> FileContent]
    /\ \A w \in AllWriters :
          /\ txn[w].kind \in Kind \cup {"none"}
          /\ txn[w].at \in {"rest", "open", "snapshot", "move", "install",
                             "delete", "undo", "failed"}
          /\ txn[w].done \in 0 .. 2
          /\ txn[w].payload \in FileContent
    /\ listed \in FileContent \cup {NotLoaded}
    /\ harm \subseteq {"torn", "imported", "unreported"}
    /\ acked \subseteq 10 .. MaxTransactions + 10

\* Nobody is writing the file.
Settled(f) == \A w \in AllWriters : f \notin Files(txn[w].kind)

\* No acknowledged save is lost: whenever nobody is writing bot.json, a start
\* of the application would read a list with every change a save returned Ok
\* for, and the cache that the application works from is that same list, over
\* any interleaving with renders, failures, rollbacks, crashes and restarts.
\* What can break it is named by "harm": a crash between the two renames of
\* write_json_atomic (torn), an import that bypasses the repository
\* (imported), a migration report that could not be written, so that the
\* next start migrates the legacy configuration over the list (unreported).
\* After a torn write the list is not gone: for the next KeepBaks saves every
\* acknowledged change is in bot.json or in one of its .bak siblings.
AcknowledgedSaveIsKept ==
    Settled("bot") =>
        /\ harm = {} => acked \subseteq disk["bot"] /\ listed \in {NotLoaded, disk["bot"]}
        /\ (harm = {"torn"} /\ replaced <= KeepBaks) =>
              acked \subseteq disk["bot"] \cup UNION Range(baks["bot"])

\* All or nothing: a transaction that failed leaves every file it touches as
\* it was, provided it had its backup directory for itself until the end (no
\* second transaction of the same second, not pruned by later ones) and
\* nobody wrote the same files meanwhile.
RollbackIsComplete ==
    [][\A w \in AllWriters :
          (/\ At(w, "undo") /\ txn'[w].at = "failed"
           /\ txn[w].kind # "report" => /\ txn[w].stamp \in DOMAIN backups
                                        /\ backups[txn[w].stamp].users = 1
           /\ ~txn[w].clash)
          => \A f \in Files(txn[w].kind) : disk'[f] = txn[w].before[f]]_configVars
=============================================================================
