------------------------------ MODULE DataRoot ------------------------------
(***************************************************************************)
(* Moving the data root to another directory while the application runs:   *)
(* start_migrate_data_root, cancel, deletion of the retired root and       *)
(* restart (src-tauri/src/commands/data_root_migrate.rs) over              *)
(* execute_relocate (ncd-runtime/src/data/relocate.rs), beside the         *)
(* commands that write configuration and the installs that write           *)
(* components.                                                             *)
(*                                                                         *)
(* The running application works on the root it loaded when it started;    *)
(* the pointer in the registry names the root of the next start.  A move   *)
(* copies the tree into a staging directory inside the target, verifies    *)
(* it, promotes it entry by entry, marks the source as retired and writes  *)
(* the pointer.  Commands that save configuration are refused while a move *)
(* is in progress; they look once, when they begin.                        *)
(*                                                                         *)
(* A root holds two entries: "config", a file that is verified by its size *)
(* before it counts as copied, and "tree", a directory that only has to    *)
(* exist.  The content of an entry is the set of changes it contains; {}   *)
(* stands for "not there".                                                 *)
(***************************************************************************)
EXTENDS Integers, FiniteSets

CONSTANTS Roots,       (* directories that can be the data root             *)
          NoRoot,      (* no directory                                      *)
          Savers,      (* tasks that write into the data root               *)
          MaxMoves,    (* bound: moves begun                                *)
          MaxChanges,  (* bound: changes written                            *)
          MaxExits,    (* bound: times the application exits or dies        *)
          MaxIoErrors  (* bound: file operations that fail                  *)

ASSUME NoRootAssumption == NoRoot \notin Roots
ASSUME MaxChangesAssumption == MaxChanges \in Nat

VARIABLES pointer,   (* the DataRoot value of the registry                  *)
          loaded,    (* data_root of the running application, or NoRoot     *)
          entries,   (* root -> entry -> its changes                        *)
          staging,   (* root -> entry -> its changes in .ncd-migrate-staging *)
          marker,    (* root -> the root its retired marker names           *)
          move,      (* the move in progress                                *)
          cancel,    (* the gate's cancel flag                              *)
          result,    (* what the dialog offers to delete, and its successor *)
          purge,     (* the root delete_retired_data_root is removing       *)
          saver,     (* task -> the write it is about to make               *)
          moves, written, exits, ioErrors,                (* what is bounded *)
          stored,    (* history: changes that were acknowledged             *)
          late,      (* history: those the next start cannot know of        *)
          again      (* history: a move began from a root already left      *)

rootVars == <<pointer, loaded, entries, staging, marker, move, cancel, result, purge,
              saver, moves, written, exits, ioErrors, stored, late, again>>

Entry == {"config", "tree"}

Blank == [e \in Entry |-> {}]
Content(root) == UNION {entries[root][e] : e \in Entry}
IsEmptyRoot(root) == entries[root] = Blank /\ staging[root] = Blank /\ marker[root] = NoRoot

\* copied: entries the copy has read; behind: changes it missed.
NoMove == [at |-> "rest", from |-> NoRoot, to |-> NoRoot, copied |-> {}, behind |-> {}]
NoResult == [old |-> NoRoot, new |-> NoRoot]
NotSaving == [at |-> "rest", entry |-> "config", id |-> 0]

\* DataRootMigrateGate::is_busy
Busy == move.at # "rest"

RootInit ==
    /\ pointer \in Roots
    /\ loaded = pointer
    /\ entries = [r \in Roots |-> IF r = pointer THEN [e \in Entry |-> {0}] ELSE Blank]
    /\ staging = [r \in Roots |-> Blank]
    /\ marker = [r \in Roots |-> NoRoot]
    /\ move = NoMove
    /\ cancel = FALSE
    /\ result = NoResult
    /\ purge = NoRoot
    /\ saver = [s \in Savers |-> NotSaving]
    /\ moves = 0 /\ written = 0 /\ exits = 0 /\ ioErrors = 0
    /\ stored = {} /\ late = {} /\ again = FALSE

-----------------------------------------------------------------------------
(* Writers of the data root.                                               *)

\* A command that saves configuration looks at the gate; an install does not.
BeginSave(s, entry) ==
    /\ loaded # NoRoot /\ saver[s] = NotSaving /\ written < MaxChanges
    /\ entry = "config" => ~Busy
    /\ written' = written + 1
    /\ saver' = [saver EXCEPT ![s] = [at |-> "write", entry |-> entry, id |-> written']]
    /\ UNCHANGED <<pointer, loaded, entries, staging, marker, move, cancel, result, purge,
                   moves, exits, ioErrors, stored, late, again>>

\* It writes to the root the application loaded, whatever the gate says now.
WriteChange(s) ==
    /\ saver[s].at = "write"
    /\ LET e == saver[s].entry
           id == saver[s].id
       IN /\ entries' = [entries EXCEPT ![loaded][e] = @ \cup {id}]
          /\ stored' = stored \cup {id}
          /\ move' = IF e \in move.copied THEN [move EXCEPT !.behind = @ \cup {id}] ELSE move
          /\ late' = IF loaded # pointer THEN late \cup {id} ELSE late
    /\ saver' = [saver EXCEPT ![s] = NotSaving]
    /\ UNCHANGED <<pointer, loaded, staging, marker, cancel, result, purge, moves, written,
                   exits, ioErrors, again>>

-----------------------------------------------------------------------------
(* start_migrate_data_root                                                 *)

\* Preflight: the source is there, the target is empty or does not exist.
BeginMove(target) ==
    /\ loaded # NoRoot /\ ~Busy /\ moves < MaxMoves
    /\ target # loaded /\ IsEmptyRoot(target) /\ ~IsEmptyRoot(loaded)
    /\ moves' = moves + 1
    /\ move' = [NoMove EXCEPT !.at = "stop", !.from = loaded, !.to = target]
    /\ cancel' = FALSE
    /\ result' = NoResult
    /\ again' = (again \/ loaded # pointer)
    /\ UNCHANGED <<pointer, loaded, entries, staging, marker, purge, saver, written, exits,
                   ioErrors, stored, late>>

EndMove == move' = NoMove

\* shutdown_all of the active local bots; one that does not stop ends the move.
BotsStopped ==
    /\ move.at = "stop"
    /\ move' = [move EXCEPT !.at = "copy"]
    /\ UNCHANGED <<pointer, loaded, entries, staging, marker, cancel, result, purge, saver,
                   moves, written, exits, ioErrors, stored, late, again>>

BotsNotStopped ==
    /\ move.at = "stop"
    /\ EndMove
    /\ UNCHANGED <<pointer, loaded, entries, staging, marker, cancel, result, purge, saver,
                   moves, written, exits, ioErrors, stored, late, again>>

\* copy_tree_filtered, one entry; what was removed meanwhile is not copied.
CopyEntry(e) ==
    /\ move.at = "copy" /\ ~cancel /\ e \notin move.copied
    /\ staging' = [staging EXCEPT ![move.to][e] = entries[move.from][e]]
    /\ move' = [move EXCEPT !.copied = @ \cup {e}]
    /\ UNCHANGED <<pointer, loaded, entries, marker, cancel, result, purge, saver, moves,
                   written, exits, ioErrors, stored, late, again>>

\* cleanup_staging, when the copy was cancelled or failed.
CopyStops ==
    /\ move.at = "copy"
    /\ cancel \/ ioErrors < MaxIoErrors
    /\ ioErrors' = IF cancel THEN ioErrors ELSE ioErrors + 1
    /\ staging' = [staging EXCEPT ![move.to] = Blank]
    /\ EndMove
    /\ UNCHANGED <<pointer, loaded, entries, marker, cancel, result, purge, saver, moves,
                   written, exits, stored, late, again>>

\* verify_critical: the configuration has its size, the directory exists.  A
\* file that changed after it was copied may have kept its size.
Verify ==
    /\ move.at = "copy" /\ ~cancel /\ move.copied = Entry
    /\ LET here == entries[move.from]
           there == staging[move.to]
           missing == \E e \in Entry : here[e] # {} /\ there[e] = {}
       IN \E sizesAgree \in {here["config"] = there["config"], here["config"] = {} \/ ~missing} :
            IF missing \/ ~sizesAgree
            THEN EndMove /\ staging' = [staging EXCEPT ![move.to] = Blank]
            ELSE move' = [move EXCEPT !.at = "promote"] /\ UNCHANGED staging
    /\ UNCHANGED <<pointer, loaded, entries, marker, cancel, result, purge, saver, moves,
                   written, exits, ioErrors, stored, late, again>>

\* promote_staging, one entry.
Promote(e) ==
    /\ move.at = "promote" /\ staging[move.to][e] # {} /\ entries[move.to][e] = {}
    /\ entries' = [entries EXCEPT ![move.to][e] = staging[move.to][e]]
    /\ staging' = [staging EXCEPT ![move.to][e] = {}]
    /\ UNCHANGED <<pointer, loaded, marker, move, cancel, result, purge, saver, moves,
                   written, exits, ioErrors, stored, late, again>>

MutantPromoteFails ==
    /\ move.at = "promote" /\ ioErrors < MaxIoErrors
    /\ ioErrors' = ioErrors + 1
    /\ staging' = [staging EXCEPT ![move.to] = Blank]
    /\ UNCHANGED move
    /\ UNCHANGED <<pointer, loaded, entries, marker, cancel, result, purge, saver, moves,
                   written, exits, stored, late, again>>

\* What was promoted stays in the target, which is not empty any more.
PromoteFails ==
    /\ move.at = "promote" /\ ioErrors < MaxIoErrors
    /\ ioErrors' = ioErrors + 1
    /\ staging' = [staging EXCEPT ![move.to] = Blank]
    /\ EndMove
    /\ UNCHANGED <<pointer, loaded, entries, marker, cancel, result, purge, saver, moves,
                   written, exits, stored, late, again>>

\* The key paths are rewritten and the source is marked; a marker that cannot
\* be written is only logged.
Retire ==
    /\ move.at = "promote" /\ staging[move.to] = Blank
    /\ marker' \in {marker, [marker EXCEPT ![move.from] = move.to]}
    /\ move' = [move EXCEPT !.at = "point"]
    /\ UNCHANGED <<pointer, loaded, entries, staging, cancel, result, purge, saver, moves,
                   written, exits, ioErrors, stored, late, again>>

\* write_user_data_root; the application goes on with the root it loaded.
WritePointer ==
    /\ move.at = "point"
    /\ pointer' = move.to
    /\ result' = [old |-> move.from, new |-> move.to]
    /\ late' = late \cup move.behind
    /\ EndMove
    /\ UNCHANGED <<loaded, entries, staging, marker, cancel, purge, saver, moves, written,
                   exits, ioErrors, stored, again>>

PointerFails ==
    /\ move.at = "point" /\ ioErrors < MaxIoErrors
    /\ ioErrors' = ioErrors + 1
    /\ EndMove
    /\ UNCHANGED <<pointer, loaded, entries, staging, marker, cancel, result, purge, saver,
                   moves, written, exits, stored, late, again>>

\* cancel_migrate_data_root; only the copy looks at the flag.
CancelMove ==
    /\ Busy /\ ~cancel
    /\ cancel' = TRUE
    /\ UNCHANGED <<pointer, loaded, entries, staging, marker, move, result, purge, saver,
                   moves, written, exits, ioErrors, stored, late, again>>

-----------------------------------------------------------------------------
(* delete_retired_data_root, asked for by the dialog of a finished move.    *)

BeginPurge ==
    /\ loaded # NoRoot /\ ~Busy /\ purge = NoRoot /\ result # NoResult
    /\ marker[result.old] = result.new
    /\ purge' = result.old
    /\ UNCHANGED <<pointer, loaded, entries, staging, marker, move, cancel, result, saver,
                   moves, written, exits, ioErrors, stored, late, again>>

PurgeEntry(e) ==
    /\ purge # NoRoot /\ entries[purge][e] # {}
    /\ entries' = [entries EXCEPT ![purge][e] = {}]
    /\ UNCHANGED <<pointer, loaded, staging, marker, move, cancel, result, purge, saver,
                   moves, written, exits, ioErrors, stored, late, again>>

EndPurge ==
    /\ purge # NoRoot
    /\ \/ entries[purge] = Blank /\ UNCHANGED ioErrors
       \/ ioErrors < MaxIoErrors /\ ioErrors' = ioErrors + 1
    /\ marker' = IF entries[purge] = Blank THEN [marker EXCEPT ![purge] = NoRoot] ELSE marker
    /\ purge' = NoRoot
    /\ UNCHANGED <<pointer, loaded, entries, staging, move, cancel, result, saver, moves,
                   written, exits, stored, late, again>>

-----------------------------------------------------------------------------
\* The application is restarted, exits or dies: what was in flight is gone.
Exit ==
    /\ loaded # NoRoot /\ exits < MaxExits
    /\ exits' = exits + 1
    /\ loaded' = NoRoot
    /\ move' = NoMove /\ purge' = NoRoot /\ result' = NoResult /\ cancel' = FALSE
    /\ saver' = [s \in Savers |-> NotSaving]
    /\ UNCHANGED <<pointer, entries, staging, marker, moves, written, ioErrors, stored, late, again>>

\* resolve_data_root
StartUp ==
    /\ loaded = NoRoot
    /\ loaded' = pointer
    /\ UNCHANGED <<pointer, entries, staging, marker, move, cancel, result, purge, saver,
                   moves, written, exits, ioErrors, stored, late, again>>

RootNext ==
    \/ \E s \in Savers : (\E e \in Entry : BeginSave(s, e)) \/ WriteChange(s)
    \/ \E r \in Roots : BeginMove(r)
    \/ BotsStopped \/ BotsNotStopped
    \/ \E e \in Entry : CopyEntry(e) \/ Promote(e) \/ PurgeEntry(e)
    \/ CopyStops \/ Verify \/ PromoteFails \/ Retire \/ WritePointer \/ PointerFails
    \/ CancelMove \/ BeginPurge \/ EndPurge
    \/ Exit \/ StartUp

RootSpec == RootInit /\ [][RootNext]_rootVars

-----------------------------------------------------------------------------
(* Properties.                                                             *)

\* Type invariant of the data roots and the move between them.
RootTypeOK ==
    /\ pointer \in Roots /\ loaded \in Roots \cup {NoRoot} /\ purge \in Roots \cup {NoRoot}
    /\ entries \in [Roots -> [Entry -> SUBSET (0 .. MaxChanges)]]
    /\ staging \in [Roots -> [Entry -> SUBSET (0 .. MaxChanges)]]
    /\ marker \in [Roots -> Roots \cup {NoRoot}]
    /\ move.at \in {"rest", "stop", "copy", "promote", "point"} /\ move.copied \subseteq Entry
    /\ late \subseteq 0 .. MaxChanges /\ stored \subseteq 0 .. MaxChanges

\* Whenever the application dies, is restarted or just goes on, at whatever
\* step of a move that succeeds, fails or is cancelled, and of the deletion of
\* the old root: the root of the next start holds everything that was ever
\* stored, except changes written behind the copy by a save that looked at the
\* gate before the move or by an install, and changes written after the move
\* to the root the application has not left yet.  (A second move from a root
\* that was already left copies what is left there.)
NextStartHasTheData ==
    ~again => {0} \cup (stored \ late) \subseteq Content(pointer)
=============================================================================
