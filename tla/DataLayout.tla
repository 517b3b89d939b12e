----------------------------- MODULE DataLayout -----------------------------
(***************************************************************************)
(* consolidate_data_root (ncd-runtime/src/data/consolidate.rs): at every   *)
(* start, before anything reads the data root, user data in the layout of  *)
(* version 2 is zipped to the desktop, brought to the paths of layout v1,  *)
(* and the old directories are archived.  The application can die at any   *)
(* step, steps can fail, and the next start goes on from what it finds.    *)
(*                                                                         *)
(* Two kinds of data stand for all: "file", a configuration file that is   *)
(* copied (bot.json, app-settings.json, servers.json, and the protocol     *)
(* files), and "tree", a directory that is renamed, or copied and removed  *)
(* when it cannot be renamed (the component installations).  Both live     *)
(* under runtime/; log/ is a shell without data.  A copy that was cut off  *)
(* leaves "part" of the data, which looks like the whole to every check.   *)
(***************************************************************************)
EXTENDS Integers, Sequences, FiniteSets, SequencesExt

CONSTANTS KeepZips,          (* MAX_DESKTOP_BACKUP_ZIPS, 3 in the code       *)
          KeepArchives,      (* MAX_PRE_CONSOLIDATE_ARCHIVES, 1 in the code  *)
          MaxInterruptions   (* bound: steps that fail, and deaths           *)

ASSUME KeepZipsAssumption == KeepZips \in Nat \ {0} /\ KeepArchives \in Nat \ {0}

VARIABLES legacy,    (* data -> what is under runtime/                      *)
          current,   (* data -> what is at its v1 path                      *)
          logShell,  (* the old log/ directory is there                     *)
          layout,    (* version in layout-version.json, 0 when unreadable   *)
          zips,      (* backups on the desktop, oldest first: what is whole *)
          archives,  (* tmp/pre-consolidate-*, oldest first: what is whole  *)
          startup,   (* where the start is                                  *)
          interruptions,  (* what is bounded                                *)
          had        (* history: the data the user had                      *)

layoutVars == <<legacy, current, logShell, layout, zips, archives, startup, interruptions, had>>

Data == {"file", "tree"}
Extent == {"none", "part", "whole"}

Whole(place) == {d \in Data : place[d] = "whole"}

\* The zip holds configuration, secrets and state, not the installations.
Zipped == {"file"} \cap (Whole(legacy) \cup Whole(current))

\* has_unmigrated_user_data: by existence alone.
Unmigrated == \E d \in Data : legacy[d] # "none" /\ current[d] = "none"

HasLegacyShells == logShell \/ \E d \in Data : legacy[d] # "none"

\* can_archive_legacy_shells
CanArchive == layout = 1 /\ ~Unmigrated

LastFew(seq, n) == SubSeq(seq, IF Len(seq) > n THEN Len(seq) - n + 1 ELSE 1, Len(seq))

LayoutInit ==
    /\ had \in SUBSET Data
    /\ legacy = [d \in Data |-> IF d \in had THEN "whole" ELSE "none"]
    /\ current = [d \in Data |-> "none"]
    /\ logShell \in BOOLEAN
    /\ layout = 0
    /\ zips = <<>> /\ archives = <<>>
    /\ startup = "look"
    /\ interruptions = 0

Goto(step) == startup' = step

Interrupted ==
    /\ interruptions < MaxInterruptions
    /\ interruptions' = interruptions + 1

-----------------------------------------------------------------------------
\* needs_consolidate, or the archive alone.
Look ==
    /\ startup = "look"
    /\ Goto(IF layout = 0 \/ Unmigrated THEN "zip"
            ELSE IF HasLegacyShells /\ CanArchive THEN "archive" ELSE "up")
    /\ UNCHANGED <<legacy, current, logShell, layout, zips, archives, interruptions, had>>

\* backup_user_data_to_desktop: the file has its final name from the beginning.
OpenZip ==
    /\ startup = "zip"
    /\ zips' = Append(zips, {})
    /\ Goto("zipping")
    /\ UNCHANGED <<legacy, current, logShell, layout, archives, interruptions, had>>

FinishZip ==
    /\ startup = "zipping"
    /\ zips' = LastFew(Append(Front(zips), Zipped), KeepZips)
    /\ Goto("file")
    /\ UNCHANGED <<legacy, current, logShell, layout, archives, interruptions, had>>

\* Without a backup nothing is moved, unless there is nothing to lose.
ZipFails ==
    /\ startup \in {"zip", "zipping"} /\ Interrupted
    /\ Goto(IF legacy["file"] # "none" \/ current["file"] # "none" THEN "up" ELSE "file")
    /\ UNCHANGED <<legacy, current, logShell, layout, zips, archives, had>>

\* copy_file_prefer: what is already there stays.
CopyFile ==
    /\ startup = "file"
    /\ IF legacy["file"] # "none" /\ current["file"] = "none"
       THEN current' = [current EXCEPT !["file"] = "part"] /\ Goto("copying file")
       ELSE UNCHANGED current /\ Goto("tree")
    /\ UNCHANGED <<legacy, logShell, layout, zips, archives, interruptions, had>>

FinishFile ==
    /\ startup = "copying file"
    /\ current' = [current EXCEPT !["file"] = legacy["file"]]
    /\ Goto("tree")
    /\ UNCHANGED <<legacy, logShell, layout, zips, archives, interruptions, had>>

MutantMoveTree ==
    /\ startup = "tree"
    /\ IF legacy["tree"] # "none" /\ current["tree"] = "none"
       THEN \/ /\ current' = [current EXCEPT !["tree"] = legacy["tree"]]
               /\ legacy' = [legacy EXCEPT !["tree"] = "none"]
               /\ Goto("marker")
            \/ /\ current' = [current EXCEPT !["tree"] = "part"]
               /\ legacy' = [legacy EXCEPT !["tree"] = "none"]
               /\ Goto("copying tree")
       ELSE UNCHANGED <<legacy, current>> /\ Goto("marker")
    /\ UNCHANGED <<logShell, layout, zips, archives, interruptions, had>>

\* move_dir_prefer: a rename, or a copy when the rename fails.
MoveTree ==
    /\ startup = "tree"
    /\ IF legacy["tree"] # "none" /\ current["tree"] = "none"
       THEN \/ /\ current' = [current EXCEPT !["tree"] = legacy["tree"]]
               /\ legacy' = [legacy EXCEPT !["tree"] = "none"]
               /\ Goto("marker")
            \/ /\ current' = [current EXCEPT !["tree"] = "part"]
               /\ UNCHANGED legacy
               /\ Goto("copying tree")
       ELSE UNCHANGED <<legacy, current>> /\ Goto("marker")
    /\ UNCHANGED <<logShell, layout, zips, archives, interruptions, had>>

\* The removal of the source is not checked: it may go, stay, or half go.
FinishTree ==
    /\ startup = "copying tree"
    /\ current' = [current EXCEPT !["tree"] = legacy["tree"]]
    /\ \E left \in {"none", "part", legacy["tree"]} : legacy' = [legacy EXCEPT !["tree"] = left]
    /\ Goto("marker")
    /\ UNCHANGED <<logShell, layout, zips, archives, interruptions, had>>

\* An error ends the consolidation; the application starts with what there is.
StepFails ==
    /\ startup \in {"file", "copying file", "copying tree", "marker"} /\ Interrupted
    /\ Goto("up")
    /\ UNCHANGED <<legacy, current, logShell, layout, zips, archives, had>>

\* write_layout_version, then the archive if it is safe.
WriteMarker ==
    /\ startup = "marker"
    /\ layout' = 1
    /\ Goto(IF ~Unmigrated THEN "archive" ELSE "up")
    /\ UNCHANGED <<legacy, current, logShell, zips, archives, interruptions, had>>

-----------------------------------------------------------------------------
(* archive_legacy_shells                                                   *)

\* The archive takes runtime/ as a whole, when it is there.  When renaming
\* fails the tree is copied and removed; the removal can stop half-way, and
\* then runtime/ does not count as archived.
ArchiveRuntime ==
    /\ startup = "archive"
    /\ \/ /\ archives' = Append(archives, Whole(legacy))
          /\ legacy' = [d \in Data |-> "none"]
          /\ Goto(IF \E d \in Data : legacy[d] # "none" THEN "log too" ELSE "log first")
          /\ UNCHANGED interruptions
       \/ /\ Interrupted
          /\ \/ archives' = Append(archives, {}) /\ UNCHANGED legacy
             \/ /\ archives' = Append(archives, Whole(legacy))
                /\ \E left \in {"none", "part"} :
                      legacy' = [d \in Data |-> IF legacy[d] = "none" THEN "none" ELSE left]
          /\ Goto("log first")
    /\ UNCHANGED <<current, logShell, layout, zips, had>>

\* An archive that took nothing is removed.
ArchiveLog ==
    /\ startup \in {"log too", "log first"}
    /\ \/ logShell' = FALSE /\ UNCHANGED interruptions
       \/ logShell /\ Interrupted /\ UNCHANGED logShell
    /\ archives' = IF startup = "log first" /\ (logShell' \/ ~logShell) THEN Front(archives)
                   ELSE archives
    /\ Goto("prune")
    /\ UNCHANGED <<legacy, current, layout, zips, had>>

\* prune_pre_consolidate_archives
PruneArchives ==
    /\ startup = "prune"
    /\ archives' = LastFew(archives, KeepArchives)
    /\ Goto("up")
    /\ UNCHANGED <<legacy, current, logShell, layout, zips, interruptions, had>>

\* The application dies on the way, or exits later.
Die ==
    /\ startup # "look"
    /\ IF startup = "up" THEN UNCHANGED interruptions ELSE Interrupted
    /\ Goto("look")
    /\ UNCHANGED <<legacy, current, logShell, layout, zips, archives, had>>

LayoutNext ==
    \/ Look \/ OpenZip \/ FinishZip \/ ZipFails
    \/ CopyFile \/ FinishFile \/ MoveTree \/ FinishTree \/ StepFails
    \/ WriteMarker \/ ArchiveRuntime \/ ArchiveLog \/ PruneArchives \/ Die

LayoutSpec == LayoutInit /\ [][LayoutNext]_layoutVars

-----------------------------------------------------------------------------
(* Properties.                                                             *)

\* Type invariant of the layouts of the data root.
LayoutTypeOK ==
    /\ legacy \in [Data -> Extent] /\ current \in [Data -> Extent]
    /\ layout \in {0, 1}
    /\ \A z \in Range(zips) \cup Range(archives) : z \subseteq Data

\* Somewhere a user still finds the whole of d.
Kept(d) == d \in Whole(legacy) \cup Whole(current) \cup UNION (Range(zips) \cup Range(archives))

\* A start that was never interrupted leaves all data whole at its v1 path.
\* However often starts fail or die, at whatever step: a whole copy of every
\* configuration file stays somewhere.  A whole copy of an installation stays
\* too after one interruption; two can lose it (a copy that was cut off, and
\* an archive of its own for log/, which pushes out the one with the source).
DataIsKept ==
    \A d \in had :
        /\ (startup = "up" /\ interruptions = 0) => current[d] = "whole"
        /\ (d = "file" \/ interruptions < 2) => Kept(d)
=============================================================================
