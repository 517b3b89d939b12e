-------------------------------- MODULE QqTree --------------------------------
(***************************************************************************)
(* The QQ installation of one Linux server, a tree of files that QQ and    *)
(* NapCat are installed into and that the bots of both flavours start      *)
(* from: the "main" of its package.json names the entry, QQ's own or the   *)
(* loader NapCat has written.                                              *)
(*                                                                         *)
(* Component actions (src-tauri/src/commands/components/mod.rs, ncd-deploy *)
(* runner.rs, ncd-component qq.rs and napcat.rs) are tasks of the queue    *)
(* DeploymentTasks models: two of one component never run at the same      *)
(* time, two of different components may.  Bots set the entry they need    *)
(* under a lock per server (remote_coordinator.rs), and launch after it.   *)
(*                                                                         *)
(* Downloads, archives, system packages, versions and the Windows layout   *)
(* are left out.                                                           *)
(***************************************************************************)
EXTENDS Naturals, FiniteSets

CONSTANTS TreeBots,    (* the bots of the server                            *)
          MaxTasks,    (* bound: component actions submitted                *)
          MaxIoFailures, (* bound: file operations that fail                  *)
          MaxLaunches  (* bound: starts of bots                             *)

VARIABLES main,    (* what package.json names: "qq", "napcat", or no file   *)
          program, (* the QQ executable is there                            *)
          core,    (* NapCat's files: "none", "partial" or "full"           *)
          loader,  (* loadNapCat.js is there                                *)
          queue,   (* submitted actions                                     *)
          doing,   (* component -> the action that runs                     *)
          starter, (* bot -> what its start does                            *)
          damaged, (* an action failed on its way, or two wrote at a time   *)
          tasks, ioFailures, launches                        (* what is bounded *)

files == <<main, program, core, loader>>
treeVars == <<files, queue, doing, starter, damaged, tasks, ioFailures, launches>>

Components == {"qq", "napcat"}
Kinds == {"ensure", "force", "update", "uninstall"}
NoAction == [kind |-> "none", at |-> "idle"]

TreeInit ==
    /\ main = "none" /\ program = FALSE /\ core = "none" /\ loader = FALSE
    /\ queue = {}
    /\ doing = [c \in Components |-> NoAction]
    /\ starter = [b \in TreeBots |->
                     [at |-> "off", flavor |-> "napcat", alone |-> TRUE, works |-> TRUE]]
    /\ damaged = FALSE
    /\ tasks = 0 /\ ioFailures = 0 /\ launches = 0

-----------------------------------------------------------------------------
(* Submission.                                                             *)

Installs == {"ensure", "force", "update"}

Unfinished(c, kind) == doing[c].kind = kind \/ \E q \in queue : q.component = c /\ q.kind = kind

\* ensure_host_idle_for_component_mutation, when the action is submitted
HostIsIdle == \A b \in TreeBots : starter[b].at = "off"

\* detect: package.json, napcat.mjs
Detected(c) == IF c = "qq" THEN main # "none" ELSE core # "none"

Queued(c, kind, waits) == [component |-> c, kind |-> kind, waits |-> waits]

\* run_component_action.  An action that waits or runs is not submitted
\* again; NapCat brings an installation of QQ with it where QQ is missing.
Submit(c, kind) ==
    /\ tasks < MaxTasks /\ ~Unfinished(c, kind)
    /\ kind \in {"update", "uninstall"} => HostIsIdle
    /\ LET needs == c = "napcat" /\ kind \in Installs /\ ~Detected("qq")
           brought == IF needs /\ ~Unfinished("qq", "ensure")
                      THEN {Queued("qq", "ensure", FALSE)} ELSE {}
       IN queue' = queue \cup {Queued(c, kind, needs)} \cup brought
    /\ tasks' = tasks + 1
    /\ UNCHANGED <<files, doing, starter, damaged, ioFailures, launches>>

\* Cancelled before it runs; one that waits for it fails.
Cancel(q) ==
    /\ q \in queue
    /\ queue' = {r \in queue \ {q} : ~(r.waits /\ q.component = "qq" /\ q.kind = "ensure")}
    /\ UNCHANGED <<files, doing, starter, damaged, tasks, ioFailures, launches>>

-----------------------------------------------------------------------------
(* DeployPlan::run of one step.                                            *)

Writing(c) == doing[c].at \notin {"idle", "checking"}
\* A start that has set the entry is not alone any more.
Disturbed(but) ==
    [b \in TreeBots |-> IF b \notin but /\ starter[b].at \in {"verifying", "ready"}
                        THEN [starter[b] EXCEPT !.alone = FALSE] ELSE starter[b]]

MutantEnds(c, ok) ==
    /\ doing' = [doing EXCEPT ![c].at = "idle"]
    /\ queue' = IF c # "qq" \/ doing[c].kind # "ensure" THEN queue
                ELSE IF ok THEN {[q EXCEPT !.waits = FALSE] : q \in queue}
                ELSE {q \in queue : ~q.waits}

\* The end of the action: what waits for QQ may run, or fails with it.
Ends(c, ok) ==
    /\ doing' = [doing EXCEPT ![c] = NoAction]
    /\ queue' = IF c # "qq" \/ doing[c].kind # "ensure" THEN queue
                ELSE IF ok THEN {[q EXCEPT !.waits = FALSE] : q \in queue}
                ELSE {q \in queue : ~q.waits}

BeginAction(q) ==
    /\ q \in queue /\ ~q.waits /\ doing[q.component] = NoAction
    /\ queue' = queue \ {q}
    /\ doing' = [doing EXCEPT ![q.component] = [kind |-> q.kind, at |-> "checking"]]
    /\ UNCHANGED <<files, starter, damaged, tasks, ioFailures, launches>>

\* EnsureInstalled of what is there; ensure_linux_qq_installed; a download
\* that fails or is cancelled.
EndsEarly(c) ==
    /\ doing[c].at = "checking"
    /\ Ends(c, doing[c].kind = "ensure" /\ Detected(c))
    /\ UNCHANGED <<files, starter, damaged, tasks, ioFailures, launches>>

\* From here on files are written.
Proceeds(c) ==
    /\ doing[c].at = "checking"
    /\ doing[c].kind = "ensure" => ~Detected(c)
    /\ c = "napcat" /\ doing[c].kind # "uninstall" => main # "none" /\ program
    /\ LET place == IF doing[c].kind = "uninstall" THEN "removing" ELSE "writing"
       IN doing' = [doing EXCEPT ![c].at = place]
    /\ damaged' = (damaged \/ \E d \in Components \ {c} : Writing(d))
    /\ starter' = Disturbed({})
    /\ UNCHANGED <<files, queue, tasks, ioFailures, launches>>

\* The next place of an action that goes on.
GoesOn(c, place) ==
    /\ doing' = [doing EXCEPT ![c].at = place]
    /\ starter' = Disturbed({})
    /\ UNCHANGED <<queue, damaged, tasks, ioFailures, launches>>
Done(c) ==
    /\ Ends(c, TRUE)
    /\ starter' = Disturbed({})
    /\ UNCHANGED <<damaged, tasks, ioFailures, launches>>
Fails(c) ==
    /\ ioFailures < MaxIoFailures
    /\ ioFailures' = ioFailures + 1
    /\ Ends(c, FALSE)
    /\ damaged' = TRUE
    /\ starter' = Disturbed({})
    /\ UNCHANGED <<tasks, launches>>

\* QQComponent::install_linux: the archive is unpacked over what is there,
\* package.json among it, file by file.
UnpackQq ==
    /\ doing["qq"].at = "writing"
    /\ \/ main' = "qq" /\ UNCHANGED program
       \/ program' = TRUE /\ UNCHANGED main
    /\ UNCHANGED <<core, loader>>
    /\ GoesOn("qq", "unpacking") \/ Fails("qq")
UnpackQqEnds ==
    /\ doing["qq"].at = "unpacking"
    /\ main' = "qq" /\ program' = TRUE
    /\ UNCHANGED <<core, loader>>
    /\ Done("qq")

\* QQComponent::uninstall_linux removes the tree, NapCat with it; a removal
\* that fails leaves some of it.
RemoveQq ==
    /\ doing["qq"].at = "removing"
    /\ \/ main' = "none" /\ program' = FALSE /\ core' = "none" /\ loader' = FALSE
          /\ Done("qq")
       \/ main' \in {"none", main} /\ program' \in {FALSE, program}
          /\ core' \in {"none", core} /\ loader' \in {FALSE, loader}
          /\ Fails("qq")

\* NapCatComponent::install_inner: NapCat's files, over those of an earlier
\* version, ...
CopyNapcat ==
    /\ doing["napcat"].at = "writing"
    /\ core' = "partial"
    /\ UNCHANGED <<main, program, loader>>
    /\ GoesOn("napcat", "copying") \/ Fails("napcat")
CopyNapcatEnds ==
    /\ doing["napcat"].at = "copying" /\ core # "none"
    /\ core' = "full"
    /\ UNCHANGED <<main, program, loader>>
    /\ GoesOn("napcat", "loading")
\* ... the loader, ...
WriteLoader ==
    /\ doing["napcat"].at = "loading"
    /\ loader' = TRUE
    /\ UNCHANGED <<main, program, core>>
    /\ GoesOn("napcat", "patching")
\* ... and last patch_qq_main.
PatchQqMain ==
    /\ doing["napcat"].at = "patching" /\ main # "none"
    /\ main' = "napcat"
    /\ UNCHANGED <<program, core, loader>>
    /\ Done("napcat")
NapcatFails ==
    /\ doing["napcat"].at \in {"copying", "loading", "patching"}
    /\ UNCHANGED files
    /\ Fails("napcat")

\* NapCatComponent::uninstall_linux: only the removal of NapCat's files can
\* fail it, what follows is tried.
RemoveNapcat ==
    /\ doing["napcat"].at = "removing"
    /\ UNCHANGED <<main, program, loader>>
    /\ \/ core' = "none" /\ GoesOn("napcat", "removing loader")
       \/ core' \in {core, IF core = "none" THEN core ELSE "partial"} /\ Fails("napcat")
RemoveLoader ==
    /\ doing["napcat"].at = "removing loader"
    /\ loader' = FALSE
    /\ UNCHANGED <<main, program, core>>
    /\ GoesOn("napcat", "restoring")
RestoreMain ==
    /\ doing["napcat"].at = "restoring"
    /\ main' = IF main = "none" THEN "none" ELSE "qq"
    /\ UNCHANGED <<program, core, loader>>
    /\ Done("napcat")
RestoreIsTried ==
    /\ doing["napcat"].at \in {"removing loader", "restoring"} /\ ioFailures < MaxIoFailures
    /\ ioFailures' = ioFailures + 1
    /\ damaged' = TRUE
    /\ IF doing["napcat"].at = "restoring" THEN Ends("napcat", TRUE)
       ELSE doing' = [doing EXCEPT !["napcat"].at = "restoring"] /\ UNCHANGED queue
    /\ UNCHANGED <<files, starter, tasks, launches>>

-----------------------------------------------------------------------------
(* A bot starts: ensure_for_napcat, ensure_for_native, then the launch.    *)

MutantSetEntry(b, flavor) ==
    /\ starter[b].at = "off" /\ launches < MaxLaunches
    /\ \A c \in TreeBots : starter[c].at # "verifying"
    /\ main # "none"
    /\ launches' = launches + 1
    /\ main' = IF flavor = "napcat" THEN "napcat" ELSE main
    /\ starter' = [Disturbed({b}) EXCEPT
          ![b] = [at |-> IF flavor = "napcat" THEN "verifying" ELSE "ready", flavor |-> flavor,
                  alone |-> \A c \in Components : ~Writing(c), works |-> TRUE]]
    /\ UNCHANGED <<program, core, loader, queue, doing, damaged, tasks, ioFailures>>

\* The lock is the server's: only one start is between its entry and the
\* check of NapCat's files.
SetEntry(b, flavor) ==
    /\ starter[b].at = "off" /\ launches < MaxLaunches
    /\ \A c \in TreeBots : starter[c].at # "verifying"
    /\ main # "none"
    /\ launches' = launches + 1
    /\ main' = IF flavor = "napcat" THEN "napcat" ELSE "qq"
    /\ starter' = [Disturbed({b}) EXCEPT
          ![b] = [at |-> IF flavor = "napcat" THEN "verifying" ELSE "ready", flavor |-> flavor,
                  alone |-> \A c \in Components : ~Writing(c), works |-> TRUE]]
    /\ UNCHANGED <<program, core, loader, queue, doing, damaged, tasks, ioFailures>>

\* loadNapCat.js and napcat.mjs are there, or the start fails and leaves the
\* entry it has set.
VerifyNapcat(b) ==
    /\ starter[b].at = "verifying"
    /\ \/ loader /\ core # "none" /\ starter' = [starter EXCEPT ![b].at = "ready"]
       \/ (~loader \/ core # "full") /\ starter' = [starter EXCEPT ![b].at = "off"]
    /\ UNCHANGED <<files, queue, doing, damaged, tasks, ioFailures, launches>>

\* QQ reads the entry when it is launched.
LaunchQq(b) ==
    /\ starter[b].at = "ready" /\ program
    /\ LET found == IF starter[b].flavor = "napcat"
                    THEN main = "napcat" /\ loader /\ core = "full"
                    ELSE main = "qq"
       IN starter' = [starter EXCEPT ![b].at = "up", ![b].works = found]
    /\ UNCHANGED <<files, queue, doing, damaged, tasks, ioFailures, launches>>

\* The start fails elsewhere, or the bot is stopped.
Off(b) ==
    /\ starter[b].at \in {"verifying", "ready", "up"}
    /\ starter' = [starter EXCEPT ![b] = [@ EXCEPT !.at = "off", !.works = TRUE]]
    /\ UNCHANGED <<files, queue, doing, damaged, tasks, ioFailures, launches>>

TreeNext ==
    \/ \E c \in Components, kind \in Kinds : Submit(c, kind)
    \/ \E q \in queue : Cancel(q) \/ BeginAction(q)
    \/ \E c \in Components : EndsEarly(c) \/ Proceeds(c)
    \/ UnpackQq \/ UnpackQqEnds \/ RemoveQq
    \/ CopyNapcat \/ CopyNapcatEnds \/ WriteLoader \/ PatchQqMain \/ NapcatFails
    \/ RemoveNapcat \/ RemoveLoader \/ RestoreMain \/ RestoreIsTried
    \/ \E b \in TreeBots :
          \/ \E flavor \in {"napcat", "snowluma"} : SetEntry(b, flavor)
          \/ VerifyNapcat(b) \/ LaunchQq(b) \/ Off(b)

TreeSpec == TreeInit /\ [][TreeNext]_treeVars

-----------------------------------------------------------------------------
(* Properties.                                                             *)

\* Type invariant of the tree and what works on it.
TreeTypeOK ==
    /\ main \in {"none", "qq", "napcat"} /\ program \in BOOLEAN
    /\ core \in {"none", "partial", "full"} /\ loader \in BOOLEAN
    /\ queue \subseteq [component : Components, kind : Kinds, waits : BOOLEAN]
    /\ \A c \in Components : doing[c].kind \in Kinds \cup {"none"}
                             /\ (doing[c].at = "idle" <=> doing[c].kind = "none")

\* A bot that starts gets the QQ it asked for, plain or with NapCat, whatever
\* flavours started before it and whatever was installed, updated and removed
\* in between, unless another start or a component action came between the
\* entry it set and its launch, or an action had failed halfway.
QqStartsAsAsked ==
    ~damaged => \A b \in TreeBots : (starter[b].at = "up" /\ starter[b].alone) => starter[b].works
=============================================================================
