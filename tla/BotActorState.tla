--------------------------- MODULE BotActorState ---------------------------
(***************************************************************************)
(* The state machine of one bot, as pure operators: the bodies of the      *)
(* command handlers of ncd-runtime/src/bot_actor.rs over the snapshot type *)
(* of ncd-domain/src/bot_actor.rs.  No variables: BotActor runs these      *)
(* handlers behind the actor's mailbox, BotManager calls them from its     *)
(* operations.                                                             *)
(*                                                                         *)
(* A cancellation token is named by the generation that created it, and    *)
(* the set "cancelled" holds the generations whose token was cancelled.    *)
(* The text of last_error and last_transition is left out: last_error is   *)
(* kept as the Boolean "an error is recorded".                             *)
(***************************************************************************)
EXTENDS Integers

State == {"Stopped", "Starting", "Running", "Stopping", "Crashed", "Repairing"}

\* BotActorState::is_active
IsActive(state) == state \in {"Starting", "Running", "Stopping"}

Snapshot == [state : State, revision : Nat, token_generation : Nat,
             pending_restart : BOOLEAN, last_error : BOOLEAN]

NewSnapshot == [state |-> "Stopped", revision |-> 0, token_generation |-> 0,
                pending_restart |-> FALSE, last_error |-> FALSE]

-----------------------------------------------------------------------------
(* What a handler hands back to the worker loop: the snapshot, the tokens   *)
(* cancelled so far, and Ok(true), Ok(false) or Err(InvalidTransition).     *)

Result == {"advanced", "unchanged", "invalid"}
Outcome == [snapshot : Snapshot, cancelled : SUBSET Nat, result : Result]

Advanced(s, c)  == [snapshot |-> s, cancelled |-> c, result |-> "advanced"]
Unmoved(s, c) == [snapshot |-> s, cancelled |-> c, result |-> "unchanged"]
Refused(s, c)   == [snapshot |-> s, cancelled |-> c, result |-> "invalid"]

\* snapshot.advance(..) after the flag and the error were set
Advance(s, to, pending, error) ==
    [s EXCEPT !.state = to, !.revision = @ + 1,
              !.pending_restart = pending, !.last_error = error]

\* note_error bumps the revision too, so a fault costs two revisions
NoteError(s) == [s EXCEPT !.last_error = TRUE, !.revision = @ + 1]

ResetToken(s) == [s EXCEPT !.token_generation = @ + 1]

CancelCurrentToken(s, c) == c \cup {s.token_generation}

\* A new run begins: a fresh token, no restart pending, no error.
BeginRun(s) == Advance(ResetToken(s), "Starting", FALSE, FALSE)

-----------------------------------------------------------------------------
(* Plausible slips of the handlers, used only to show that the properties  *)
(* notice them.                                                            *)

MutantStopKeepsToken(s, c) ==
    IF s.state \in {"Running", "Starting"}
    THEN Advanced(Advance(s, "Stopping", FALSE, s.last_error), c)
    ELSE Unmoved(s, c)

MutantCrashKeepsPending(s, c) ==
    IF s.state = "Stopped"
    THEN Refused(s, c)
    ELSE Advanced(Advance(NoteError(s), "Crashed", s.pending_restart, TRUE),
                  CancelCurrentToken(s, c))

MutantQueuedRestartDropped(s, c) ==
    IF s.state = "Stopping"
    THEN Advanced(Advance(s, "Stopped", FALSE, FALSE), c)
    ELSE IF s.state = "Stopped" THEN Unmoved(s, c) ELSE Refused(s, c)

-----------------------------------------------------------------------------
(* The handlers.                                                           *)

RequestStart(s, c) ==
    IF s.state \in {"Stopped", "Crashed"} THEN Advanced(BeginRun(s), c)
    ELSE IF s.state \in {"Starting", "Running"} THEN Unmoved(s, c)
    ELSE Refused(s, c)

ConfirmRunning(s, c) ==
    IF s.state = "Starting"
    THEN Advanced(Advance(s, "Running", s.pending_restart, FALSE), c)
    ELSE IF s.state = "Running" THEN Unmoved(s, c) ELSE Refused(s, c)

\* A stop of a bot that is stopping already leaves a queued restart queued.
RequestStop(s, c) ==
    IF s.state \in {"Running", "Starting"}
    THEN Advanced(Advance(s, "Stopping", FALSE, s.last_error),
                  CancelCurrentToken(s, c))
    ELSE Unmoved(s, c)

ConfirmStopped(s, c) ==
    IF s.state = "Stopping"
    THEN IF s.pending_restart
         THEN Advanced(BeginRun(s), c)
         ELSE Advanced(Advance(s, "Stopped", FALSE, FALSE), c)
    ELSE IF s.state = "Stopped" THEN Unmoved(s, c) ELSE Refused(s, c)

RequestRestart(s, c) ==
    IF s.state \in {"Running", "Starting"}
    THEN Advanced(Advance(s, "Stopping", TRUE, s.last_error),
                  CancelCurrentToken(s, c))
    ELSE IF s.state \in {"Stopped", "Crashed"} THEN Advanced(BeginRun(s), c)
    ELSE IF s.state = "Stopping"
    THEN Unmoved([s EXCEPT !.pending_restart = TRUE], c)
    ELSE Refused(s, c)

MarkCrashed(s, c) ==
    IF s.state = "Stopped"
    THEN Refused(s, c)
    ELSE Advanced(Advance(NoteError(s), "Crashed", FALSE, TRUE),
                  CancelCurrentToken(s, c))

EnterRepair(s, c) ==
    IF s.state = "Running" THEN Refused(s, c)
    ELSE IF s.state = "Repairing" THEN Unmoved(s, c)
    ELSE Advanced(Advance(NoteError(s), "Repairing", FALSE, TRUE),
                  CancelCurrentToken(s, c))

ResolveRepair(s, c) ==
    IF s.state = "Repairing"
    THEN Advanced(Advance(s, "Stopped", s.pending_restart, FALSE), c)
    ELSE IF s.state = "Stopped" THEN Unmoved(s, c) ELSE Refused(s, c)

\* Unconditional, whatever the state; the worker leaves its loop afterwards.
Shutdown(s, c) ==
    Advanced(Advance(s, "Stopped", FALSE, FALSE), CancelCurrentToken(s, c))

Command == {"request_start", "confirm_running", "request_stop",
            "confirm_stopped", "request_restart", "mark_crashed",
            "enter_repair", "resolve_repair", "shutdown"}

\* The match of run_actor: one handler per command.
Handle(cmd, s, c) ==
    CASE cmd = "request_start"   -> RequestStart(s, c)
      [] cmd = "confirm_running" -> ConfirmRunning(s, c)
      [] cmd = "request_stop"    -> RequestStop(s, c)
      [] cmd = "confirm_stopped" -> ConfirmStopped(s, c)
      [] cmd = "request_restart" -> RequestRestart(s, c)
      [] cmd = "mark_crashed"    -> MarkCrashed(s, c)
      [] cmd = "enter_repair"    -> EnterRepair(s, c)
      [] cmd = "resolve_repair"  -> ResolveRepair(s, c)
      [] cmd = "shutdown"        -> Shutdown(s, c)
=============================================================================
