--------------------------- MODULE BotActorProofs ---------------------------
(***************************************************************************)
(* Proofs about BotActor for any set of callers, any capacity of the       *)
(* mailbox and any number of commands.                                     *)
(***************************************************************************)
EXTENDS BotActor, TLAPS

(***************************************************************************)
(* What every handler of BotActorState preserves, over a snapshot and the  *)
(* set of cancelled generations.                                           *)
(***************************************************************************)
TokensAreBounded(s, c) == \A g \in c : g <= s.token_generation

TokensMatch(s, c) ==
    \A g \in 1 .. s.token_generation :
        g \notin c <=> g = s.token_generation /\ s.state \in {"Starting", "Running"}

PendingMatches(s) == s.pending_restart = TRUE => s.state = "Stopping"
ErrorMatches(s) == s.last_error = TRUE <=> s.state \in {"Crashed", "Repairing"}

Sound(s, c) ==
    /\ s \in Snapshot /\ c \in SUBSET Nat
    /\ TokensAreBounded(s, c) /\ TokensMatch(s, c)
    /\ PendingMatches(s) /\ ErrorMatches(s)

Keeps(out, s) ==
    /\ out.snapshot \in Snapshot /\ out.cancelled \in SUBSET Nat /\ out.result \in Result
    /\ TokensAreBounded(out.snapshot, out.cancelled)
    /\ TokensMatch(out.snapshot, out.cancelled)
    /\ PendingMatches(out.snapshot) /\ ErrorMatches(out.snapshot)
    /\ out.snapshot.revision >= s.revision
    /\ out.result = "invalid" => out.snapshot = s

LEMMA AdvanceFields ==
    ASSUME NEW u \in Snapshot, NEW to \in State, NEW pending \in BOOLEAN, NEW error \in BOOLEAN
    PROVE  LET t == Advance(u, to, pending, error)
           IN  /\ t \in Snapshot /\ t.state = to /\ t.revision = u.revision + 1
               /\ t.pending_restart = pending /\ t.last_error = error
               /\ t.token_generation = u.token_generation
  <1> DEFINE n == u.revision + 1
             t == [u EXCEPT !.state = to, !.revision = n,
                            !.pending_restart = pending, !.last_error = error]
  <1>1. n \in Nat
    BY DEF Snapshot
  <1>2. Advance(u, to, pending, error) = t
    BY DEF Advance
  <1> HIDE DEF n
  <1>3. /\ t \in Snapshot /\ t.state = to /\ t.revision = n
        /\ t.pending_restart = pending /\ t.last_error = error
        /\ t.token_generation = u.token_generation
    BY <1>1 DEF Snapshot
  <1> QED
    BY <1>2, <1>3 DEF n

LEMMA NoteErrorFields ==
    ASSUME NEW s \in Snapshot
    PROVE  /\ NoteError(s) \in Snapshot /\ NoteError(s).revision = s.revision + 1
           /\ NoteError(s).token_generation = s.token_generation
  <1> DEFINE n == s.revision + 1
             e == TRUE
             t == [s EXCEPT !.last_error = e, !.revision = n]
  <1>1. n \in Nat /\ e \in BOOLEAN
    BY DEF Snapshot
  <1>2. NoteError(s) = t
    BY DEF NoteError
  <1> HIDE DEF n, e
  <1>3. /\ t \in Snapshot /\ t.revision = n /\ t.token_generation = s.token_generation
    BY <1>1 DEF Snapshot
  <1> QED
    BY <1>2, <1>3 DEF n

\* A state change within a run, with the token cancelled when the run is left.
LEMMA StepIsSound ==
    ASSUME NEW s, NEW c, Sound(s, c), NEW t \in Snapshot, NEW d \in SUBSET Nat,
           t.token_generation = s.token_generation,
           PendingMatches(t), ErrorMatches(t),
           \/ d = CancelCurrentToken(s, c) /\ t.state \notin {"Starting", "Running"}
           \/ d = c /\ (t.state \in {"Starting", "Running"} <=> s.state \in {"Starting", "Running"})
    PROVE  Sound(t, d)
  <1>1. s.token_generation \in Nat /\ c \in SUBSET Nat
    BY DEF Sound, Snapshot
  <1>2. TokensAreBounded(t, d)
    BY <1>1 DEF Sound, TokensAreBounded, CancelCurrentToken
  <1>3. TokensMatch(t, d)
    BY <1>1 DEF Sound, TokensMatch, CancelCurrentToken
  <1> QED
    BY <1>2, <1>3 DEF Sound

\* A new run is begun only when the token of the run before is cancelled.
LEMMA BeginRunIsSound ==
    ASSUME NEW s, NEW c, Sound(s, c), s.state \notin {"Starting", "Running"}
    PROVE  /\ Sound(BeginRun(s), c) /\ BeginRun(s).revision >= s.revision
           /\ BeginRun(s).state = "Starting"
           /\ BeginRun(s).token_generation = s.token_generation + 1
  <1> DEFINE u == ResetToken(s)
             t == BeginRun(s)
  <1>1. s.token_generation \in Nat /\ s.revision \in Nat /\ c \in SUBSET Nat
    BY DEF Sound, Snapshot
  <1>2. /\ u \in Snapshot /\ u.revision = s.revision
        /\ u.token_generation = s.token_generation + 1
    BY DEF Sound, Snapshot, ResetToken
  <1>3. t = Advance(u, "Starting", FALSE, FALSE)
    BY DEF BeginRun
  <1> HIDE DEF u, t
  <1>4. /\ t \in Snapshot /\ t.state = "Starting" /\ t.revision = u.revision + 1
        /\ t.pending_restart = FALSE /\ t.last_error = FALSE
        /\ t.token_generation = u.token_generation
    <2>1. FALSE \in BOOLEAN /\ "Starting" \in State
      BY DEF State
    <2> QED
      BY <1>2, <1>3, <2>1, AdvanceFields, Zenon
  <1>5. /\ t \in Snapshot
        /\ t.state = "Starting" /\ t.revision = s.revision + 1 /\ t.pending_restart = FALSE
        /\ t.last_error = FALSE /\ t.token_generation = s.token_generation + 1
    BY <1>2, <1>4
  <1>6. TokensAreBounded(t, c)
    BY <1>1, <1>5 DEF Sound, TokensAreBounded
  <1>7. TokensMatch(t, c)
    BY <1>1, <1>5 DEF Sound, TokensAreBounded, TokensMatch
  <1>8. PendingMatches(t) /\ ErrorMatches(t)
    BY <1>5 DEF PendingMatches, ErrorMatches
  <1>9. t.revision >= s.revision
    BY <1>1, <1>5
  <1> QED
    BY <1>1, <1>5, <1>6, <1>7, <1>8, <1>9 DEF Sound, t

\* Every handler keeps the snapshot sound and never takes the revision back; a
\* refused command leaves the snapshot alone.
LEMMA HandleIsSound ==
    ASSUME NEW s, NEW c, Sound(s, c), NEW cmd \in Command
    PROVE  LET out == Handle(cmd, s, c)
           IN  /\ Sound(out.snapshot, out.cancelled)
               /\ out.result \in Result
               /\ out.snapshot.revision >= s.revision
               /\ out.result = "invalid" => out.snapshot = s
  <1> DEFINE Goal(out) == /\ Sound(out.snapshot, out.cancelled)
                          /\ out.result \in Result
                          /\ out.snapshot.revision >= s.revision
                          /\ out.result = "invalid" => out.snapshot = s
             Pass(t, d) == \/ d = CancelCurrentToken(s, c) /\ t \notin {"Starting", "Running"}
                           \/ d = c /\ (t \in {"Starting", "Running"}
                                          <=> s.state \in {"Starting", "Running"})
  <1>1. /\ s \in Snapshot /\ s.revision \in Nat /\ s.state \in State /\ c \in SUBSET Nat
        /\ s.pending_restart \in BOOLEAN /\ s.last_error \in BOOLEAN
        /\ CancelCurrentToken(s, c) \in SUBSET Nat
        /\ PendingMatches(s) /\ ErrorMatches(s)
    BY DEF Sound, Snapshot, CancelCurrentToken
  <1>2. Goal(Unmoved(s, c)) /\ Goal(Refused(s, c))
    BY <1>1 DEF Unmoved, Refused, Result
  <1>3. ASSUME s.state \notin {"Starting", "Running"} PROVE Goal(Advanced(BeginRun(s), c))
    BY <1>3, BeginRunIsSound DEF Advanced, Result
  <1>4. ASSUME NEW u \in {s, NoteError(s)}, NEW to \in State,
               NEW pending \in BOOLEAN, NEW error \in BOOLEAN,
               pending = TRUE => to = "Stopping",
               error = TRUE <=> to \in {"Crashed", "Repairing"},
               NEW d \in {c, CancelCurrentToken(s, c)}, Pass(to, d)
        PROVE  Goal(Advanced(Advance(u, to, pending, error), d))
    <2> DEFINE t == Advance(u, to, pending, error)
    <2>1. /\ u \in Snapshot /\ u.revision \in Nat /\ u.revision >= s.revision
          /\ u.token_generation = s.token_generation
      BY <1>1, NoteErrorFields DEF Snapshot
    <2>2. /\ t \in Snapshot /\ t.state = to /\ t.revision = u.revision + 1
          /\ t.pending_restart = pending /\ t.last_error = error
          /\ t.token_generation = s.token_generation
      BY <2>1, AdvanceFields
    <2> HIDE DEF t
    <2>3. t.revision >= s.revision
      BY <1>1, <2>1, <2>2
    <2>4. PendingMatches(t) /\ ErrorMatches(t)
      BY <1>4, <2>2 DEF PendingMatches, ErrorMatches
    <2>5. d \in SUBSET Nat
      BY <1>1
    <2>6. Sound(t, d)
      BY <1>4, <2>2, <2>4, <2>5, StepIsSound
    <2> QED
      BY <2>3, <2>6 DEF Advanced, Result, t
  <1> SUFFICES Goal(Handle(cmd, s, c))
    OBVIOUS
  <1> HIDE DEF Goal, Pass
  <1>5. CASE cmd = "request_start"
    <2>1. Handle(cmd, s, c) = RequestStart(s, c)
      BY <1>5 DEF Handle
    <2>2. CASE s.state \in {"Stopped", "Crashed"}
      BY <1>3, <2>1, <2>2 DEF RequestStart
    <2> QED
      BY <1>2, <2>1, <2>2 DEF RequestStart
  <1>6. CASE cmd = "confirm_running"
    <2>1. Handle(cmd, s, c) = ConfirmRunning(s, c)
      BY <1>6 DEF Handle
    <2>2. CASE s.state = "Starting"
      <3>1. Pass("Running", c) /\ c \in {c, CancelCurrentToken(s, c)} /\ s \in {s, NoteError(s)}
        BY <2>2 DEF Pass
      <3>2. /\ s.pending_restart \in BOOLEAN /\ FALSE \in BOOLEAN /\ "Running" \in State
            /\ s.pending_restart = TRUE => "Running" = "Stopping"
            /\ FALSE = TRUE <=> "Running" \in {"Crashed", "Repairing"}
        BY <1>1, <2>2 DEF PendingMatches, ErrorMatches, State
      <3>3. Goal(Advanced(Advance(s, "Running", s.pending_restart, FALSE), c))
        BY <1>4, <3>1, <3>2, Zenon
      <3> QED
        BY <2>1, <2>2, <3>3 DEF ConfirmRunning
    <2> QED
      BY <1>2, <2>1, <2>2 DEF ConfirmRunning
  <1>7. CASE cmd = "request_stop"
    <2>1. Handle(cmd, s, c) = RequestStop(s, c)
      BY <1>7 DEF Handle
    <2>2. CASE s.state \in {"Running", "Starting"}
      <3>1. Pass("Stopping", CancelCurrentToken(s, c)) /\ CancelCurrentToken(s, c) \in {c, CancelCurrentToken(s, c)} /\ s \in {s, NoteError(s)}
        BY <2>2 DEF Pass
      <3>2. /\ FALSE \in BOOLEAN /\ s.last_error \in BOOLEAN /\ "Stopping" \in State
            /\ FALSE = TRUE => "Stopping" = "Stopping"
            /\ s.last_error = TRUE <=> "Stopping" \in {"Crashed", "Repairing"}
        BY <1>1, <2>2 DEF PendingMatches, ErrorMatches, State
      <3>3. Goal(Advanced(Advance(s, "Stopping", FALSE, s.last_error), CancelCurrentToken(s, c)))
        BY <1>4, <3>1, <3>2, Zenon
      <3> QED
        BY <2>1, <2>2, <3>3 DEF RequestStop
    <2> QED
      BY <1>2, <2>1, <2>2 DEF RequestStop
  <1>8. CASE cmd = "confirm_stopped"
    <2>1. Handle(cmd, s, c) = ConfirmStopped(s, c)
      BY <1>8 DEF Handle
    <2>2. CASE s.state = "Stopping" /\ s.pending_restart
      BY <1>3, <2>1, <2>2 DEF ConfirmStopped
    <2>3. CASE s.state = "Stopping" /\ ~s.pending_restart
      <3>1. Pass("Stopped", c) /\ c \in {c, CancelCurrentToken(s, c)} /\ s \in {s, NoteError(s)}
        BY <2>3 DEF Pass
      <3>2. /\ FALSE \in BOOLEAN /\ FALSE \in BOOLEAN /\ "Stopped" \in State
            /\ FALSE = TRUE => "Stopped" = "Stopping"
            /\ FALSE = TRUE <=> "Stopped" \in {"Crashed", "Repairing"}
        BY <1>1, <2>3 DEF PendingMatches, ErrorMatches, State
      <3>3. Goal(Advanced(Advance(s, "Stopped", FALSE, FALSE), c))
        BY <1>4, <3>1, <3>2, Zenon
      <3> QED
        BY <2>1, <2>3, <3>3 DEF ConfirmStopped
    <2> QED
      BY <1>2, <2>1, <2>2, <2>3 DEF ConfirmStopped
  <1>9. CASE cmd = "mark_crashed"
    <2>1. Handle(cmd, s, c) = MarkCrashed(s, c)
      BY <1>9 DEF Handle
    <2>2. CASE s.state # "Stopped"
      <3>1. Pass("Crashed", CancelCurrentToken(s, c)) /\ CancelCurrentToken(s, c) \in {c, CancelCurrentToken(s, c)} /\ NoteError(s) \in {s, NoteError(s)}
        BY <2>2 DEF Pass
      <3>2. /\ FALSE \in BOOLEAN /\ TRUE \in BOOLEAN /\ "Crashed" \in State
            /\ FALSE = TRUE => "Crashed" = "Stopping"
            /\ TRUE = TRUE <=> "Crashed" \in {"Crashed", "Repairing"}
        BY <1>1, <2>2 DEF PendingMatches, ErrorMatches, State
      <3>3. Goal(Advanced(Advance(NoteError(s), "Crashed", FALSE, TRUE), CancelCurrentToken(s, c)))
        BY <1>4, <3>1, <3>2, Zenon
      <3> QED
        BY <2>1, <2>2, <3>3 DEF MarkCrashed
    <2> QED
      BY <1>2, <2>1, <2>2 DEF MarkCrashed
  <1>10. CASE cmd = "enter_repair"
    <2>1. Handle(cmd, s, c) = EnterRepair(s, c)
      BY <1>10 DEF Handle
    <2>2. CASE s.state \notin {"Running", "Repairing"}
      <3>1. Pass("Repairing", CancelCurrentToken(s, c)) /\ CancelCurrentToken(s, c) \in {c, CancelCurrentToken(s, c)} /\ NoteError(s) \in {s, NoteError(s)}
        BY <2>2 DEF Pass
      <3>2. /\ FALSE \in BOOLEAN /\ TRUE \in BOOLEAN /\ "Repairing" \in State
            /\ FALSE = TRUE => "Repairing" = "Stopping"
            /\ TRUE = TRUE <=> "Repairing" \in {"Crashed", "Repairing"}
        BY <1>1, <2>2 DEF PendingMatches, ErrorMatches, State
      <3>3. Goal(Advanced(Advance(NoteError(s), "Repairing", FALSE, TRUE), CancelCurrentToken(s, c)))
        BY <1>4, <3>1, <3>2, Zenon
      <3> QED
        BY <2>1, <2>2, <3>3 DEF EnterRepair
    <2> QED
      BY <1>2, <2>1, <2>2 DEF EnterRepair
  <1>11. CASE cmd = "resolve_repair"
    <2>1. Handle(cmd, s, c) = ResolveRepair(s, c)
      BY <1>11 DEF Handle
    <2>2. CASE s.state = "Repairing"
      <3>1. Pass("Stopped", c) /\ c \in {c, CancelCurrentToken(s, c)} /\ s \in {s, NoteError(s)}
        BY <2>2 DEF Pass
      <3>2. /\ s.pending_restart \in BOOLEAN /\ FALSE \in BOOLEAN /\ "Stopped" \in State
            /\ s.pending_restart = TRUE => "Stopped" = "Stopping"
            /\ FALSE = TRUE <=> "Stopped" \in {"Crashed", "Repairing"}
        BY <1>1, <2>2 DEF PendingMatches, ErrorMatches, State
      <3>3. Goal(Advanced(Advance(s, "Stopped", s.pending_restart, FALSE), c))
        BY <1>4, <3>1, <3>2, Zenon
      <3> QED
        BY <2>1, <2>2, <3>3 DEF ResolveRepair
    <2> QED
      BY <1>2, <2>1, <2>2 DEF ResolveRepair
  <1>12. CASE cmd = "shutdown"
    <2>1. Handle(cmd, s, c) = Shutdown(s, c)
      BY <1>12 DEF Handle
    <2>2. CASE TRUE
      <3>1. Pass("Stopped", CancelCurrentToken(s, c)) /\ CancelCurrentToken(s, c) \in {c, CancelCurrentToken(s, c)} /\ s \in {s, NoteError(s)}
        BY <2>2 DEF Pass
      <3>2. /\ FALSE \in BOOLEAN /\ FALSE \in BOOLEAN /\ "Stopped" \in State
            /\ FALSE = TRUE => "Stopped" = "Stopping"
            /\ FALSE = TRUE <=> "Stopped" \in {"Crashed", "Repairing"}
        BY <1>1, <2>2 DEF PendingMatches, ErrorMatches, State
      <3>3. Goal(Advanced(Advance(s, "Stopped", FALSE, FALSE), CancelCurrentToken(s, c)))
        BY <1>4, <3>1, <3>2, Zenon
      <3> QED
        BY <2>1, <2>2, <3>3 DEF Shutdown
    <2> QED
      BY <1>2, <2>1, <2>2 DEF Shutdown
  <1>13. CASE cmd = "request_restart"
    <2>1. Handle(cmd, s, c) = RequestRestart(s, c)
      BY <1>13 DEF Handle
    <2>2. CASE s.state \in {"Running", "Starting"}
      <3>1. /\ Pass("Stopping", CancelCurrentToken(s, c)) /\ s \in {s, NoteError(s)}
            /\ CancelCurrentToken(s, c) \in {c, CancelCurrentToken(s, c)}
        BY DEF Pass
      <3>2. /\ TRUE \in BOOLEAN /\ s.last_error \in BOOLEAN /\ "Stopping" \in State
            /\ TRUE = TRUE => "Stopping" = "Stopping"
            /\ s.last_error = TRUE <=> "Stopping" \in {"Crashed", "Repairing"}
        BY <1>1, <2>2 DEF ErrorMatches, State
      <3>3. Goal(Advanced(Advance(s, "Stopping", TRUE, s.last_error), CancelCurrentToken(s, c)))
        BY <1>4, <3>1, <3>2, Zenon
      <3> QED
        BY <2>1, <2>2, <3>3 DEF RequestRestart
    <2>3. CASE s.state \in {"Stopped", "Crashed"}
      BY <1>3, <2>1, <2>3 DEF RequestRestart
    <2>4. CASE s.state = "Stopping"
      <3> DEFINE e == TRUE
                 t == [s EXCEPT !.pending_restart = e]
      <3>1. e \in BOOLEAN
        OBVIOUS
      <3> HIDE DEF e
      <3>2. /\ t \in Snapshot /\ t.state = s.state /\ t.revision = s.revision
            /\ t.last_error = s.last_error /\ t.token_generation = s.token_generation
        BY <1>1, <3>1 DEF Snapshot
      <3> HIDE DEF t
      <3>3. PendingMatches(t) /\ ErrorMatches(t)
        BY <1>1, <2>4, <3>2 DEF PendingMatches, ErrorMatches
      <3>4. Sound(t, c)
        BY <1>1, <3>2, <3>3, StepIsSound
      <3>5. Goal(Unmoved(t, c))
        BY <1>1, <3>2, <3>4 DEF Goal, Unmoved, Result
      <3> QED
        BY <2>1, <2>4, <3>5 DEF RequestRestart, t, e
    <2> QED
      BY <1>2, <2>1, <2>2, <2>3, <2>4 DEF RequestRestart
  <1> QED
    BY <1>5, <1>6, <1>7, <1>8, <1>9, <1>10, <1>11, <1>12, <1>13 DEF Command

-----------------------------------------------------------------------------
(***************************************************************************)
(* The inductive invariant of the actor.  Sound holds of the worker's own  *)
(* snapshot; the watch channel may lag behind it only between a handler    *)
(* and its publication, which comes before the reply.                      *)
(***************************************************************************)
PublishedBeforeReply ==
    /\ worker.pc # "publish" => published = snapshot
    /\ published.revision <= snapshot.revision

IInv == TypeOK /\ Sound(snapshot, cancelled) /\ PublishedBeforeReply /\ ReplyIsPublished

\* What the worker does to its types when it takes a letter.
LEMMA ReceiveFacts ==
    ASSUME IInv, Receive
    PROVE  /\ snapshot' \in Snapshot /\ cancelled' \in SUBSET Nat
           /\ Sound(snapshot', cancelled')
           /\ mailbox' \in Seq(Letter) /\ worker' \in Worker
           /\ snapshot.revision <= snapshot'.revision
           /\ worker'.pc \in {"publish", "reply"}
           /\ worker'.pc = "reply" => snapshot' = snapshot
  <1> DEFINE letter == Head(mailbox)
             out == Handle(letter.cmd, snapshot, cancelled)
  <1>1. mailbox \in Seq(Letter) /\ mailbox # <<>>
    BY DEF IInv, TypeOK, Receive
  <1>2. letter \in Letter /\ Tail(mailbox) \in Seq(Letter)
    BY <1>1
  <1>3. letter.cmd \in Command
    BY <1>2 DEF Letter
  <1>4. /\ Sound(out.snapshot, out.cancelled) /\ out.result \in Result
        /\ out.snapshot.revision >= snapshot.revision
        /\ out.result = "invalid" => out.snapshot = snapshot
    BY <1>3, HandleIsSound DEF IInv
  <1>5. /\ mailbox' = Tail(mailbox) /\ snapshot' = out.snapshot /\ cancelled' = out.cancelled
        /\ worker' = [pc |-> IF out.result = "invalid" THEN "reply" ELSE "publish",
                      letter |-> letter, result |-> out.result]
    BY DEF Receive
  <1> HIDE DEF out, letter
  <1>6. worker' \in Worker
    BY <1>2, <1>4, <1>5 DEF Worker
  <1>7. snapshot.revision \in Nat /\ snapshot'.revision \in Nat
    BY <1>4, <1>5 DEF Sound, Snapshot, IInv
  <1> QED
    BY <1>2, <1>4, <1>5, <1>6, <1>7 DEF Sound

LEMMA InitIInv == Init => IInv
  <1> SUFFICES ASSUME Init PROVE IInv
    OBVIOUS
  <1> DEFINE f == FALSE
  <1>1. f \in BOOLEAN
    OBVIOUS
  <1>2. NewSnapshot = [state |-> "Stopped", revision |-> 0, token_generation |-> 0,
                       pending_restart |-> f, last_error |-> f]
    BY DEF NewSnapshot
  <1> HIDE DEF f
  <1>3. NewSnapshot \in Snapshot
    BY <1>1, <1>2 DEF Snapshot, State
  <1>4. TypeOK
    BY <1>3 DEF Init, TypeOK, Worker, WorkerAt, Call, IdleCall, Answer
  <1>5. Sound(NewSnapshot, {})
    BY <1>3 DEF Sound, TokensAreBounded, TokensMatch, PendingMatches, ErrorMatches, NewSnapshot
  <1>6. PublishedBeforeReply /\ ReplyIsPublished
    BY <1>4 DEF Init, PublishedBeforeReply, ReplyIsPublished, NewSnapshot
  <1> QED
    BY <1>4, <1>5, <1>6 DEF IInv, Init

LEMMA NextIInv == IInv /\ [Next]_vars => IInv'
  <1> SUFFICES ASSUME IInv, [Next]_vars PROVE IInv'
    OBVIOUS
  <1>0. TypeOK /\ PublishedBeforeReply /\ ReplyIsPublished /\ Sound(snapshot, cancelled)
    BY DEF IInv
  <1>1. ASSUME NEW c \in Callers, NEW cmd \in Command, BeginCall(c, cmd) PROVE IInv'
    <2>1. TypeOK'
      BY <1>0, <1>1 DEF BeginCall, TypeOK, Call
    <2> QED
      BY <1>0, <1>1, <2>1 DEF BeginCall, IInv, PublishedBeforeReply, ReplyIsPublished
  <1>2. ASSUME NEW c \in Callers, Send(c) PROVE IInv'
    <2>1. caller[c].cmd \in Command /\ caller[c] \in Call
      BY <1>0, <1>2 DEF Send, TypeOK, Call
    <2>2. [from |-> c, cmd |-> caller[c].cmd] \in Letter
      BY <2>1 DEF Letter
    <2>3. mailbox' \in Seq(Letter)
      BY <1>0, <1>2, <2>2 DEF Send, TypeOK
    <2>4. caller' \in [Callers -> Call]
      BY <1>0, <1>2, <2>1 DEF Send, TypeOK, Call
    <2>5. TypeOK'
      BY <1>0, <1>2, <2>3, <2>4 DEF Send, TypeOK
    <2> QED
      BY <1>0, <1>2, <2>5 DEF Send, IInv, PublishedBeforeReply, ReplyIsPublished
  <1>3. ASSUME NEW c \in Callers, SendClosed(c) PROVE IInv'
    <2>1. caller' \in [Callers -> Call]
      BY <1>0, <1>3 DEF SendClosed, TypeOK, Call, IdleCall
    <2>2. reply' \in [Callers -> Answer]
      BY <1>0, <1>3 DEF SendClosed, TypeOK, Answer
    <2>3. TypeOK'
      BY <1>0, <1>3, <2>1, <2>2 DEF SendClosed, TypeOK
    <2>4. \A d \in Callers : reply'[d].revision = reply[d].revision
      BY <1>0, <1>3 DEF SendClosed, TypeOK, Answer
    <2> QED
      BY <1>0, <1>3, <2>3, <2>4 DEF SendClosed, IInv, PublishedBeforeReply, ReplyIsPublished
  <1>4. CASE Receive
    <2>1. TypeOK'
      BY <1>0, <1>4, ReceiveFacts DEF Receive, TypeOK
    <2>2. PublishedBeforeReply'
      <3>1. published' = published /\ worker.pc = "recv"
        BY <1>4 DEF Receive
      <3>2. published = snapshot
        BY <1>0, <3>1 DEF PublishedBeforeReply
      <3> QED
        BY <1>4, <3>1, <3>2, ReceiveFacts DEF PublishedBeforeReply
    <2>3. ReplyIsPublished'
      BY <1>0, <1>4 DEF Receive, ReplyIsPublished
    <2> QED
      BY <1>4, <2>1, <2>2, <2>3, ReceiveFacts DEF IInv
  <1>5. CASE Publish
    <2>1. worker' \in Worker /\ worker'.pc = "reply"
      BY <1>0, <1>5 DEF Publish, TypeOK, Worker
    <2>2. TypeOK'
      BY <1>0, <1>5, <2>1 DEF Publish, TypeOK
    <2>3. snapshot.revision \in Nat /\ published.revision \in Nat
          /\ \A d \in Callers : reply[d].revision \in Nat
      BY <1>0 DEF TypeOK, Snapshot, Answer
    <2>4. PublishedBeforeReply' /\ ReplyIsPublished'
      BY <1>0, <1>5, <2>3 DEF Publish, PublishedBeforeReply, ReplyIsPublished
    <2> QED
      BY <1>0, <1>5, <2>2, <2>4 DEF Publish, IInv
  <1>6. CASE Reply
    <2> DEFINE c == worker.letter.from
               a == [result |-> worker.result, revision |-> snapshot.revision]
    <2>1. worker.letter \in Letter /\ worker.result \in Result
      BY <1>0, <1>6 DEF Reply, TypeOK, Worker
    <2>2. c \in Callers /\ a \in Answer
      BY <1>0, <2>1 DEF Letter, Answer, TypeOK, Snapshot
    <2>3. worker' \in Worker /\ worker'.pc \in {"exit", "recv"}
      BY <1>6 DEF Reply, Worker, WorkerAt
    <2>4. caller' \in [Callers -> Call] /\ reply' \in [Callers -> Answer]
      BY <1>0, <1>6, <2>2 DEF Reply, TypeOK, Call, IdleCall
    <2>5. TypeOK'
      BY <1>0, <1>6, <2>3, <2>4 DEF Reply, TypeOK
    <2>6. published = snapshot /\ published' = published /\ snapshot' = snapshot
      BY <1>0, <1>6 DEF Reply, PublishedBeforeReply
    <2>7. PublishedBeforeReply'
      BY <1>0, <2>6 DEF PublishedBeforeReply
    <2>8. ReplyIsPublished'
      <3> SUFFICES ASSUME NEW d \in Callers PROVE reply'[d].revision <= published'.revision
        BY DEF ReplyIsPublished
      <3>1. snapshot.revision \in Nat
        BY <1>0 DEF TypeOK, Snapshot
      <3>2. reply' = [reply EXCEPT ![c] = a] /\ reply \in [Callers -> Answer]
        BY <1>0, <1>6 DEF Reply, TypeOK
      <3>3. CASE d = c
        BY <2>2, <2>6, <3>1, <3>2, <3>3
      <3>4. CASE d # c
        BY <1>0, <2>6, <3>2, <3>4 DEF ReplyIsPublished
      <3> QED
        BY <3>3, <3>4
    <2> QED
      BY <1>0, <1>6, <2>5, <2>7, <2>8 DEF Reply, IInv
  <1>7. CASE Exit
    <2>1. worker' \in Worker /\ mailbox' \in Seq(Letter)
      BY <1>7 DEF Exit, Worker, WorkerAt
    <2>2. caller' \in [Callers -> Call]
      BY <1>0, <1>7 DEF Exit, TypeOK, Call, IdleCall
    <2>3. /\ reply' \in [Callers -> Answer]
          /\ \A d \in Callers : reply'[d].revision = reply[d].revision
      BY <1>0, <1>7 DEF Exit, TypeOK, Answer
    <2>4. TypeOK'
      BY <1>0, <1>7, <2>1, <2>2, <2>3 DEF Exit, TypeOK
    <2> QED
      BY <1>0, <1>7, <2>3, <2>4
      DEF Exit, WorkerAt, IInv, PublishedBeforeReply, ReplyIsPublished
  <1>8. CASE UNCHANGED vars
    <2>1. TypeOK'
      BY <1>0, <1>8 DEF vars, TypeOK
    <2> QED
      BY <1>0, <1>8, <2>1 DEF vars, IInv, PublishedBeforeReply, ReplyIsPublished
  <1> QED
    BY <1>1, <1>2, <1>3, <1>4, <1>5, <1>6, <1>7, <1>8 DEF Next, CallerStep, WorkerStep

LEMMA Invariance == Spec => []IInv
  BY InitIInv, NextIInv, PTL DEF Spec

\* The state of the actor is well typed in every reachable state.
THEOREM TypeCorrect == Spec => []TypeOK
  <1>1. IInv => TypeOK
    BY DEF IInv
  <1> QED
    BY Invariance, <1>1, PTL

\* The run that is Starting or Running holds the one live cancellation token;
\* every run that was left has had its token cancelled.
THEOREM TokensCorrect == Spec => []OnlyActiveRunHasToken
  <1>1. IInv => OnlyActiveRunHasToken
    BY DEF IInv, Sound, TokensMatch, OnlyActiveRunHasToken
  <1> QED
    BY Invariance, <1>1, PTL

\* A restart is pending only behind a stop; an error shows only on a faulted bot.
THEOREM FlagsCorrect == Spec => []FlagsMatchState
  <1>1. IInv => FlagsMatchState
    <2> SUFFICES ASSUME IInv PROVE FlagsMatchState
      OBVIOUS
    <2>1. snapshot.pending_restart \in BOOLEAN /\ snapshot.last_error \in BOOLEAN
      BY DEF IInv, TypeOK, Snapshot
    <2> QED
      BY <2>1 DEF IInv, Sound, PendingMatches, ErrorMatches, FlagsMatchState
  <1> QED
    BY Invariance, <1>1, PTL

\* A call that has returned finds its own effect on the watch channel.
THEOREM ReadYourWrites == Spec => []ReplyIsPublished
  <1>1. IInv => ReplyIsPublished
    BY DEF IInv
  <1> QED
    BY Invariance, <1>1, PTL

-----------------------------------------------------------------------------
(***************************************************************************)
(* A queued restart.  While one is pending the bot is Stopping, so only    *)
(* five commands have an effect at all.                                    *)
(***************************************************************************)
LEMMA PendingIsKept ==
    ASSUME NEW s, NEW c, Sound(s, c), NEW cmd \in Command, s.pending_restart = TRUE
    PROVE  LET t == Handle(cmd, s, c).snapshot
           IN  \/ t.pending_restart = TRUE
               \/ t.state = "Starting" /\ t.token_generation = s.token_generation + 1
               \/ t.state \in {"Crashed", "Repairing"}
               \/ cmd = "shutdown"
  <1>1. s.state = "Stopping" /\ s \in Snapshot /\ NoteError(s) \in Snapshot
    BY NoteErrorFields DEF Sound, PendingMatches
  <1>2. CASE cmd = "confirm_stopped"
    <2>1. Handle(cmd, s, c).snapshot = BeginRun(s)
      BY <1>1, <1>2 DEF Handle, ConfirmStopped, Advanced
    <2> QED
      BY <1>1, <2>1, BeginRunIsSound
  <1>3. CASE cmd = "request_restart"
    <2>1. Handle(cmd, s, c).snapshot = [s EXCEPT !.pending_restart = TRUE]
      BY <1>1, <1>3 DEF Handle, RequestRestart, Unmoved
    <2> QED
      BY <1>1, <2>1 DEF Snapshot
  <1>4. CASE cmd \in {"mark_crashed", "enter_repair"}
    <2>1. /\ FALSE \in BOOLEAN /\ TRUE \in BOOLEAN
          /\ "Crashed" \in State /\ "Repairing" \in State
      BY DEF State
    <2>2. \A to \in State : Advance(NoteError(s), to, FALSE, TRUE).state = to
      BY <1>1, <2>1, AdvanceFields, Zenon
    <2>3. \/ Handle(cmd, s, c).snapshot = Advance(NoteError(s), "Crashed", FALSE, TRUE)
          \/ Handle(cmd, s, c).snapshot = Advance(NoteError(s), "Repairing", FALSE, TRUE)
      BY <1>1, <1>4 DEF Handle, MarkCrashed, EnterRepair, Advanced
    <2> QED
      BY <2>1, <2>2, <2>3
  <1>5. CASE cmd \in {"request_start", "confirm_running", "request_stop", "resolve_repair"}
    <2>1. Handle(cmd, s, c).snapshot = s
      BY <1>1, <1>5
      DEF Handle, RequestStart, ConfirmRunning, RequestStop, ResolveRepair, Unmoved, Refused
    <2> QED
      BY <2>1
  <1> QED
    BY <1>2, <1>3, <1>4, <1>5 DEF Command

\* A pending restart becomes a run, unless a fault or the shutdown intervenes.
THEOREM QueuedRestartCorrect == Spec => QueuedRestartRuns
  <1> DEFINE Kept == (snapshot.pending_restart /\ ~snapshot'.pending_restart)
                       => \/ snapshot'.state = "Starting"
                             /\ snapshot'.token_generation = snapshot.token_generation + 1
                          \/ snapshot'.state \in {"Crashed", "Repairing"}
                          \/ Head(mailbox).cmd = "shutdown"
  <1>1. IInv /\ [Next]_vars => [Kept]_vars
    <2> SUFFICES ASSUME IInv, Next PROVE Kept
      OBVIOUS
    <2>1. CASE Receive
      <3> DEFINE letter == Head(mailbox)
      <3>1. letter.cmd \in Command
        <4>1. mailbox \in Seq(Letter) /\ mailbox # <<>>
          BY <2>1 DEF Receive, IInv, TypeOK
        <4>2. letter \in Letter
          BY <4>1
        <4> QED
          BY <4>2 DEF Letter
      <3>2. snapshot' = Handle(letter.cmd, snapshot, cancelled).snapshot
        BY <2>1 DEF Receive
      <3>3. snapshot.pending_restart \in BOOLEAN
        BY DEF IInv, TypeOK, Snapshot
      <3>4. CASE snapshot.pending_restart = TRUE
        BY <3>1, <3>2, <3>4, PendingIsKept DEF IInv
      <3> QED
        BY <3>3, <3>4
    <2>2. CASE snapshot' = snapshot
      BY <2>2
    <2> QED
      BY <2>1, <2>2
      DEF Next, BeginCall, CallerStep, Send, SendClosed, WorkerStep, Publish, Reply, Exit
  <1> QED
    BY Invariance, <1>1, PTL DEF Spec, QueuedRestartRuns

-----------------------------------------------------------------------------
(***************************************************************************)
(* The mailbox.  WaitersAreQueuedOnce, with the letters of the mailbox     *)
(* addressed by position, is inductive.                                    *)
(***************************************************************************)
InHand(c) == Handling /\ worker.letter.from = c

MailInv ==
    /\ \A i, j \in DOMAIN mailbox : mailbox[i].from = mailbox[j].from => i = j
    /\ \A i \in DOMAIN mailbox :
          caller[mailbox[i].from].pc = "waiting" /\ ~InHand(mailbox[i].from)
    /\ \A c \in Callers : InHand(c) => caller[c].pc = "waiting"
    /\ \A c \in Callers : caller[c].pc = "waiting" =>
          /\ worker.pc # "gone"
          /\ InHand(c) \/ \E i \in DOMAIN mailbox : mailbox[i].from = c

LEMMA NextMailInv == TypeOK /\ MailInv /\ [Next]_vars => MailInv'
  <1> SUFFICES ASSUME TypeOK, MailInv, [Next]_vars PROVE MailInv'
    OBVIOUS
  <1>0. /\ mailbox \in Seq(Letter) /\ DOMAIN mailbox = 1 .. Len(mailbox) /\ Len(mailbox) \in Nat
        /\ \A i \in 1 .. Len(mailbox) : mailbox[i] \in Letter /\ mailbox[i].from \in Callers
        /\ caller \in [Callers -> Call] /\ worker \in Worker
    <2>1. mailbox \in Seq(Letter) /\ caller \in [Callers -> Call] /\ worker \in Worker
      BY DEF TypeOK
    <2>2. DOMAIN mailbox = 1 .. Len(mailbox) /\ Len(mailbox) \in Nat
      BY <2>1
    <2>3. ASSUME NEW i \in 1 .. Len(mailbox) PROVE mailbox[i] \in Letter
      BY <2>1
    <2>4. \A l \in Letter : l.from \in Callers
      BY DEF Letter
    <2> QED
      BY <2>1, <2>2, <2>3, <2>4
  <1>1. ASSUME NEW c \in Callers, NEW cmd \in Command, BeginCall(c, cmd) PROVE MailInv'
    BY <1>0, <1>1 DEF BeginCall, MailInv, InHand, Handling
  <1>2. ASSUME NEW c \in Callers, Send(c) PROVE MailInv'
    <2> DEFINE n == Len(mailbox)
               l == [from |-> c, cmd |-> caller[c].cmd]
    <2>1. /\ mailbox' = Append(mailbox, l) /\ worker' = worker /\ l.from = c
          /\ caller[c].pc = "sending" /\ worker.pc # "gone"
          /\ caller'[c].pc = "waiting" /\ \A d \in Callers \ {c} : caller'[d] = caller[d]
      BY <1>0, <1>2 DEF Send
    <2> HIDE DEF l
    <2>2. /\ DOMAIN mailbox' = 1 .. n + 1
          /\ \A i \in 1 .. n : mailbox'[i] = mailbox[i]
          /\ mailbox'[n + 1].from = c
      BY <1>0, <2>1
    <2>3. \A i \in 1 .. n : mailbox[i].from # c
      BY <1>0, <2>1 DEF MailInv
    <2>4. \A d : InHand(d)' <=> InHand(d)
      BY <2>1 DEF InHand, Handling
    <2>5. ~InHand(c)
      BY <2>1 DEF MailInv
    <2> QED
      BY <1>0, <2>1, <2>2, <2>3, <2>4, <2>5 DEF MailInv
  <1>3. ASSUME NEW c \in Callers, SendClosed(c) PROVE MailInv'
    BY <1>0, <1>3 DEF SendClosed, MailInv, InHand, Handling, IdleCall
  <1>4. CASE Receive
    <2> DEFINE n == Len(mailbox)
               l == Head(mailbox)
    <2>1. /\ worker.pc = "recv" /\ mailbox # <<>> /\ mailbox' = Tail(mailbox) /\ caller' = caller
          /\ worker'.pc \in {"publish", "reply"} /\ worker'.letter = l
      BY <1>4 DEF Receive
    <2>2. /\ n \in Nat \ {0} /\ l = mailbox[1] /\ DOMAIN mailbox' = 1 .. n - 1
          /\ \A i \in 1 .. n - 1 : i + 1 \in 1 .. n /\ mailbox'[i] = mailbox[i + 1]
      BY <1>0, <2>1
    <2>3. \A d : ~InHand(d)
      BY <2>1 DEF InHand, Handling
    <2>4. \A d : InHand(d)' <=> d = mailbox[1].from
      BY <2>1, <2>2 DEF InHand, Handling
    <2>5. \A i \in 2 .. n : i - 1 \in 1 .. n - 1 /\ mailbox[i] = mailbox'[i - 1]
      BY <2>2
    <2>6. \A i \in 1 .. n - 1 : mailbox'[i].from # mailbox[1].from
      BY <1>0, <2>2 DEF MailInv
    <2>7. \A d \in Callers : caller[d].pc = "waiting" =>
             d = mailbox[1].from \/ \E i \in 1 .. n - 1 : mailbox'[i].from = d
      <3> SUFFICES ASSUME NEW d \in Callers, caller[d].pc = "waiting", d # mailbox[1].from
                   PROVE  \E i \in 1 .. n - 1 : mailbox'[i].from = d
        OBVIOUS
      <3>1. PICK i \in 1 .. n : mailbox[i].from = d
        BY <1>0, <2>3 DEF MailInv
      <3> QED
        BY <2>2, <2>5, <3>1
    <2>8. \A i, j \in 1 .. n - 1 : mailbox'[i].from = mailbox'[j].from => i = j
      <3> SUFFICES ASSUME NEW i \in 1 .. n - 1, NEW j \in 1 .. n - 1,
                          mailbox'[i].from = mailbox'[j].from
                   PROVE  i + 1 = j + 1
        BY <2>2
      <3>1. mailbox[i + 1].from = mailbox[j + 1].from
        BY <2>2
      <3> QED
        BY <1>0, <2>2, <3>1 DEF MailInv
    <2>9. \A i \in 1 .. n - 1 : caller'[mailbox'[i].from].pc = "waiting"
      BY <1>0, <2>1, <2>2 DEF MailInv
    <2>10. \A d \in Callers : InHand(d)' => caller'[d].pc = "waiting"
      BY <1>0, <2>1, <2>2, <2>4 DEF MailInv
    <2>11. (\A i \in DOMAIN mailbox :
               caller[mailbox[i].from].pc = "waiting" /\ ~InHand(mailbox[i].from))'
      BY <2>2, <2>4, <2>6, <2>9
    <2>12. (\A i, j \in DOMAIN mailbox : mailbox[i].from = mailbox[j].from => i = j)'
      BY <2>2, <2>8
    <2>13. (\A d \in Callers : caller[d].pc = "waiting" =>
              /\ worker.pc # "gone"
              /\ InHand(d) \/ \E i \in DOMAIN mailbox : mailbox[i].from = d)'
      BY <2>1, <2>2, <2>4, <2>7
    <2> QED
      BY <2>10, <2>11, <2>12, <2>13 DEF MailInv
  <1>5. CASE Publish
    <2>1. /\ worker.pc = "publish" /\ worker'.pc = "reply" /\ worker'.letter = worker.letter
          /\ mailbox' = mailbox /\ caller' = caller
      BY <1>0, <1>5 DEF Publish, Worker
    <2> QED
      BY <2>1 DEF MailInv, InHand, Handling
  <1>6. CASE Reply
    <2> DEFINE c == worker.letter.from
    <2>1. worker.pc = "reply" /\ worker'.pc \in {"recv", "exit"} /\ mailbox' = mailbox
      BY <1>6 DEF Reply, WorkerAt
    <2>2. c \in Callers
      BY <1>0, <2>1 DEF Worker, Letter
    <2>3. caller'[c].pc = "idle" /\ \A d \in Callers \ {c} : caller'[d] = caller[d]
      BY <1>0, <1>6, <2>2 DEF Reply, IdleCall
    <2>4. (\A d : InHand(d) <=> d = c) /\ (\A d : ~InHand(d)')
      BY <2>1 DEF InHand, Handling
    <2> QED
      BY <1>0, <2>1, <2>2, <2>3, <2>4 DEF MailInv
  <1>7. CASE Exit
    <2>1. /\ worker'.pc = "gone" /\ mailbox' = <<>>
          /\ \A d \in Callers : caller'[d].pc # "waiting"
      BY <1>0, <1>7 DEF Exit, WorkerAt, IdleCall
    <2> QED
      BY <2>1 DEF MailInv, InHand, Handling
  <1>8. CASE UNCHANGED vars
    BY <1>8 DEF vars, MailInv, InHand, Handling
  <1> QED
    BY <1>1, <1>2, <1>3, <1>4, <1>5, <1>6, <1>7, <1>8 DEF Next, CallerStep, WorkerStep

\* No call is lost, duplicated or left waiting for a worker that is gone.
THEOREM MailboxCorrect == Spec => []WaitersAreQueuedOnce
  <1>1. Init => MailInv
    BY DEF Init, MailInv, InHand, Handling, WorkerAt, IdleCall
  <1>2. TypeOK /\ MailInv => WaitersAreQueuedOnce
    BY DEF MailInv, InHand, WaitersAreQueuedOnce, QueuedFrom
  <1> QED
    BY TypeCorrect, NextMailInv, <1>1, <1>2, PTL DEF Spec

-----------------------------------------------------------------------------
(***************************************************************************)
(* BotActor implements AtomicActor.  Every letter carries the command its  *)
(* sender is in the middle of, so the step in which the worker takes it is *)
(* the step in which the sender's call is served.                          *)
(***************************************************************************)
LettersMatch ==
    /\ \A i \in DOMAIN mailbox : mailbox[i].cmd = caller[mailbox[i].from].cmd
    /\ Handling => worker.letter.cmd = caller[worker.letter.from].cmd

RInv == IInv /\ MailInv /\ LettersMatch

\* What the types say of the parts a step works on.
LEMMA PartsAreTyped ==
    ASSUME TypeOK
    PROVE  /\ mailbox \in Seq(Letter) /\ DOMAIN mailbox = 1 .. Len(mailbox) /\ Len(mailbox) \in Nat
           /\ \A i \in 1 .. Len(mailbox) : mailbox[i] \in Letter /\ mailbox[i].from \in Callers
           /\ caller \in [Callers -> Call]
           /\ Handling => worker.letter \in Letter /\ worker.letter.from \in Callers
  <1>1. mailbox \in Seq(Letter) /\ caller \in [Callers -> Call] /\ worker \in Worker
    BY DEF TypeOK
  <1>2. DOMAIN mailbox = 1 .. Len(mailbox) /\ Len(mailbox) \in Nat
    BY <1>1
  <1>3. \A i \in 1 .. Len(mailbox) : mailbox[i] \in Letter
    BY <1>1
  <1>4. \A l \in Letter : l.from \in Callers
    BY DEF Letter
  <1>5. Handling => worker.letter \in Letter
    BY <1>1 DEF Handling, Worker
  <1> QED BY <1>1, <1>2, <1>3, <1>4, <1>5

LEMMA NextLettersMatch == TypeOK /\ MailInv /\ LettersMatch /\ [Next]_vars => LettersMatch'
  <1> SUFFICES ASSUME TypeOK, MailInv, LettersMatch, [Next]_vars PROVE LettersMatch'
    OBVIOUS
  <1>0. /\ mailbox \in Seq(Letter) /\ DOMAIN mailbox = 1 .. Len(mailbox) /\ Len(mailbox) \in Nat
        /\ \A i \in 1 .. Len(mailbox) : mailbox[i] \in Letter /\ mailbox[i].from \in Callers
        /\ caller \in [Callers -> Call]
        /\ Handling => worker.letter \in Letter /\ worker.letter.from \in Callers
    BY PartsAreTyped
  <1>w. \A i \in DOMAIN mailbox : caller[mailbox[i].from].pc = "waiting"
    BY DEF MailInv
  <1>h. Handling => caller[worker.letter.from].pc = "waiting"
    BY <1>0 DEF MailInv, InHand
  \* Whoever a letter is from keeps waiting with the same command.
  <1>1. ASSUME NEW c \in Callers, caller[c].pc # "waiting", mailbox' = mailbox, worker' = worker,
               \A d \in Callers \ {c} : caller'[d] = caller[d]
        PROVE  LettersMatch'
    <2>1. \A i \in DOMAIN mailbox : mailbox[i].from # c
      BY <1>1, <1>w
    <2>2. Handling => worker.letter.from # c
      BY <1>1, <1>h
    <2>3. Handling' <=> Handling
      BY <1>1 DEF Handling
    <2> QED BY <1>0, <1>1, <2>1, <2>2, <2>3 DEF LettersMatch
  <1>2. ASSUME NEW c \in Callers, NEW cmd \in Command, BeginCall(c, cmd) PROVE LettersMatch'
    BY <1>0, <1>1, <1>2 DEF BeginCall
  <1>3. ASSUME NEW c \in Callers, Send(c) PROVE LettersMatch'
    <2> DEFINE n == Len(mailbox)
               l == [from |-> c, cmd |-> caller[c].cmd]
    <2>1. /\ mailbox' = Append(mailbox, l) /\ worker' = worker
          /\ l.from = c /\ l.cmd = caller[c].cmd
      BY <1>3 DEF Send
    <2> HIDE DEF l
    <2>2. \A d \in Callers : caller'[d].cmd = caller[d].cmd
      BY <1>0, <1>3 DEF Send, Call
    <2>3. /\ DOMAIN mailbox' = 1 .. n + 1
          /\ \A i \in 1 .. n : mailbox'[i] = mailbox[i]
          /\ mailbox'[n + 1] = l
      BY <1>0, <2>1
    <2>4. ASSUME NEW i \in 1 .. n + 1 PROVE mailbox'[i].cmd = caller'[mailbox'[i].from].cmd
      <3>1. CASE i = n + 1
        BY <3>1, <2>1, <2>2, <2>3
      <3>2. CASE i # n + 1
        <4>1. i \in 1 .. n
          BY <3>2, <1>0
        <4> QED BY <4>1, <1>0, <2>2, <2>3 DEF LettersMatch
      <3> QED BY <3>1, <3>2
    <2>5. Handling' => worker'.letter.cmd = caller'[worker'.letter.from].cmd
      BY <1>0, <2>1, <2>2 DEF LettersMatch, Handling
    <2> QED BY <2>3, <2>4, <2>5 DEF LettersMatch
  <1>4. ASSUME NEW c \in Callers, SendClosed(c) PROVE LettersMatch'
    BY <1>0, <1>1, <1>4 DEF SendClosed
  <1>5. CASE Receive
    <2>1. /\ mailbox # <<>> /\ mailbox' = Tail(mailbox) /\ caller' = caller
          /\ worker'.letter = Head(mailbox)
      BY <1>5 DEF Receive
    <2>2. /\ 1 \in DOMAIN mailbox /\ Head(mailbox) = mailbox[1]
          /\ DOMAIN mailbox' = 1 .. Len(mailbox) - 1
          /\ \A i \in 1 .. Len(mailbox) - 1 : i + 1 \in DOMAIN mailbox /\ mailbox'[i] = mailbox[i + 1]
      BY <1>0, <2>1
    <2> QED BY <2>1, <2>2 DEF LettersMatch
  <1>6. CASE Publish
    <2>1. /\ Handling /\ worker'.letter = worker.letter /\ mailbox' = mailbox /\ caller' = caller
      BY <1>6 DEF Publish, Handling, TypeOK, Worker
    <2> QED BY <2>1 DEF LettersMatch
  <1>7. CASE Reply
    <2> DEFINE c == worker.letter.from
    <2>1. /\ Handling /\ mailbox' = mailbox /\ ~Handling'
      BY <1>7 DEF Reply, Handling, WorkerAt
    <2>2. \A d \in Callers \ {c} : caller'[d] = caller[d]
      BY <1>0, <1>7 DEF Reply
    <2>3. \A i \in DOMAIN mailbox : mailbox[i].from # c
      BY <1>0, <2>1 DEF MailInv, InHand
    <2> QED BY <1>0, <2>1, <2>2, <2>3 DEF LettersMatch
  <1>8. CASE Exit
    <2>1. mailbox' = <<>> /\ ~Handling'
      BY <1>8 DEF Exit, Handling, WorkerAt
    <2> QED BY <2>1 DEF LettersMatch
  <1>9. CASE UNCHANGED vars
    <2>1. Handling' <=> Handling
      BY <1>9 DEF Handling, vars
    <2> QED BY <1>9, <2>1 DEF vars, LettersMatch
  <1> QED
    BY <1>2, <1>3, <1>4, <1>5, <1>6, <1>7, <1>8, <1>9 DEF Next, CallerStep, WorkerStep

LEMMA RefinementInvariance == Spec => []RInv
  <1>1. Init => MailInv /\ LettersMatch
    BY DEF Init, MailInv, LettersMatch, InHand, Handling, WorkerAt, IdleCall
  <1>2. IInv => TypeOK
    BY DEF IInv
  <1>3. RInv /\ [Next]_vars => RInv'
    BY <1>2, NextIInv, NextMailInv, NextLettersMatch DEF RInv
  <1>4. Init => RInv
    BY <1>1, InitIInv DEF RInv
  <1> QED BY <1>3, <1>4, PTL DEF Spec

\* The abstract handlers are the same operators, reached through the instance.
LEMMA SameHandlers ==
    /\ Atomic!NewSnapshot = NewSnapshot
    /\ Atomic!Command = Command
    /\ Atomic!None = [at |-> "none", cmd |-> "none"]
    /\ \A cmd, s, c : Atomic!Handle(cmd, s, c) = Handle(cmd, s, c)
  <1>1. Atomic!NewSnapshot = NewSnapshot
    BY DEF Atomic!NewSnapshot, NewSnapshot
  <1>2. Atomic!Command = Command
    BY DEF Atomic!Command, Command
  <1>3. Atomic!None = [at |-> "none", cmd |-> "none"]
    BY DEF Atomic!None
  <1>4. ASSUME NEW cmd, NEW s, NEW c PROVE Atomic!Handle(cmd, s, c) = Handle(cmd, s, c)
    BY DEF Atomic!Handle, Atomic!RequestStart, Atomic!ConfirmRunning, Atomic!RequestStop,
           Atomic!ConfirmStopped, Atomic!RequestRestart, Atomic!MarkCrashed, Atomic!EnterRepair,
           Atomic!ResolveRepair, Atomic!Shutdown, Atomic!Advanced, Atomic!Unmoved, Atomic!Refused,
           Atomic!Advance, Atomic!NoteError, Atomic!ResetToken, Atomic!CancelCurrentToken,
           Atomic!BeginRun,
           Handle, RequestStart, ConfirmRunning, RequestStop, ConfirmStopped, RequestRestart,
           MarkCrashed, EnterRepair, ResolveRepair, Shutdown, Advanced, Unmoved, Refused, Advance,
           NoteError, ResetToken, CancelCurrentToken, BeginRun
  <1> QED BY <1>1, <1>2, <1>3, <1>4

\* The substitutions of the instance.
Calls == [c \in Callers |-> CallOf(c)]
Closed == worker.pc \in {"exit", "gone"} \/ (Handling /\ worker.letter.cmd = "shutdown")

NoCall == [at |-> "none", cmd |-> "none"]
Made(cmd) == [at |-> "made", cmd |-> cmd]
Served(cmd) == [at |-> "served", cmd |-> cmd]

\* A call is none, made or served, never two of them.
CallsAre ==
    \A c \in Callers :
        /\ caller[c].pc = "idle" => Calls[c] = NoCall
        /\ InHand(c) => caller[c].pc = "waiting" /\ Calls[c] = Served(caller[c].cmd)
        /\ caller[c].pc # "idle" /\ ~InHand(c) => Calls[c] = Made(caller[c].cmd)

LEMMA CallsAreCases == MailInv => CallsAre
  <1> SUFFICES ASSUME MailInv, NEW c \in Callers
               PROVE  /\ caller[c].pc = "idle" => CallOf(c) = NoCall
                      /\ InHand(c) => caller[c].pc = "waiting" /\ CallOf(c) = Served(caller[c].cmd)
                      /\ caller[c].pc # "idle" /\ ~InHand(c) => CallOf(c) = Made(caller[c].cmd)
    BY DEF CallsAre, Calls
  <1>1. InHand(c) => caller[c].pc = "waiting"
    BY DEF MailInv
  <1> QED BY <1>1 DEF CallOf, InHand, NoCall, Made, Served

\* What a step does to one call; the others stay.
OneCall(c, call) == Calls' = [Calls EXCEPT ![c] = call]

LEMMA OneCallChanges ==
    ASSUME NEW c \in Callers, CallsAre, CallsAre', caller \in [Callers -> Call],
           \A d \in Callers \ {c} : caller'[d] = caller[d] /\ (InHand(d)' <=> InHand(d)),
           NEW call, Calls'[c] = call
    PROVE  OneCall(c, call)
  <1>1. DOMAIN Calls' = Callers /\ DOMAIN Calls = Callers
    BY DEF Calls
  <1>2. ASSUME NEW d \in Callers \ {c} PROVE Calls'[d] = Calls[d]
    BY DEF CallsAre
  <1>3. Calls = [d \in Callers |-> Calls[d]] /\ Calls' = [d \in Callers |-> Calls'[d]]
    BY DEF Calls
  <1> HIDE DEF CallsAre
  <1> QED BY <1>1, <1>2, <1>3 DEF OneCall

LEMMA StepRefines ==
    ASSUME RInv, RInv', [Next]_vars
    PROVE  [Atomic!Next]_(Atomic!atomicVars)
  <1>0. /\ TypeOK /\ MailInv /\ LettersMatch /\ PublishedBeforeReply /\ CallsAre /\ CallsAre'
        /\ caller \in [Callers -> Call]
        /\ Handling => worker.letter \in Letter /\ worker.letter.from \in Callers
    <2>1. CallsAre
      BY CallsAreCases DEF RInv
    <2>2. CallsAre'
      <3>1. MailInv'
        BY DEF RInv
      <3> QED BY <3>1, CallsAreCases, PTL
    <2> QED BY <2>1, <2>2, PartsAreTyped DEF RInv, IInv
  <1>1. \A c, d \in Callers : InHand(c) /\ InHand(d) => c = d
    BY DEF InHand
  <1>2. ASSUME NEW c \in Callers, NEW cmd \in Command, BeginCall(c, cmd)
        PROVE  Atomic!Next
    <2>1. /\ caller[c].pc = "idle" /\ caller' = [caller EXCEPT ![c] = [pc |-> "sending", cmd |-> cmd]]
          /\ UNCHANGED <<snapshot, published, cancelled, worker>>
      BY <1>2 DEF BeginCall
    <2>2. (\A d : InHand(d)' <=> InHand(d)) /\ (Closed' <=> Closed)
      BY <2>1 DEF InHand, Handling, Closed
    <2>3. Calls[c] = NoCall /\ ~InHand(c)
      BY <1>0, <2>1 DEF CallsAre
    <2>4. Calls'[c] = Made(cmd)
      <3>1. caller'[c] = [pc |-> "sending", cmd |-> cmd]
        BY <1>0, <2>1
      <3>2. caller'[c].pc # "idle" /\ caller'[c].cmd = cmd
        BY <3>1
      <3> QED BY <1>0, <2>2, <2>3, <3>2 DEF CallsAre
    <2>5. OneCall(c, Made(cmd))
      BY <1>0, <2>1, <2>2, <2>4, OneCallChanges
    <2>6. Atomic!Begin(c, cmd)
      BY <2>1, <2>2, <2>3, <2>5, SameHandlers
      DEF Atomic!Begin, OneCall, Calls, Closed, NoCall, Made
    <2> QED BY <2>6, SameHandlers DEF Atomic!Next
  <1>3. ASSUME NEW c \in Callers, Send(c)
        PROVE  UNCHANGED Atomic!atomicVars
    <2>1. /\ caller[c].pc = "sending" /\ caller' = [caller EXCEPT ![c].pc = "waiting"]
          /\ UNCHANGED <<snapshot, published, cancelled, worker>>
      BY <1>3 DEF Send
    <2>2. (\A d : InHand(d)' <=> InHand(d)) /\ (Closed' <=> Closed)
      BY <2>1 DEF InHand, Handling, Closed
    <2>3. caller'[c].pc # "idle" /\ caller'[c].cmd = caller[c].cmd
      BY <1>0, <2>1 DEF Call
    <2>4. Calls'[c] = Calls[c]
      BY <1>0, <2>1, <2>2, <2>3 DEF CallsAre
    <2>5. OneCall(c, Calls[c])
      BY <1>0, <2>1, <2>2, <2>4, OneCallChanges
    <2>6. Calls' = Calls
      BY <2>5 DEF OneCall, Calls
    <2> QED BY <2>1, <2>2, <2>6 DEF Atomic!atomicVars, Calls, Closed
  <1>4. ASSUME NEW c \in Callers, SendClosed(c)
        PROVE  Atomic!Next
    <2>1. /\ caller[c].pc = "sending" /\ worker.pc = "gone" /\ caller' = [caller EXCEPT ![c] = IdleCall]
          /\ UNCHANGED <<snapshot, published, cancelled, worker>>
      BY <1>4 DEF SendClosed
    <2>2. (\A d : InHand(d)' <=> InHand(d)) /\ (Closed' <=> Closed) /\ Closed
      BY <2>1 DEF InHand, Handling, Closed
    <2>3. Calls[c] = Made(caller[c].cmd)
      BY <1>0, <2>1 DEF CallsAre
    <2>4. Calls'[c] = NoCall
      <3>1. caller'[c].pc = "idle"
        BY <1>0, <2>1 DEF IdleCall
      <3> QED BY <1>0, <3>1 DEF CallsAre
    <2>5. OneCall(c, NoCall)
      BY <1>0, <2>1, <2>2, <2>4, OneCallChanges
    <2>6. Calls' = [d \in Callers |-> IF d \in {c} THEN NoCall ELSE Calls[d]]
      BY <2>5 DEF OneCall, Calls
    <2>7. Atomic!Fail({c})
      <3>1. Calls[c].at = "made"
        BY <2>3 DEF Made
      <3> QED BY <2>1, <2>2, <2>6, <3>1, SameHandlers DEF Atomic!Fail, Calls, Closed, NoCall
    <2>8. {c} \in SUBSET Callers
      OBVIOUS
    <2> QED BY <2>7, <2>8 DEF Atomic!Next
  <1>5. CASE Receive
    <2> DEFINE letter == Head(mailbox)
               out == Handle(letter.cmd, snapshot, cancelled)
               c == letter.from
    <2>1. /\ worker.pc = "recv" /\ mailbox # <<>> /\ caller' = caller /\ published' = published
          /\ snapshot' = out.snapshot /\ cancelled' = out.cancelled
          /\ worker'.pc \in {"publish", "reply"} /\ worker'.letter = letter
      BY <1>5 DEF Receive
    <2>2. /\ letter = mailbox[1] /\ 1 \in DOMAIN mailbox
          /\ c \in Callers /\ letter.cmd = caller[c].cmd /\ caller[c].pc = "waiting"
      <3>1. letter = mailbox[1] /\ 1 \in DOMAIN mailbox
        BY <1>0, <2>1, PartsAreTyped
      <3>2. mailbox[1].from \in Callers
        BY <3>1, PartsAreTyped, <1>0
      <3> QED BY <1>0, <3>1, <3>2 DEF LettersMatch, MailInv
    <2> HIDE DEF out, letter
    <2>3. (\A d : ~InHand(d)) /\ ~Closed
      BY <2>1 DEF InHand, Handling, Closed
    <2>4. (\A d : InHand(d)' <=> d = c) /\ (Closed' <=> letter.cmd = "shutdown")
      BY <2>1 DEF InHand, Handling, Closed
    <2>5. Calls[c] = Made(letter.cmd)
      BY <1>0, <2>2, <2>3 DEF CallsAre
    <2>6. Calls'[c] = Served(letter.cmd)
      BY <1>0, <2>1, <2>2, <2>4 DEF CallsAre
    <2>7. OneCall(c, Served(letter.cmd))
      BY <1>0, <2>1, <2>2, <2>3, <2>4, <2>6, OneCallChanges
    <2>8. /\ Calls[c].at = "made" /\ Calls[c].cmd = letter.cmd
          /\ Calls' = [Calls EXCEPT ![c].at = "served"]
      <3>1. Calls[c].at = "made" /\ Calls[c].cmd = letter.cmd
        BY <2>5 DEF Made
      <3>2. [Made(letter.cmd) EXCEPT !.at = "served"] = Served(letter.cmd)
        BY DEF Made, Served
      <3>3. [Calls EXCEPT ![c].at = "served"] = [Calls EXCEPT ![c] = Served(letter.cmd)]
        BY <2>5, <3>2
      <3> QED BY <3>1, <3>3, <2>7 DEF OneCall
    <2>9. /\ Atomic!Handle(Calls[c].cmd, snapshot, cancelled) = out
      BY <2>8, SameHandlers DEF out
    <2>10. Closed' = (Calls[c].cmd = "shutdown")
      BY <2>4, <2>8 DEF Closed
    <2>11. Atomic!Serve(c)
      BY <2>1, <2>3, <2>8, <2>9, <2>10 DEF Atomic!Serve, Calls, Closed
    <2> QED BY <2>2, <2>11 DEF Atomic!Next
  <1>6. CASE Publish
    <2>1. /\ worker.pc = "publish" /\ worker'.pc = "reply" /\ worker'.letter = worker.letter
          /\ caller' = caller /\ published' = snapshot /\ UNCHANGED <<snapshot, cancelled>>
      BY <1>0, <1>6 DEF Publish, TypeOK, Worker
    <2>2. (\A d : InHand(d)' <=> InHand(d)) /\ (Closed' <=> Closed)
      BY <2>1 DEF InHand, Handling, Closed
    <2>3. Calls' = Calls
      BY <1>0, <2>1, <2>2 DEF CallsAre, Calls
    <2>4. Atomic!Show
      BY <2>1, <2>2, <2>3 DEF Atomic!Show, Calls, Closed
    <2> QED BY <2>4 DEF Atomic!Next
  <1>7. CASE Reply
    <2> DEFINE c == worker.letter.from
    <2>1. /\ worker.pc = "reply" /\ InHand(c) /\ c \in Callers
          /\ caller' = [caller EXCEPT ![c] = IdleCall]
          /\ worker'.pc = IF worker.letter.cmd = "shutdown" THEN "exit" ELSE "recv"
          /\ UNCHANGED <<snapshot, published, cancelled>>
      BY <1>0, <1>7 DEF Reply, WorkerAt, InHand, Handling
    <2>2. published = snapshot
      BY <1>0, <2>1 DEF PublishedBeforeReply
    <2>3. (\A d : InHand(d) <=> d = c) /\ (\A d : ~InHand(d)') /\ (Closed' <=> Closed)
      BY <2>1 DEF InHand, Handling, Closed
    <2>4. Calls[c].at = "served"
      <3>1. Calls[c] = Served(caller[c].cmd)
        BY <1>0, <2>1 DEF CallsAre
      <3> QED BY <3>1 DEF Served
    <2>5. Calls'[c] = NoCall
      <3>1. caller'[c].pc = "idle"
        BY <1>0, <2>1 DEF IdleCall
      <3> QED BY <1>0, <2>1, <3>1 DEF CallsAre
    <2> HIDE DEF c
    <2>6. OneCall(c, NoCall)
      BY <1>0, <2>1, <2>3, <2>5, OneCallChanges
    <2>7. Atomic!Return(c)
      BY <2>1, <2>2, <2>3, <2>4, <2>6, SameHandlers DEF Atomic!Return, OneCall, Calls, Closed, NoCall
    <2> QED BY <2>1, <2>7 DEF Atomic!Next
  <1>8. CASE Exit
    <2> DEFINE failed == {d \in Callers : caller[d].pc = "waiting"}
    <2>1. /\ worker.pc = "exit" /\ worker'.pc = "gone"
          /\ caller' = [d \in Callers |-> IF d \in failed THEN IdleCall ELSE caller[d]]
          /\ UNCHANGED <<snapshot, published, cancelled>>
      BY <1>8 DEF Exit, WorkerAt
    <2>2. (\A d : ~InHand(d) /\ ~InHand(d)') /\ Closed /\ Closed'
      BY <2>1 DEF InHand, Handling, Closed
    <2>3. ASSUME NEW d \in failed PROVE Calls[d].at = "made" /\ Calls'[d] = NoCall
      <3>1. d \in Callers /\ caller[d].pc = "waiting" /\ caller'[d].pc = "idle"
        BY <2>1 DEF IdleCall
      <3>2. Calls[d] = Made(caller[d].cmd) /\ Calls'[d] = NoCall
        BY <1>0, <2>2, <3>1 DEF CallsAre
      <3> QED BY <3>2 DEF Made
    <2>4. ASSUME NEW d \in Callers \ failed PROVE Calls'[d] = Calls[d]
      BY <1>0, <2>1, <2>2 DEF CallsAre
    <2> HIDE DEF failed
    <2>5. Calls' = [d \in Callers |-> IF d \in failed THEN NoCall ELSE Calls[d]]
      BY <2>3, <2>4 DEF Calls
    <2>6. Atomic!Fail(failed)
      BY <2>1, <2>2, <2>3, <2>5, SameHandlers DEF Atomic!Fail, Calls, Closed, NoCall
    <2>7. failed \in SUBSET Callers
      BY DEF failed
    <2> QED BY <2>6, <2>7 DEF Atomic!Next
  <1>9. CASE UNCHANGED vars
    <2>1. UNCHANGED <<snapshot, published, cancelled, caller, worker>>
      BY <1>9 DEF vars
    <2>2. (\A d : InHand(d)' <=> InHand(d)) /\ (Closed' <=> Closed)
      BY <2>1 DEF InHand, Handling, Closed
    <2>3. Calls' = Calls
      BY <1>0, <2>1, <2>2 DEF CallsAre, Calls
    <2> QED BY <2>1, <2>2, <2>3 DEF Atomic!atomicVars, Calls, Closed
  <1> QED
    BY <1>2, <1>3, <1>4, <1>5, <1>6, <1>7, <1>8, <1>9 DEF Next, CallerStep, WorkerStep

LEMMA InitRefines == Init => Atomic!Init
  <1> SUFFICES ASSUME Init PROVE Atomic!Init
    OBVIOUS
  <1>1. Calls = [c \in Callers |-> NoCall]
    <2>1. ASSUME NEW c \in Callers PROVE CallOf(c) = NoCall
      <3>1. caller[c].pc = "idle" /\ ~(Handling /\ worker.letter.from = c)
        BY DEF Init, IdleCall, Handling, WorkerAt
      <3> QED BY <3>1 DEF CallOf, NoCall
    <2> QED BY <2>1 DEF Calls
  <1>2. Closed = FALSE
    BY DEF Init, Closed, Handling, WorkerAt
  <1> QED BY <1>1, <1>2, SameHandlers DEF Init, Atomic!Init, Calls, Closed, NoCall

\* Mailbox, worker and watch channel together are an atomic actor: the worker
\* taking a letter serves the call, publishing shows it, and nobody has its
\* answer before.
THEOREM ImplementsAtomicActor == Spec => IsAtomicActor
  <1>1. RInv /\ RInv' /\ [Next]_vars => [Atomic!Next]_(Atomic!atomicVars)
    BY StepRefines
  <1> QED
    BY <1>1, InitRefines, RefinementInvariance, PTL DEF Spec, IsAtomicActor, Atomic!Spec

=============================================================================
