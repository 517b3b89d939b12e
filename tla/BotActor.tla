------------------------------ MODULE BotActor ------------------------------
(***************************************************************************)
(* The actor that owns one bot's state: run_actor and BotActorHandle of    *)
(* ncd-runtime/src/bot_actor.rs.                                           *)
(*                                                                         *)
(* Callers send commands into a bounded mailbox and await a one-shot       *)
(* reply.  A single worker takes the commands in order, runs the handler   *)
(* of BotActorState, publishes the snapshot on a watch channel when the    *)
(* handler returned Ok, and replies.  The worker runs on its own thread,   *)
(* so a reader of the watch channel can look between any two of these      *)
(* steps.  "shutdown" makes the worker leave its loop: the mailbox closes  *)
(* and whoever is still waiting gets MailboxClosed.                        *)
(***************************************************************************)
EXTENDS BotActorState, Sequences

CONSTANTS Callers,       (* tasks holding a clone of the actor's handle     *)
          Capacity,      (* length of the mailbox, 32 in the code           *)
          MaxCommands    (* bound: commands sent in one behaviour           *)

ASSUME CapacityAssumption == Capacity \in Nat \ {0}
ASSUME BudgetAssumption == MaxCommands \in Nat

VARIABLES snapshot,   (* the worker's own snapshot                          *)
          published,  (* the value of the watch channel                     *)
          cancelled,  (* generations whose cancellation token was cancelled *)
          mailbox,    (* commands sent and not yet received                 *)
          worker,     (* what the worker is doing, for whom, with what result *)
          caller,     (* per caller: idle, blocked in send, awaiting reply  *)
          reply,      (* per caller: what its last call returned            *)
          issued      (* how many calls were made so far                    *)

vars == <<snapshot, published, cancelled, mailbox, worker, caller, reply, issued>>

Letter == [from : Callers, cmd : Command]
NoLetter == [from |-> "nobody", cmd |-> "none"]

\* What a caller is in the middle of.
Call == [pc : {"idle"}, cmd : {"none"}]
            \cup [pc : {"sending", "waiting"}, cmd : Command]
IdleCall == [pc |-> "idle", cmd |-> "none"]

Answer == [result : Result \cup {"none", "closed"}, revision : Nat]

\* The worker handles a letter in up to three steps, then receives the next.
Worker == [pc : {"recv", "exit", "gone"}, letter : {NoLetter}, result : {"unchanged"}]
            \cup [pc : {"publish", "reply"}, letter : Letter, result : Result]
WorkerAt(pc) == [pc |-> pc, letter |-> NoLetter, result |-> "unchanged"]
Handling == worker.pc \in {"publish", "reply"}

Init ==
    /\ snapshot = NewSnapshot
    /\ published = NewSnapshot
    /\ cancelled = {}
    /\ mailbox = <<>>
    /\ worker = WorkerAt("recv")
    /\ caller = [c \in Callers |-> IdleCall]
    /\ reply = [c \in Callers |-> [result |-> "none", revision |-> 0]]
    /\ issued = 0

-----------------------------------------------------------------------------
\* A caller starts one of the handle's methods.
BeginCall(c, cmd) ==
    /\ caller[c].pc = "idle"
    /\ issued < MaxCommands
    /\ issued' = issued + 1
    /\ caller' = [caller EXCEPT ![c] = [pc |-> "sending", cmd |-> cmd]]
    /\ UNCHANGED <<snapshot, published, cancelled, mailbox, worker, reply>>

\* send(..).await gets a slot of the mailbox.
Send(c) ==
    /\ caller[c].pc = "sending"
    /\ worker.pc # "gone"
    /\ Len(mailbox) < Capacity
    /\ mailbox' = Append(mailbox, [from |-> c, cmd |-> caller[c].cmd])
    /\ caller' = [caller EXCEPT ![c].pc = "waiting"]
    /\ UNCHANGED <<snapshot, published, cancelled, worker, reply, issued>>

\* send fails: the receiver is gone.
SendClosed(c) ==
    /\ caller[c].pc = "sending"
    /\ worker.pc = "gone"
    /\ caller' = [caller EXCEPT ![c] = IdleCall]
    /\ reply' = [reply EXCEPT ![c].result = "closed"]
    /\ UNCHANGED <<snapshot, published, cancelled, mailbox, worker, issued>>

-----------------------------------------------------------------------------
MutantReceiveRepliesFirst ==
    /\ worker.pc = "recv"
    /\ mailbox # <<>>
    /\ mailbox' = Tail(mailbox)
    /\ LET letter == Head(mailbox)
           out == Handle(letter.cmd, snapshot, cancelled)
       IN /\ snapshot' = out.snapshot
          /\ cancelled' = out.cancelled
          /\ worker' = [pc |-> "reply", letter |-> letter, result |-> out.result]
    /\ UNCHANGED <<published, caller, reply, issued>>

\* recv and the handler: the snapshot and the token change at once.
Receive ==
    /\ worker.pc = "recv"
    /\ mailbox # <<>>
    /\ mailbox' = Tail(mailbox)
    /\ LET letter == Head(mailbox)
           out == Handle(letter.cmd, snapshot, cancelled)
       IN /\ snapshot' = out.snapshot
          /\ cancelled' = out.cancelled
          /\ worker' = [pc |-> IF out.result = "invalid" THEN "reply" ELSE "publish",
                        letter |-> letter, result |-> out.result]
    /\ UNCHANGED <<published, caller, reply, issued>>

\* snapshot_tx.send
Publish ==
    /\ worker.pc = "publish"
    /\ published' = snapshot
    /\ worker' = [worker EXCEPT !.pc = "reply"]
    /\ UNCHANGED <<snapshot, cancelled, mailbox, caller, reply, issued>>

\* reply.send; after a shutdown the loop is left.
Reply ==
    /\ worker.pc = "reply"
    /\ LET c == worker.letter.from
       IN /\ caller' = [caller EXCEPT ![c] = IdleCall]
          /\ reply' = [reply EXCEPT ![c] = [result |-> worker.result,
                                            revision |-> snapshot.revision]]
    /\ worker' = WorkerAt(IF worker.letter.cmd = "shutdown" THEN "exit" ELSE "recv")
    /\ UNCHANGED <<snapshot, published, cancelled, mailbox, issued>>

MutantExit ==
    /\ worker.pc = "exit"
    /\ worker' = WorkerAt("gone")
    /\ UNCHANGED <<snapshot, published, cancelled, mailbox, caller, reply, issued>>

\* run_actor returns: the receiver and every queued reply sender are dropped.
Exit ==
    /\ worker.pc = "exit"
    /\ worker' = WorkerAt("gone")
    /\ mailbox' = <<>>
    /\ caller' = [c \in Callers |->
                    IF caller[c].pc = "waiting" THEN IdleCall ELSE caller[c]]
    /\ reply' = [c \in Callers |->
                    IF caller[c].pc = "waiting" THEN [reply[c] EXCEPT !.result = "closed"]
                                                ELSE reply[c]]
    /\ UNCHANGED <<snapshot, published, cancelled, issued>>

-----------------------------------------------------------------------------
WorkerStep == Receive \/ Publish \/ Reply \/ Exit

CallerStep(c) == Send(c) \/ SendClosed(c)

Next ==
    \/ \E c \in Callers, cmd \in Command : BeginCall(c, cmd)
    \/ \E c \in Callers : CallerStep(c)
    \/ WorkerStep

\* The worker and a blocked send are tasks the runtime polls once they are
\* ready; nobody is obliged to make a call.
Fairness == WF_vars(WorkerStep) /\ \A c \in Callers : WF_vars(CallerStep(c))

Spec == Init /\ [][Next]_vars /\ Fairness

-----------------------------------------------------------------------------
(* Properties.                                                             *)

\* Type invariant of the actor's state.
TypeOK ==
    /\ snapshot \in Snapshot
    /\ published \in Snapshot
    /\ cancelled \in SUBSET Nat
    /\ mailbox \in Seq(Letter)
    /\ worker \in Worker
    /\ caller \in [Callers -> Call]
    /\ reply \in [Callers -> Answer]
    /\ issued \in Nat

\* Of all the runs ever begun, only the current one can hold a live
\* cancellation token, and it does exactly while the bot is Starting or
\* Running: whatever order the commands arrive in, the start pipeline of an
\* abandoned run always finds its token cancelled.
OnlyActiveRunHasToken ==
    \A g \in 1 .. snapshot.token_generation :
        g \notin cancelled <=> /\ g = snapshot.token_generation
                              /\ snapshot.state \in {"Starting", "Running"}

\* The two flags of the snapshot agree with its state: a restart can only be
\* queued behind a stop, and an error is shown exactly for a faulted bot
\* (a stale error or a forgotten restart would survive into the next run).
FlagsMatchState ==
    /\ snapshot.pending_restart => snapshot.state = "Stopping"
    /\ snapshot.last_error <=> snapshot.state \in {"Crashed", "Repairing"}

\* Read your writes: when a call has returned, the watch channel already
\* shows a snapshot at least as new as the one the call returned, so a
\* manager that reads snapshot() after an awaited command never sees the
\* state from before its own command.
ReplyIsPublished ==
    \A c \in Callers : reply[c].revision <= published.revision

\* No call is lost or answered twice: a caller waits exactly when its letter
\* is in the mailbox or in the worker's hands, and once the worker is gone
\* nobody waits.
QueuedFrom(c) == {i \in DOMAIN mailbox : mailbox[i].from = c}

WaitersAreQueuedOnce ==
    \A c \in Callers :
        IF caller[c].pc = "waiting"
        THEN /\ worker.pc # "gone"
             /\ \/ /\ Handling /\ worker.letter.from = c
                   /\ QueuedFrom(c) = {}
                \/ /\ ~(Handling /\ worker.letter.from = c)
                   /\ \E i \in DOMAIN mailbox : QueuedFrom(c) = {i}
        ELSE QueuedFrom(c) = {} /\ ~(Handling /\ worker.letter.from = c)

\* A restart queued behind a stop is not dropped by anything but a fault or
\* the actor's shutdown: when the stop is confirmed it becomes a new run.
QueuedRestartRuns ==
    [][(snapshot.pending_restart /\ ~snapshot'.pending_restart)
         => \/ snapshot'.state = "Starting"
               /\ snapshot'.token_generation = snapshot.token_generation + 1
            \/ snapshot'.state \in {"Crashed", "Repairing"}
            \/ Head(mailbox).cmd = "shutdown"]_vars

\* The actor is atomic for those who call it: mailbox, worker and watch channel
\* together implement AtomicActor, in which a call is one handler run somewhere
\* between its begin and its return and is visible before it returns.  A call
\* in the mailbox was made, a call in the worker's hands is served.
CallOf(c) ==
    CASE caller[c].pc = "idle"                    -> [at |-> "none", cmd |-> "none"]
      [] Handling /\ worker.letter.from = c       -> [at |-> "served", cmd |-> caller[c].cmd]
      [] OTHER                                    -> [at |-> "made", cmd |-> caller[c].cmd]

Atomic == INSTANCE AtomicActor
            WITH state <- snapshot, tokens <- cancelled, shown <- published,
                 calls <- [c \in Callers |-> CallOf(c)],
                 closed <- \/ worker.pc \in {"exit", "gone"}
                           \/ Handling /\ worker.letter.cmd = "shutdown"

IsAtomicActor == Atomic!Spec

\* Every call returns, even when the actor shuts down under it.
EveryCallReturns ==
    \A c \in Callers : caller[c].pc # "idle" ~> caller[c].pc = "idle"

=============================================================================
