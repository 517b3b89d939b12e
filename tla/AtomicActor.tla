---------------------------- MODULE AtomicActor ----------------------------
(***************************************************************************)
(* What a bot's actor promises to the tasks that hold its handle, without  *)
(* mailbox, worker or watch channel: every call is served in one step      *)
(* somewhere between the moment it is made and the moment it returns, the  *)
(* steps of all calls form one sequence of BotActorState handlers, and a   *)
(* call does not return before everybody can see what it did.  After a     *)
(* shutdown was served nothing is served any more.                         *)
(*                                                                         *)
(* BotActor implements this specification.  BotManager and BotRegistry     *)
(* rely on it: they tell the actor something in one step.                  *)
(***************************************************************************)
EXTENDS BotActorState

CONSTANTS Callers

VARIABLES state,   (* the bot's snapshot                                     *)
          tokens,  (* generations whose cancellation token was cancelled     *)
          shown,   (* the snapshot a reader finds                            *)
          calls,   (* per caller: the call it is in, and whether it is served *)
          closed   (* a shutdown was served                                  *)

atomicVars == <<state, tokens, shown, calls, closed>>

None == [at |-> "none", cmd |-> "none"]

Init ==
    /\ state = NewSnapshot
    /\ tokens = {}
    /\ shown = NewSnapshot
    /\ calls = [c \in Callers |-> None]
    /\ closed = FALSE

Begin(c, cmd) ==
    /\ calls[c] = None
    /\ calls' = [calls EXCEPT ![c] = [at |-> "made", cmd |-> cmd]]
    /\ UNCHANGED <<state, tokens, shown, closed>>

\* The one step in which the call takes effect.
Serve(c) ==
    /\ calls[c].at = "made" /\ ~closed
    /\ LET out == Handle(calls[c].cmd, state, tokens)
       IN state' = out.snapshot /\ tokens' = out.cancelled
    /\ calls' = [calls EXCEPT ![c].at = "served"]
    /\ closed' = (calls[c].cmd = "shutdown")
    /\ UNCHANGED shown

Show ==
    /\ shown' = state
    /\ UNCHANGED <<state, tokens, calls, closed>>

\* Nobody learns an answer before it is visible to everybody.
Return(c) ==
    /\ calls[c].at = "served"
    /\ shown = state
    /\ calls' = [calls EXCEPT ![c] = None]
    /\ UNCHANGED <<state, tokens, shown, closed>>

\* Calls that were never served return MailboxClosed.
Fail(S) ==
    /\ closed
    /\ \A c \in S : calls[c].at = "made"
    /\ calls' = [c \in Callers |-> IF c \in S THEN None ELSE calls[c]]
    /\ UNCHANGED <<state, tokens, shown, closed>>

Next ==
    \/ \E c \in Callers : \/ \E cmd \in Command : Begin(c, cmd)
                          \/ Serve(c)
                          \/ Return(c)
    \/ Show
    \/ \E S \in SUBSET Callers : Fail(S)

Spec == Init /\ [][Next]_atomicVars
=============================================================================
