------------------------------ MODULE Backends ------------------------------
(***************************************************************************)
(* What the two backends keep beside the processes of their bots, for one  *)
(* TLC run: SnowLuma the daemon its bots share (ncd-backend-snowluma),     *)
(* NapCat the login pollers of a bot (ncd-backend-napcat).                 *)
(*                                                                         *)
(* They share no variable and no property relates them, so the initial     *)
(* state picks the backend that runs, and the other keeps its initial      *)
(* state: the states of the run are the sum of theirs, not their product.  *)
(* The bots of the daemon are interchangeable: no action, and none of the  *)
(* properties checked with this symmetry, tells them apart.                *)
(***************************************************************************)
EXTENDS SnowLumaDaemon, LoginPoller, TLC

VARIABLE focus  (* "snowluma" or "napcat": what runs                        *)

BackendsInit == focus \in {"snowluma", "napcat"} /\ Init /\ PollerInit

SnowLumaRuns == focus = "snowluma" /\ Next /\ UNCHANGED <<focus, pollerVars>>
NapCatRuns == focus = "napcat" /\ PollerNext /\ UNCHANGED <<focus, vars>>

BackendsSpec ==
    BackendsInit /\ [][SnowLumaRuns \/ NapCatRuns]_<<focus, vars, pollerVars>>

Symmetry == Permutations(Bots)
=============================================================================
