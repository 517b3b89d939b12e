---------------------------- MODULE MCBotManager ----------------------------
(***************************************************************************)
(* BotManager for TLC runs that check safety only: tasks that run the same *)
(* operations, and the pids, are interchangeable.                          *)
(***************************************************************************)
EXTENDS BotManager, TLC

Symmetry == Permutations(Tasks) \cup Permutations(Pids)
=============================================================================
