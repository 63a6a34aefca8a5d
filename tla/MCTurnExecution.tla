-------------------------- MODULE MCTurnExecution --------------------------
(* TurnExecution for TLC: processes are interchangeable.                   *)
EXTENDS TurnExecution, TLC

Symmetry == Permutations(Proc)
=============================================================================
