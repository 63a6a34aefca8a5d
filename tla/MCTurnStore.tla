---------------------------- MODULE MCTurnStore ----------------------------
(* TurnStore for TLC: processes are interchangeable.                       *)
EXTENDS TurnStore, TLC

Symmetry == Permutations(Proc)
=============================================================================
