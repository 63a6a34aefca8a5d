---- MODULE MCTurnLane ----
EXTENDS TurnLane
====
