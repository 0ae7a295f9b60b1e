-------------------------- MODULE MCTurnExecution --------------------------
(* TLC instances of TurnExecution.                                         *)
EXTENDS TurnExecution

CONSTANTS s1, i1, i2

MCTurns == Inputs \X Kinds
MCSessionOf == [d \in MCTurns |-> s1]
MCInputSession == [i \in Inputs |-> s1]
=============================================================================
