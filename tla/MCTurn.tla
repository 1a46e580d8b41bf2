------------------------------- MODULE MCTurn -------------------------------
(* Turn for TLC: the configurations choose what the model may write.       *)
EXTENDS Turn
=============================================================================
