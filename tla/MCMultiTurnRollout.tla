------------------------- MODULE MCMultiTurnRollout -------------------------
(* Instances of MultiTurnRollout.                                          *)
EXTENDS MultiTurnRollout
=============================================================================
