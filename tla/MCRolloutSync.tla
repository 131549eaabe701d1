--------------------------- MODULE MCRolloutSync ----------------------------
(* Instances of RolloutSync; the configurations give every value: two      *)
(* engines of two ranks, and two agent loops.                              *)
EXTENDS RolloutSync
=============================================================================
