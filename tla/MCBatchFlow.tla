---------------------------- MODULE MCBatchFlow -----------------------------
(* Instances of BatchFlow.                                                 *)
EXTENDS BatchFlow
=============================================================================
