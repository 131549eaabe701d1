-------------------------- MODULE MCKarmarkarKarp ---------------------------
(* KarmarkarKarp for all batches of a few rows.                            *)
EXTENDS KarmarkarKarp
=============================================================================
