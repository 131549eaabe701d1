------------------------- MODULE MCCheckpointResume -------------------------
(* Instances of CheckpointResume: two ranks, a critic, and a retention     *)
(* bound of its own for each group.                                        *)
EXTENDS CheckpointResume, TLC

KeepTwoOfEach == "actor" :> 2 @@ "critic" :> 2
=============================================================================
