------------------------- MODULE BalancedPartition --------------------------
(***************************************************************************)
(* What get_seqlen_balanced_partitions promises to its callers,            *)
(* _balance_batch on the driver and rearrange_micro_batches on a rank: one *)
(* step from the arguments to a balanced answer or, only for arguments     *)
(* that cannot be met, to an AssertionError.                               *)
(***************************************************************************)
EXTENDS BalancedParts

VARIABLES args, status, answer

Possible(a) ==
  /\ a.k <= Len(a.seqlen)
  /\ a.equal => Len(a.seqlen) % a.k = 0

Init == status = "running" /\ answer = <<>>

Return ==
  /\ status = "running"
  /\ Possible(args)
  /\ status' = "returned"
  /\ Balanced(args.seqlen, args.k, args.equal, answer')
  /\ UNCHANGED args

Refuse ==
  /\ status = "running"
  /\ ~Possible(args)
  /\ status' = "raised"
  /\ UNCHANGED <<args, answer>>

Next == Return \/ Refuse

Spec == Init /\ [][Next]_<<args, status, answer>>
=============================================================================
