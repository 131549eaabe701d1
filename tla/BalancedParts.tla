---------------------------- MODULE BalancedParts ----------------------------
(***************************************************************************)
(* When a list of partitions of the rows of a batch is a good answer of    *)
(* get_seqlen_balanced_partitions (verl/utils/seqlen_balancing.py): the    *)
(* rows are dealt out to k parts, none of them empty, all of one size if   *)
(* that was asked for, and the token counts of any two parts differ by no  *)
(* more than the longest row.                                              *)
(***************************************************************************)
EXTENDS Integers, Sequences, FiniteSets, FiniteSetsExt, Functions

RowsOf(seqlen) == DOMAIN seqlen

Tokens(seqlen, part) == SumFunctionOnSet(seqlen, part)

Longest(seqlen) == Max({seqlen[r] : r \in RowsOf(seqlen)})

\* parts[i] is the i-th partition, its indices in ascending order (a set).
Covers(seqlen, parts) ==
  /\ UNION {parts[i] : i \in DOMAIN parts} = RowsOf(seqlen)
  /\ \A i, j \in DOMAIN parts : i # j => parts[i] \cap parts[j] = {}

SameSize(parts) ==
  \A i, j \in DOMAIN parts : Cardinality(parts[i]) = Cardinality(parts[j])

Even(seqlen, parts) ==
  LET tokens  == [i \in DOMAIN parts |-> Tokens(seqlen, parts[i])]
      longest == Longest(seqlen)
  IN \A i, j \in DOMAIN parts : tokens[i] - tokens[j] <= longest

Balanced(seqlen, k, equal, parts) ==
  /\ DOMAIN parts = 1 .. k
  /\ \A i \in 1 .. k : parts[i] # {}
  /\ Covers(seqlen, parts)
  /\ equal => SameSize(parts)
  /\ Even(seqlen, parts)

\* The outcomes a caller has to reckon with: every row is given to a part.
Partitions(seqlen, k, equal) ==
  {parts \in {[i \in 1 .. k |-> {r \in RowsOf(seqlen) : to[r] = i}] :
                to \in [RowsOf(seqlen) -> 1 .. k]} :
     Balanced(seqlen, k, equal, parts)}
=============================================================================
