--------------------------- MODULE KarmarkarKarp ----------------------------
(***************************************************************************)
(* The largest-differencing method behind get_seqlen_balanced_partitions   *)
(* (verl/utils/seqlen_balancing.py).                                       *)
(*                                                                         *)
(* A heap holds partial partitions (State), each a list of k sets of rows  *)
(* in descending order of their tokens.  As long as there are two, the two *)
(* with the largest spread are popped, the largest set of one is joined    *)
(* with the smallest set of the other and so on, and the result is pushed  *)
(* back.  The last one is checked by the assertions of the caller.         *)
(*                                                                         *)
(* The heap is a set: __lt__ never calls two States equal, since each of   *)
(* them has rows no other has.                                             *)
(***************************************************************************)
EXTENDS Integers, Sequences, FiniteSets

CONSTANTS MaxRows,     \* bound: rows of a batch
          MaxLen,      \* bound: tokens of a row
          MaxParts     \* bound: partitions asked for

ASSUME PartitionAssumption ==
    MaxRows \in Nat /\ MaxLen \in Nat /\ MaxParts \in Nat

VARIABLES args,        \* seqlen_list, k_partitions, equal_size
          states,      \* states_pq
          status,      \* running, returned, or raised (AssertionError)
          answer       \* the partitions returned

vars == <<args, states, status, answer>>

Args == [seqlen : UNION {[1 .. n -> 0 .. MaxLen] : n \in 1 .. MaxRows},
         k : 1 .. MaxParts, equal : BOOLEAN]

n    == Len(args.seqlen)
k    == args.k
Row  == 1 .. n
Slot == 1 .. k
-----------------------------------------------------------------------------
(* Sets and States.                                                        *)

EmptySet     == [sum |-> 0, items |-> <<>>]
Singleton(r) == [sum |-> args.seqlen[r], items |-> <<r>>]
Items(s)     == {s.items[i] : i \in DOMAIN s.items}

\* Set.__lt__, read from right to left.  Two sets of the same size have
\* different rows, so that their first items decide.
Above(s, t) ==
  \/ s.sum > t.sum
  \/ s.sum = t.sum /\ Len(s.items) > Len(t.items)
  \/ s.sum = t.sum /\ Len(s.items) = Len(t.items)
     /\ s.items # <<>> /\ s.items[1] > t.items[1]

Shuffles == {p \in [Slot -> Slot] : \A i, j \in Slot : p[i] = p[j] => i = j}

Descending(x) == \A i, j \in Slot : i < j => ~Above(x[j], x[i])

\* sorted(self.sets, reverse=True); the one element of a set
Sorted(sets) ==
  {x \in {[i \in Slot |-> sets[p[i]]] : p \in Shuffles} : Descending(x)}

Spread(x) == x[1].sum - x[k].sum

\* State.__lt__: what the heap gives out first.
Before(x, y) ==
  \/ Spread(x) > Spread(y)
  \/ Spread(x) = Spread(y) /\ Above(x[1], y[1])

First(heap) == CHOOSE x \in heap : \A y \in heap \ {x} : Before(x, y)

(* Mutant: the sum of the other set is forgotten. *)
M_Union(s, t) == [sum |-> s.sum, items |-> s.items \o t.items]

Union(s, t) == [sum |-> s.sum + t.sum, items |-> s.items \o t.items]

(* Mutant: largest joins largest. *)
M_Merge(x, y) == Sorted([i \in Slot |-> Union(x[i], y[i])])

\* State.merge
Merge(x, y) == Sorted([i \in Slot |-> Union(x[i], y[k + 1 - i])])
-----------------------------------------------------------------------------
(* The heap the loop starts with.                                          *)

\* sorted_seqlen_list
Rank(r) == Cardinality({q \in Row : \/ args.seqlen[q] < args.seqlen[r]
                                    \/ args.seqlen[q] = args.seqlen[r] /\ q <= r})
RowAt(i) == CHOOSE r \in Row : Rank(r) = i

\* equal_size: k neighbours of the sorted list in one State, the longest first
Group(g) == [i \in Slot |-> Singleton(RowAt(g * k + 1 - i))]

Alone(r) == [i \in Slot |-> IF i = 1 THEN Singleton(r) ELSE EmptySet]

Pushed == IF args.equal THEN {Group(g) : g \in 1 .. n \div k}
                        ELSE {Alone(r) : r \in Row}

Refused == k > n \/ (args.equal /\ n % k # 0)

Init ==
  /\ args \in Args
  /\ states = {}
  /\ status = "running"
  /\ answer = <<>>

\* The assertions at the entry of both functions.
Refuse ==
  /\ status = "running"
  /\ states = {}
  /\ Refused
  /\ status' = "raised"
  /\ UNCHANGED <<args, states, answer>>

Push ==
  /\ status = "running"
  /\ states = {}
  /\ ~Refused
  /\ states' = Pushed
  /\ UNCHANGED <<args, status, answer>>

\* One turn of the while loop.
PopAndMerge ==
  /\ status = "running"
  /\ \E x, y \in states :
       /\ x # y
       /\ x = First(states)
       /\ y = First(states \ {x})
       /\ \E z \in Merge(x, y) : states' = (states \ {x, y}) \cup {z}
  /\ UNCHANGED <<args, status, answer>>

\* The assertions of karmarkar_karp and of _check_and_sort_partitions.
Sound(x) ==
  /\ args.equal => \A i \in Slot : Len(x[i].items) * k = n
  /\ \A i \in Slot : x[i].items # <<>>
  /\ UNION {Items(x[i]) : i \in Slot} = Row

Return ==
  /\ status = "running"
  /\ \E x \in states :
       /\ states = {x}
       /\ status' = IF Sound(x) THEN "returned" ELSE "raised"
       /\ answer' = IF Sound(x) THEN [i \in Slot |-> Items(x[i])] ELSE answer
  /\ UNCHANGED <<args, states>>

Next == Refuse \/ Push \/ PopAndMerge \/ Return

Spec == Init /\ [][Next]_vars
-----------------------------------------------------------------------------
(* What is checked.                                                        *)

TypeOK ==
  /\ args \in Args
  /\ \A x \in states : x \in [Slot -> [sum : Nat, items : Seq(Row)]]

\* The assertions after the merges never fire: a call raises only for
\* arguments its first assertions refuse (seqlen_balancing.py:87, 107-111,
\* 134-145).  A set could stay empty, or get more rows than its share, only
\* by the order of many merges.
RaisesOnlyAtEntry == status = "raised" => Refused

\* A merge never makes things worse: in every State of the heap, at any time,
\* the largest set has at most one row's tokens more than the smallest
\* (seqlen_balancing.py:55-62).
SpreadBounded ==
  \A x \in states : \E r \in Row : Spread(x) <= args.seqlen[r]

\* The method implements the promise to the callers.
Promise == INSTANCE BalancedPartition
ImplementsPromise == Promise!Spec
=============================================================================
