------------------------ MODULE KarmarkarKarpProofs -------------------------
(***************************************************************************)
(* KarmarkarKarp for every batch, every number of parts and both modes:    *)
(* the parts of a State never differ by more than the tokens of one row,   *)
(* the assertions after the merges cannot fire, and the call keeps the     *)
(* promise of BalancedPartition.                                           *)
(***************************************************************************)
EXTENDS KarmarkarKarp, DataLemmas

SetType == [sum : Nat, items : Seq(Row)]

(* A State of the heap by itself: sorted, an empty set has no tokens, and  *)
(* the spread is at most a row.                                            *)
Fair(x) == \E r \in Row : Spread(x) <= args.seqlen[r]

Single(x) ==
  /\ x \in [Slot -> SetType]
  /\ Descending(x)
  /\ \A i \in Slot : x[i].items = <<>> => x[i].sum = 0
  /\ Fair(x)

(* With equal_size all sets of a State have the same size; without, either *)
(* no set is empty, or none has more than one row.                         *)
SameLength(x) == \A i, j \in Slot : Len(x[i].items) = Len(x[j].items)

Full(x) == \A i \in Slot : x[i].items # <<>>

Sparse(x) == \A i \in Slot : Len(x[i].items) <= 1

Shape(x) == IF args.equal THEN SameLength(x) ELSE Full(x) \/ Sparse(x)

(* The States together: no row is lost, and no row is there twice.         *)
Kept == \A r \in Row : \E x \in states : \E i \in Slot : r \in Items(x[i])

Once ==
  \A x, y \in states : \A i, j \in Slot :
    \A a \in DOMAIN x[i].items, b \in DOMAIN y[j].items :
      x[i].items[a] = y[j].items[b] => x = y /\ i = j /\ a = b

ArgsOK == /\ args.seqlen \in Seq(Nat) /\ Len(args.seqlen) \in Nat \ {0}
          /\ args.k \in Nat \ {0} /\ args.equal \in BOOLEAN

IInv ==
  /\ ArgsOK
  /\ \A x \in states : Single(x) /\ Shape(x)
  /\ states # {} => Kept /\ Once /\ ~Refused
  /\ status = "raised" => Refused

-----------------------------------------------------------------------------
LEMMA UnionFields ==
  ASSUME NEW s, NEW t
  PROVE  /\ Union(s, t).sum = s.sum + t.sum
         /\ Union(s, t).items = s.items \o t.items
BY DEF Union

(* A permutation of the slots meets every slot. *)
LEMMA ShufflesMeetAll ==
  ASSUME ArgsOK, NEW p \in Shuffles, NEW j \in Slot
  PROVE  \E i \in Slot : p[i] = j
<1>1. p \in Injection(Slot, Slot)
  BY DEF Shuffles, Injection, IsInjective
<1>2. IsFiniteSet(Slot)
  BY FS_Interval DEF ArgsOK, Slot, k
<1>3. p \in Surjection(Slot, Slot)
  BY <1>1, <1>2, FS_Injection
<1> QED
  BY <1>3 DEF Surjection

(* In a descending State the sums descend, and so do the sizes of sets     *)
(* with equal sums.                                                        *)
LEMMA SumsDescend ==
  ASSUME ArgsOK, NEW x \in [Slot -> SetType], Descending(x),
         NEW i \in Slot, NEW j \in Slot, i <= j
  PROVE  /\ x[j].sum <= x[i].sum
         /\ x[j].sum = x[i].sum => Len(x[j].items) <= Len(x[i].items)
<1>1. /\ x[i].sum \in Nat /\ x[j].sum \in Nat
      /\ Len(x[i].items) \in Nat /\ Len(x[j].items) \in Nat
  BY DEF SetType
<1>2. CASE i = j
  BY <1>1, <1>2
<1>3. CASE i < j
  <2>1. ~Above(x[j], x[i])
    BY <1>3 DEF Descending
  <2> QED
    BY <1>1, <2>1 DEF Above
<1> QED
  BY <1>2, <1>3 DEF ArgsOK, Slot, k

(* What sorting keeps: the type, the set of sets, and distinctness.        *)
LEMMA SortedSets ==
  ASSUME ArgsOK, NEW u \in [Slot -> SetType], NEW z \in Sorted(u)
  PROVE  /\ z \in [Slot -> SetType]
         /\ Descending(z)
         /\ \E p \in Shuffles : \A i \in Slot : p[i] \in Slot /\ z[i] = u[p[i]]
BY DEF Sorted, Shuffles

(* A set that is not empty never comes after an empty one. *)
LEMMA EmptyLast ==
  ASSUME ArgsOK, NEW x, Single(x),
         NEW i \in Slot, NEW j \in Slot, i <= j, x[i].items = <<>>
  PROVE  x[j].items = <<>>
<1>1. x \in [Slot -> SetType] /\ Descending(x) /\ x[i].sum = 0
  BY DEF Single
<1>2. x[j].sum <= x[i].sum /\ (x[j].sum = x[i].sum => Len(x[j].items) <= Len(x[i].items))
  BY <1>1, SumsDescend
<1>3. x[j].sum \in Nat /\ x[j].items \in Seq(Row) /\ Len(x[i].items) = 0
  BY <1>1 DEF SetType
<1>4. Len(x[j].items) <= 0
  BY <1>1, <1>2, <1>3
<1> QED
  BY <1>3, <1>4, EmptySeq, LenProperties

-----------------------------------------------------------------------------
(* The sets of two States joined crosswise, before they are sorted again.  *)
Crossed(x, y) == [i \in Slot |-> Union(x[i], y[k + 1 - i])]

LEMMA CrossedType ==
  ASSUME ArgsOK, NEW x \in [Slot -> SetType], NEW y \in [Slot -> SetType]
  PROVE  /\ Crossed(x, y) \in [Slot -> SetType]
         /\ \A i \in Slot : /\ k + 1 - i \in Slot
                            /\ Crossed(x, y)[i] = Union(x[i], y[k + 1 - i])
<1>1. \A i \in Slot : k + 1 - i \in Slot
  BY DEF ArgsOK, Slot, k
<1>2. \A s, t \in SetType : Union(s, t) \in SetType
  BY DEF SetType, Union
<1> QED
  BY <1>1, <1>2 DEF Crossed

(* Joining largest with smallest cannot raise the spread over the larger   *)
(* of the two.                                                             *)
LEMMA CrossedSpread ==
  ASSUME ArgsOK, NEW x, Single(x), NEW y, Single(y),
         NEW i \in Slot, NEW j \in Slot
  PROVE  \/ Crossed(x, y)[i].sum - Crossed(x, y)[j].sum <= Spread(x)
         \/ Crossed(x, y)[i].sum - Crossed(x, y)[j].sum <= Spread(y)
<1> DEFINE ii == k + 1 - i
           jj == k + 1 - j
<1>1. x \in [Slot -> SetType] /\ y \in [Slot -> SetType]
      /\ Descending(x) /\ Descending(y)
  BY DEF Single
<1>2. 1 \in Slot /\ k \in Slot /\ ii \in Slot /\ jj \in Slot
      /\ \A a \in Slot : 1 <= a /\ a <= k
  BY DEF ArgsOK, Slot, k
<1>3. /\ Crossed(x, y)[i].sum = x[i].sum + y[ii].sum
      /\ Crossed(x, y)[j].sum = x[j].sum + y[jj].sum
  <2>1. Crossed(x, y)[i] = Union(x[i], y[ii])
    BY <1>1, CrossedType
  <2>2. Crossed(x, y)[j] = Union(x[j], y[jj])
    BY <1>1, CrossedType
  <2>3. Crossed(x, y)[i].sum = x[i].sum + y[ii].sum
    BY <2>1, UnionFields, Zenon
  <2>4. Crossed(x, y)[j].sum = x[j].sum + y[jj].sum
    BY <2>2, UnionFields, Zenon
  <2> QED
    BY <2>3, <2>4
<1>4. \A a \in Slot : /\ x[a].sum \in Nat /\ y[a].sum \in Nat
                     /\ x[a].sum <= x[1].sum /\ x[k].sum <= x[a].sum
                     /\ y[a].sum <= y[1].sum /\ y[k].sum <= y[a].sum
  BY <1>1, <1>2, SumsDescend DEF SetType
<1>5. CASE i <= j
  <2>1. jj <= ii
    BY <1>5 DEF ArgsOK, Slot, k
  <2>2. y[ii].sum <= y[jj].sum
    BY <1>1, <1>2, <2>1, SumsDescend
  <2>3. x[i].sum - x[j].sum <= Spread(x)
    BY <1>2, <1>4 DEF Spread
  <2> HIDE DEF ii, jj
  <2> QED
    BY <1>2, <1>3, <1>4, <2>2, <2>3 DEF Spread
<1>6. CASE j <= i
  <2>2. x[i].sum <= x[j].sum
    BY <1>1, <1>2, <1>6, SumsDescend
  <2>3. y[ii].sum - y[jj].sum <= Spread(y)
    BY <1>2, <1>4 DEF Spread
  <2> HIDE DEF ii, jj
  <2> QED
    BY <1>2, <1>3, <1>4, <2>2, <2>3 DEF Spread
<1> QED
  BY <1>5, <1>6 DEF ArgsOK, Slot, k

(* What a merge makes of two States is again such a State.                 *)
LEMMA MergedSingle ==
  ASSUME ArgsOK, NEW x, Single(x), NEW y, Single(y), NEW z \in Merge(x, y)
  PROVE  Single(z)
<1> DEFINE u == Crossed(x, y)
<1>1. x \in [Slot -> SetType] /\ y \in [Slot -> SetType]
  BY DEF Single
<1>2. u \in [Slot -> SetType]
  BY <1>1, CrossedType
<1>3. z \in Sorted(u)
  BY DEF Merge, Crossed
<1>4. z \in [Slot -> SetType] /\ Descending(z)
  BY <1>2, <1>3, SortedSets
<1>5. PICK p \in Shuffles : \A i \in Slot : p[i] \in Slot /\ z[i] = u[p[i]]
  BY <1>2, <1>3, SortedSets
<1>6. ASSUME NEW i \in Slot, z[i].items = <<>>
      PROVE  z[i].sum = 0
  <2> DEFINE a == p[i]
             b == k + 1 - a
  <2>1. a \in Slot /\ b \in Slot /\ z[i] = Union(x[a], y[b])
    BY <1>1, <1>5, CrossedType
  <2>2. /\ x[a].items \in Seq(Row) /\ y[b].items \in Seq(Row)
        /\ x[a].items \o y[b].items = <<>>
    BY <1>1, <1>6, <2>1 DEF Union, SetType
  <2>3. x[a].items = <<>> /\ y[b].items = <<>>
    BY <2>2, ConcatProperties, EmptySeq, LenProperties
  <2>4. x[a].sum = 0 /\ y[b].sum = 0
    BY <2>1, <2>3 DEF Single
  <2> QED
    BY <2>1, <2>4 DEF Union
<1>7. Fair(z)
  <2>1. 1 \in Slot /\ k \in Slot
    BY DEF ArgsOK, Slot, k
  <2>2. \/ Spread(z) <= Spread(x)
        \/ Spread(z) <= Spread(y)
    BY <1>5, <2>1, CrossedSpread DEF Spread
  <2>3. Spread(x) \in Int /\ Spread(y) \in Int /\ Spread(z) \in Int
    BY <1>1, <1>4, <2>1 DEF Spread, SetType
  <2>4. \A r \in Row : args.seqlen[r] \in Nat
    BY DEF ArgsOK, Row, n
  <2> QED
    BY <2>2, <2>3, <2>4 DEF Single, Fair
<1> QED
  BY <1>4, <1>6, <1>7 DEF Single

(* A merge leaves sets of one size, or none empty, or none with two rows.  *)
LEMMA CrossedLengths ==
  ASSUME ArgsOK, NEW x \in [Slot -> SetType], NEW y \in [Slot -> SetType],
         NEW i \in Slot
  PROVE  /\ Len(x[i].items) \in Nat /\ Len(y[i].items) \in Nat
         /\ Len(Crossed(x, y)[i].items) = Len(x[i].items) + Len(y[k + 1 - i].items)
         /\ x[i].items = <<>> <=> Len(x[i].items) = 0
         /\ Crossed(x, y)[i].items = <<>> <=> Len(Crossed(x, y)[i].items) = 0
<1>1. k + 1 - i \in Slot /\ Crossed(x, y)[i] = Union(x[i], y[k + 1 - i])
  BY CrossedType
<1>2. Crossed(x, y)[i].items = x[i].items \o y[k + 1 - i].items
  BY <1>1, UnionFields, Zenon
<1>3. /\ x[i].items \in Seq(Row) /\ y[i].items \in Seq(Row)
      /\ y[k + 1 - i].items \in Seq(Row)
  BY <1>1 DEF SetType
<1>4. Crossed(x, y)[i].items \in Seq(Row)
  BY CrossedType DEF SetType
<1>5. Len(Crossed(x, y)[i].items) = Len(x[i].items) + Len(y[k + 1 - i].items)
  BY <1>2, <1>3, ConcatProperties
<1> QED
  BY <1>3, <1>4, <1>5, EmptySeq, LenProperties

(* The lengths of a State's sets, as numbers.                              *)
Lengths(x) == [i \in Slot |-> Len(x[i].items)]

LEMMA MergedLengths ==
  ASSUME ArgsOK, NEW x \in [Slot -> SetType], NEW y \in [Slot -> SetType],
         NEW z \in Merge(x, y)
  PROVE  /\ Lengths(x) \in [Slot -> Nat] /\ Lengths(y) \in [Slot -> Nat]
         /\ \E p \in Shuffles : \A i \in Slot :
              /\ p[i] \in Slot /\ k + 1 - p[i] \in Slot
              /\ Lengths(z)[i] = Lengths(x)[p[i]] + Lengths(y)[k + 1 - p[i]]
<1>1. Crossed(x, y) \in [Slot -> SetType] /\ z \in Sorted(Crossed(x, y))
  BY CrossedType DEF Merge, Crossed
<1>2. PICK p \in Shuffles :
        \A i \in Slot : p[i] \in Slot /\ z[i] = Crossed(x, y)[p[i]]
  BY <1>1, SortedSets
<1>3. ASSUME NEW i \in Slot
      PROVE  /\ p[i] \in Slot /\ k + 1 - p[i] \in Slot
             /\ Lengths(z)[i] = Lengths(x)[p[i]] + Lengths(y)[k + 1 - p[i]]
  <2>1. p[i] \in Slot /\ k + 1 - p[i] \in Slot
    BY <1>2, CrossedType
  <2>2. Len(z[i].items) = Len(x[p[i]].items) + Len(y[k + 1 - p[i]].items)
    <3>1. z[i] = Crossed(x, y)[p[i]]
      BY <1>2
    <3>2. Len(Crossed(x, y)[p[i]].items)
            = Len(x[p[i]].items) + Len(y[k + 1 - p[i]].items)
      BY <2>1, CrossedLengths
    <3> QED
      BY <3>1, <3>2, Zenon
  <2> QED
    BY <2>1, <2>2 DEF Lengths
<1>4. \A i \in Slot : Len(x[i].items) \in Nat /\ Len(y[i].items) \in Nat
  BY CrossedLengths
<1> QED
  BY <1>3, <1>4 DEF Lengths

LEMMA ShapeOfLengths ==
  ASSUME ArgsOK, NEW x \in [Slot -> SetType]
  PROVE  /\ SameLength(x) <=> \A i, j \in Slot : Lengths(x)[i] = Lengths(x)[j]
         /\ Full(x) <=> \A i \in Slot : Lengths(x)[i] # 0
         /\ Sparse(x) <=> \A i \in Slot : Lengths(x)[i] <= 1
<1>1. \A i \in Slot : x[i].items = <<>> <=> Len(x[i].items) = 0
  BY CrossedLengths
<1> QED
  BY <1>1 DEF SameLength, Full, Sparse, Lengths

LEMMA MergedShape ==
  ASSUME ArgsOK, NEW x, Single(x), Shape(x), NEW y, Single(y), Shape(y),
         NEW z, Single(z), z \in Merge(x, y)
  PROVE  Shape(z)
<1> DEFINE lx == Lengths(x)
           ly == Lengths(y)
           lz == Lengths(z)
<1>1. /\ x \in [Slot -> SetType] /\ y \in [Slot -> SetType]
      /\ z \in [Slot -> SetType]
  BY DEF Single
<1>2. lx \in [Slot -> Nat] /\ ly \in [Slot -> Nat]
  BY <1>1, MergedLengths
<1>3. PICK p \in Shuffles : \A i \in Slot :
        /\ p[i] \in Slot /\ k + 1 - p[i] \in Slot
        /\ lz[i] = lx[p[i]] + ly[k + 1 - p[i]]
  BY <1>1, MergedLengths
<1>4. ASSUME NEW i \in Slot, NEW j \in Slot, i <= j
      PROVE  (lx[i] = 0 => lx[j] = 0) /\ (ly[i] = 0 => ly[j] = 0)
  <2>1. /\ x[i].items = <<>> => x[j].items = <<>>
        /\ y[i].items = <<>> => y[j].items = <<>>
    BY <1>4, EmptyLast
  <2>2. /\ x[i].items = <<>> <=> lx[i] = 0
        /\ x[j].items = <<>> <=> lx[j] = 0
    BY <1>1, CrossedLengths DEF Lengths
  <2>3. /\ y[i].items = <<>> <=> ly[i] = 0
        /\ y[j].items = <<>> <=> ly[j] = 0
    BY <1>1, CrossedLengths DEF Lengths
  <2> HIDE DEF lx, ly
  <2> QED
    BY <2>1, <2>2, <2>3
<1> HIDE DEF lx, ly, lz
<1>5. CASE args.equal
  <2>1. \A i, j \in Slot : lx[i] = lx[j] /\ ly[i] = ly[j]
    BY <1>1, <1>5, ShapeOfLengths DEF Shape, lx, ly
  <2>2. \A i, j \in Slot : lz[i] = lz[j]
    <3> TAKE i, j \in Slot
    <3>1. /\ lz[i] = lx[p[i]] + ly[k + 1 - p[i]]
          /\ lz[j] = lx[p[j]] + ly[k + 1 - p[j]]
          /\ lx[p[i]] = lx[p[j]]
          /\ ly[k + 1 - p[i]] = ly[k + 1 - p[j]]
      BY <1>3, <2>1
    <3> QED
      BY <3>1
  <2> QED
    BY <1>1, <1>5, <2>2, ShapeOfLengths DEF Shape, lz
<1>6. CASE ~args.equal
  <2>1. /\ (\A i \in Slot : lx[i] # 0) \/ (\A i \in Slot : lx[i] <= 1)
        /\ (\A i \in Slot : ly[i] # 0) \/ (\A i \in Slot : ly[i] <= 1)
    BY <1>1, <1>6, ShapeOfLengths DEF Shape, lx, ly
  <2>2. (\A i \in Slot : lz[i] # 0) \/ (\A i \in Slot : lz[i] <= 1)
    <3>1. CASE \A i \in Slot : lx[i] # 0
      BY <1>2, <1>3, <3>1
    <3>2. CASE \A i \in Slot : ly[i] # 0
      BY <1>2, <1>3, <3>2
    <3>3. CASE /\ \A i \in Slot : lx[i] <= 1 /\ ly[i] <= 1
               /\ \A i \in Slot : lx[i] = 0 \/ ly[k + 1 - i] = 0
      <4>1. ASSUME NEW i \in Slot
            PROVE  lz[i] <= 1
        <5>1. /\ p[i] \in Slot /\ k + 1 - p[i] \in Slot
              /\ lz[i] = lx[p[i]] + ly[k + 1 - p[i]]
          BY <1>3
        <5>2. /\ lx[p[i]] \in Nat /\ ly[k + 1 - p[i]] \in Nat
              /\ lx[p[i]] <= 1 /\ ly[k + 1 - p[i]] <= 1
              /\ lx[p[i]] = 0 \/ ly[k + 1 - p[i]] = 0
          BY <1>2, <3>3, <5>1
        <5> QED
          BY <5>1, <5>2
      <4> QED
        BY <4>1
    <3>4. ASSUME NEW i \in Slot, lx[i] # 0, ly[k + 1 - i] # 0
          PROVE  \A j \in Slot : lz[j] # 0
      <4>1. ASSUME NEW j \in Slot
            PROVE  lx[j] # 0 \/ ly[k + 1 - j] # 0
        <5>1. CASE j <= i
          BY <1>4, <3>4, <5>1
        <5>2. CASE i <= j
          <6>1. k + 1 - j \in Slot /\ k + 1 - i \in Slot /\ k + 1 - j <= k + 1 - i
            BY <5>2 DEF ArgsOK, Slot, k
          <6> QED
            BY <1>4, <3>4, <6>1
        <5> QED
          BY <5>1, <5>2 DEF ArgsOK, Slot, k
      <4>2. ASSUME NEW j \in Slot
            PROVE  lz[j] # 0
        <5>1. /\ p[j] \in Slot /\ k + 1 - p[j] \in Slot
              /\ lz[j] = lx[p[j]] + ly[k + 1 - p[j]]
          BY <1>3
        <5>2. /\ lx[p[j]] \in Nat /\ ly[k + 1 - p[j]] \in Nat
              /\ lx[p[j]] # 0 \/ ly[k + 1 - p[j]] # 0
          BY <1>2, <4>1, <5>1
        <5> QED
          BY <5>1, <5>2
      <4> QED
        BY <4>2
    <3> QED
      BY <2>1, <3>1, <3>2, <3>3, <3>4
  <2> QED
    BY <1>1, <1>6, <2>2, ShapeOfLengths DEF Shape, lz
<1> QED
  BY <1>5, <1>6 DEF ArgsOK

-----------------------------------------------------------------------------
(* Where the rows of a merged State come from: each of its places holds    *)
(* the row of one place of the two States, and every place of theirs is    *)
(* somewhere in it.                                                        *)
LEMMA MergedItems ==
  ASSUME ArgsOK, NEW x \in [Slot -> SetType], NEW y \in [Slot -> SetType],
         NEW z \in Merge(x, y)
  PROVE  \E p \in Shuffles : \A i \in Slot :
           /\ p[i] \in Slot /\ k + 1 - p[i] \in Slot
           /\ z[i].items = x[p[i]].items \o y[k + 1 - p[i]].items
<1>1. Crossed(x, y) \in [Slot -> SetType] /\ z \in Sorted(Crossed(x, y))
  BY CrossedType DEF Merge, Crossed
<1>2. PICK p \in Shuffles :
        \A i \in Slot : p[i] \in Slot /\ z[i] = Crossed(x, y)[p[i]]
  BY <1>1, SortedSets
<1>3. ASSUME NEW i \in Slot
      PROVE  /\ p[i] \in Slot /\ k + 1 - p[i] \in Slot
             /\ z[i].items = x[p[i]].items \o y[k + 1 - p[i]].items
  <2>1. p[i] \in Slot /\ k + 1 - p[i] \in Slot
        /\ z[i] = Union(x[p[i]], y[k + 1 - p[i]])
    BY <1>2, CrossedType
  <2> QED
    BY <2>1, UnionFields, Zenon
<1> QED
  BY <1>3

LEMMA InConcat ==
  ASSUME NEW S, NEW s \in Seq(S), NEW t \in Seq(S)
  PROVE  /\ \A a \in DOMAIN s : a \in DOMAIN (s \o t) /\ (s \o t)[a] = s[a]
         /\ \A a \in DOMAIN t : /\ Len(s) + a \in DOMAIN (s \o t)
                               /\ (s \o t)[Len(s) + a] = t[a]
<1>1. DOMAIN s = 1 .. Len(s) /\ DOMAIN t = 1 .. Len(t)
      /\ Len(s) \in Nat /\ Len(t) \in Nat
      /\ DOMAIN (s \o t) = 1 .. Len(s) + Len(t)
  OBVIOUS
<1>2. \A a \in 1 .. Len(s) + Len(t) :
        (s \o t)[a] = IF a <= Len(s) THEN s[a] ELSE t[a - Len(s)]
  BY ConcatProperties
<1>3. ASSUME NEW a \in 1 .. Len(t)
      PROVE  (s \o t)[Len(s) + a] = t[a]
  <2>1. Len(s) + a \in 1 .. Len(s) + Len(t) /\ ~(Len(s) + a <= Len(s))
        /\ Len(s) + a - Len(s) = a
    BY <1>1, <1>3
  <2> QED
    BY <1>2, <2>1
<1>4. ASSUME NEW a \in 1 .. Len(s)
      PROVE  (s \o t)[a] = s[a]
  BY <1>1, <1>2, <1>4
<1> QED
  BY <1>1, <1>3, <1>4

LEMMA MergedKept ==
  ASSUME ArgsOK, NEW x \in [Slot -> SetType], NEW y \in [Slot -> SetType],
         NEW z \in Merge(x, y), NEW r, NEW i \in Slot,
         r \in Items(x[i]) \/ r \in Items(y[i])
  PROVE  \E j \in Slot : r \in Items(z[j])
<1>1. PICK p \in Shuffles : \A j \in Slot :
        /\ p[j] \in Slot /\ k + 1 - p[j] \in Slot
        /\ z[j].items = x[p[j]].items \o y[k + 1 - p[j]].items
  BY MergedItems
<1>2. \A j \in Slot : x[j].items \in Seq(Row) /\ y[j].items \in Seq(Row)
  BY DEF SetType
<1>3. CASE r \in Items(x[i])
  <2>1. PICK j \in Slot : p[j] = i
    BY ShufflesMeetAll
  <2>2. PICK a \in DOMAIN x[i].items : x[i].items[a] = r
    BY <1>3 DEF Items
  <2>3. /\ x[i].items \in Seq(Row) /\ y[k + 1 - i].items \in Seq(Row)
        /\ z[j].items = x[i].items \o y[k + 1 - i].items
    BY <1>1, <1>2, <2>1
  <2>4. a \in DOMAIN z[j].items /\ z[j].items[a] = r
    <3> DEFINE s == x[i].items
               t == y[k + 1 - i].items
    <3>1. s \in Seq(Row) /\ t \in Seq(Row) /\ a \in DOMAIN s
          /\ z[j].items = s \o t /\ s[a] = r
      BY <2>2, <2>3
    <3> HIDE DEF s, t
    <3>2. a \in DOMAIN (s \o t) /\ (s \o t)[a] = s[a]
      BY <3>1, InConcat
    <3> QED
      BY <3>1, <3>2
  <2> QED
    BY <2>4 DEF Items
<1>4. CASE r \in Items(y[i])
  <2>1. k + 1 - i \in Slot /\ k + 1 - (k + 1 - i) = i
    BY DEF ArgsOK, Slot, k
  <2>2. PICK j \in Slot : p[j] = k + 1 - i
    BY <2>1, ShufflesMeetAll
  <2>3. PICK a \in DOMAIN y[i].items : y[i].items[a] = r
    BY <1>4 DEF Items
  <2>4. /\ x[k + 1 - i].items \in Seq(Row) /\ y[i].items \in Seq(Row)
        /\ z[j].items = x[k + 1 - i].items \o y[i].items
    BY <1>1, <1>2, <2>1, <2>2
  <2> DEFINE b == Len(x[k + 1 - i].items) + a
  <2>5. b \in DOMAIN z[j].items /\ z[j].items[b] = r
    <3> DEFINE s == x[k + 1 - i].items
               t == y[i].items
    <3>1. s \in Seq(Row) /\ t \in Seq(Row) /\ a \in DOMAIN t
          /\ z[j].items = s \o t /\ t[a] = r
      BY <2>3, <2>4
    <3>2. b = Len(s) + a
      OBVIOUS
    <3> HIDE DEF s, t, b
    <3>3. Len(s) + a \in DOMAIN (s \o t) /\ (s \o t)[Len(s) + a] = t[a]
      BY <3>1, InConcat
    <3> QED
      BY <3>1, <3>2, <3>3
  <2> QED
    BY <2>5 DEF Items
<1> QED
  BY <1>3, <1>4

(* The place in x or in y a place of the merged State comes from; no two   *)
(* places come from the same one.                                          *)
LEMMA MergedOrigin ==
  ASSUME ArgsOK, NEW x \in [Slot -> SetType], NEW y \in [Slot -> SetType],
         NEW z \in Merge(x, y)
  PROVE  \E p \in Shuffles : \A i \in Slot : \A a \in DOMAIN z[i].items :
           /\ p[i] \in Slot /\ k + 1 - p[i] \in Slot
           /\ \/ /\ a \in DOMAIN x[p[i]].items
                 /\ z[i].items[a] = x[p[i]].items[a]
              \/ /\ a - Len(x[p[i]].items) \in DOMAIN y[k + 1 - p[i]].items
                 /\ z[i].items[a] = y[k + 1 - p[i]].items[a - Len(x[p[i]].items)]
<1>1. PICK p \in Shuffles : \A i \in Slot :
        /\ p[i] \in Slot /\ k + 1 - p[i] \in Slot
        /\ z[i].items = x[p[i]].items \o y[k + 1 - p[i]].items
  BY MergedItems
<1>2. \A i \in Slot : x[i].items \in Seq(Row) /\ y[i].items \in Seq(Row)
  BY DEF SetType
<1>3. ASSUME NEW i \in Slot, NEW a \in DOMAIN z[i].items
      PROVE  \/ /\ a \in DOMAIN x[p[i]].items
                /\ z[i].items[a] = x[p[i]].items[a]
             \/ /\ a - Len(x[p[i]].items) \in DOMAIN y[k + 1 - p[i]].items
                /\ z[i].items[a] = y[k + 1 - p[i]].items[a - Len(x[p[i]].items)]
  <2> DEFINE s == x[p[i]].items
             t == y[k + 1 - p[i]].items
  <2>1. s \in Seq(Row) /\ t \in Seq(Row) /\ z[i].items = s \o t
    BY <1>1, <1>2
  <2> HIDE DEF s, t
  <2>2. \/ a \in DOMAIN s /\ (s \o t)[a] = s[a]
        \/ a - Len(s) \in DOMAIN t /\ (s \o t)[a] = t[a - Len(s)]
    BY <1>3, <2>1
  <2> QED
    BY <2>1, <2>2 DEF s, t
<1> QED
  BY <1>1, <1>3

LEMMA MergedOnce ==
  ASSUME ArgsOK, \A x \in states : x \in [Slot -> SetType], Once,
         NEW x \in states, NEW y \in states, x # y, NEW z \in Merge(x, y),
         states' = (states \ {x, y}) \cup {z}, args' = args
  PROVE  Once'
<1>1. x \in [Slot -> SetType] /\ y \in [Slot -> SetType]
  OBVIOUS
<1>2. PICK p \in Shuffles : \A i \in Slot : \A a \in DOMAIN z[i].items :
        /\ p[i] \in Slot /\ k + 1 - p[i] \in Slot
        /\ \/ /\ a \in DOMAIN x[p[i]].items
              /\ z[i].items[a] = x[p[i]].items[a]
           \/ /\ a - Len(x[p[i]].items) \in DOMAIN y[k + 1 - p[i]].items
              /\ z[i].items[a] = y[k + 1 - p[i]].items[a - Len(x[p[i]].items)]
  BY <1>1, MergedOrigin
(* A row of the merged State is a row of x or of y, so of no other State. *)
<1>3. ASSUME NEW v \in states \ {x, y}, NEW i \in Slot, NEW j \in Slot,
             NEW a \in DOMAIN z[i].items, NEW b \in DOMAIN v[j].items
      PROVE  z[i].items[a] # v[j].items[b]
  <2>1. \/ \E c \in DOMAIN x[p[i]].items :
              p[i] \in Slot /\ z[i].items[a] = x[p[i]].items[c]
        \/ \E c \in DOMAIN y[k + 1 - p[i]].items :
              k + 1 - p[i] \in Slot /\ z[i].items[a] = y[k + 1 - p[i]].items[c]
    BY <1>2
  <2>2. \A q \in Slot : \A c \in DOMAIN x[q].items : x[q].items[c] # v[j].items[b]
    BY DEF Once
  <2>3. \A q \in Slot : \A c \in DOMAIN y[q].items : y[q].items[c] # v[j].items[b]
    BY DEF Once
  <2> QED
    BY <2>1, <2>2, <2>3
<1>4. ASSUME NEW i \in Slot, NEW j \in Slot,
             NEW a \in DOMAIN z[i].items, NEW b \in DOMAIN z[j].items,
             z[i].items[a] = z[j].items[b]
      PROVE  i = j /\ a = b
  <2> DEFINE la == Len(x[p[i]].items)
             lb == Len(x[p[j]].items)
  <2>1. /\ p[i] \in Slot /\ k + 1 - p[i] \in Slot
        /\ p[j] \in Slot /\ k + 1 - p[j] \in Slot
        /\ a \in Int /\ b \in Int /\ la \in Int /\ lb \in Int
    <3>1. /\ p[i] \in Slot /\ k + 1 - p[i] \in Slot
          /\ p[j] \in Slot /\ k + 1 - p[j] \in Slot
      BY <1>2
    <3>2. z[i].items \in Seq(Row) /\ z[j].items \in Seq(Row)
      <4>1. Crossed(x, y) \in [Slot -> SetType] /\ z \in Sorted(Crossed(x, y))
        BY <1>1, CrossedType DEF Merge, Crossed
      <4>2. z \in [Slot -> SetType]
        BY <4>1, SortedSets
      <4> QED
        BY <4>2 DEF SetType
    <3>3. x[p[i]].items \in Seq(Row) /\ x[p[j]].items \in Seq(Row)
      BY <1>1, <3>1 DEF SetType
    <3> QED
      BY <3>1, <3>2, <3>3
  <2>2. \A q, t \in Slot : \A c \in DOMAIN x[q].items, d \in DOMAIN y[t].items :
          x[q].items[c] # y[t].items[d]
    BY DEF Once
  <2>3. \A q, t \in Slot : \A c \in DOMAIN x[q].items, d \in DOMAIN x[t].items :
          x[q].items[c] = x[t].items[d] => q = t /\ c = d
    BY DEF Once
  <2>4. \A q, t \in Slot : \A c \in DOMAIN y[q].items, d \in DOMAIN y[t].items :
          y[q].items[c] = y[t].items[d] => q = t /\ c = d
    BY DEF Once
  <2>5. \/ /\ a \in DOMAIN x[p[i]].items
           /\ z[i].items[a] = x[p[i]].items[a]
        \/ /\ a - la \in DOMAIN y[k + 1 - p[i]].items
           /\ z[i].items[a] = y[k + 1 - p[i]].items[a - la]
    BY <1>2
  <2>6. \/ /\ b \in DOMAIN x[p[j]].items
           /\ z[j].items[b] = x[p[j]].items[b]
        \/ /\ b - lb \in DOMAIN y[k + 1 - p[j]].items
           /\ z[j].items[b] = y[k + 1 - p[j]].items[b - lb]
    BY <1>2
  <2> HIDE DEF la, lb
  <2>7. \/ p[i] = p[j] /\ a = b
        \/ k + 1 - p[i] = k + 1 - p[j] /\ a - la = b - lb
    BY <1>4, <2>1, <2>2, <2>3, <2>4, <2>5, <2>6
  <2>8. p[i] = p[j]
    <3>1. k \in Int /\ p[i] \in Int /\ p[j] \in Int
      BY <2>1 DEF ArgsOK, Slot, k
    <3> QED
      BY <2>7, <3>1
  <2>9. i = j
    BY <2>8 DEF Shuffles
  <2> QED
    BY <2>1, <2>7, <2>9 DEF la, lb
<1>5. ASSUME NEW v \in states \ {x, y}, NEW w \in states \ {x, y},
             NEW i \in Slot, NEW j \in Slot,
             NEW a \in DOMAIN v[i].items, NEW b \in DOMAIN w[j].items,
             v[i].items[a] = w[j].items[b]
      PROVE  v = w /\ i = j /\ a = b
  BY <1>5 DEF Once
<1>6. Slot' = Slot
  BY DEF Slot, k
<1> QED
  BY <1>3, <1>4, <1>5, <1>6 DEF Once

-----------------------------------------------------------------------------
(* The sorted list: ranks are a bijection that follows the lengths.        *)
NotAfter(q, r) == \/ args.seqlen[q] < args.seqlen[r]
                  \/ args.seqlen[q] = args.seqlen[r] /\ q <= r

LEMMA RowFacts ==
  ASSUME ArgsOK
  PROVE  /\ n \in Nat \ {0} /\ k \in Nat \ {0}
         /\ Row = 1 .. n /\ Slot = 1 .. k
         /\ IsFiniteSet(Row) /\ Cardinality(Row) = n
         /\ \A r \in Row : args.seqlen[r] \in Nat
<1>1. n \in Nat \ {0} /\ k \in Nat \ {0} /\ Row = 1 .. n /\ Slot = 1 .. k
  BY DEF ArgsOK, n, k, Row, Slot
<1>2. IsFiniteSet(1 .. n) /\ Cardinality(1 .. n) = n
  BY <1>1, FS_Interval
<1>3. \A r \in Row : args.seqlen[r] \in Nat
  BY DEF ArgsOK, Row, n
<1> QED
  BY <1>1, <1>2, <1>3

LEMMA Ranks ==
  ASSUME ArgsOK
  PROVE  /\ \A r \in Row : Rank(r) \in 1 .. n
         /\ \A q, r \in Row : Rank(q) = Rank(r) => q = r
         /\ \A q, r \in Row : Rank(q) < Rank(r) => NotAfter(q, r)
<1> DEFINE B(r) == {q \in Row : NotAfter(q, r)}
<1>1. \A r \in Row : Rank(r) = Cardinality(B(r))
  BY DEF Rank, NotAfter
<1>2. \A r \in Row : /\ r \in B(r) /\ B(r) \in SUBSET Row
                    /\ IsFiniteSet(B(r)) /\ Cardinality(B(r)) <= n
                    /\ Cardinality(B(r)) \in Nat /\ Cardinality(B(r)) # 0
  <2> SUFFICES ASSUME NEW r \in Row
               PROVE  /\ r \in B(r) /\ B(r) \in SUBSET Row
                      /\ IsFiniteSet(B(r)) /\ Cardinality(B(r)) <= n
                      /\ Cardinality(B(r)) \in Nat /\ Cardinality(B(r)) # 0
    OBVIOUS
  <2>1. r \in B(r) /\ B(r) \in SUBSET Row
    BY RowFacts DEF NotAfter
  <2> HIDE DEF B
  <2>2. IsFiniteSet(B(r)) /\ Cardinality(B(r)) <= n
    BY <2>1, RowFacts, FS_Subset
  <2>3. Cardinality(B(r)) \in Nat
    BY <2>2, FS_CardinalityType
  <2>4. Cardinality(B(r)) # 0
    BY <2>1, <2>2, FS_EmptySet
  <2> QED
    BY <2>1, <2>2, <2>3, <2>4
<1>3. \A q, r \in Row : NotAfter(q, r) \/ NotAfter(r, q)
  BY RowFacts DEF NotAfter
<1>4. \A q, r \in Row : NotAfter(q, r) => B(q) \subseteq B(r)
  BY RowFacts DEF NotAfter
<1>5. \A q, r \in Row : NotAfter(q, r) /\ NotAfter(r, q) => q = r
  BY RowFacts DEF NotAfter
<1>6. ASSUME NEW q \in Row, NEW r \in Row, NotAfter(q, r)
      PROVE  /\ Cardinality(B(q)) <= Cardinality(B(r))
             /\ Cardinality(B(q)) = Cardinality(B(r)) => q = r
  <2>1. B(q) \in SUBSET B(r)
    BY <1>4, <1>6
  <2>2. r \in B(q) => q = r
    BY <1>5, <1>6
  <2>3. r \in B(r) /\ IsFiniteSet(B(r))
    BY <1>2
  <2> HIDE DEF B
  <2>4. Cardinality(B(q)) <= Cardinality(B(r))
        /\ (Cardinality(B(r)) = Cardinality(B(q)) => B(r) = B(q))
    BY <2>1, <2>3, FS_Subset
  <2> QED
    BY <2>2, <2>3, <2>4
<1> HIDE DEF B
<1>7. \A r \in Row : Rank(r) \in 1 .. n
  BY <1>1, <1>2, RowFacts
<1>8. ASSUME NEW q \in Row, NEW r \in Row, Rank(q) = Rank(r)
      PROVE  q = r
  BY <1>1, <1>3, <1>6, <1>8
<1>9. ASSUME NEW q \in Row, NEW r \in Row, Rank(q) < Rank(r)
      PROVE  NotAfter(q, r)
  <2>1. CASE NotAfter(r, q)
    BY <1>1, <1>2, <1>6, <1>9, <2>1
  <2> QED
    BY <1>3, <2>1
<1> QED
  BY <1>7, <1>8, <1>9

LEMMA RowsAtRanks ==
  ASSUME ArgsOK, NEW i \in 1 .. n
  PROVE  RowAt(i) \in Row /\ Rank(RowAt(i)) = i
<1> DEFINE f == [r \in Row |-> Rank(r)]
<1>1. f \in Injection(Row, 1 .. n)
  BY Ranks DEF Injection, IsInjective
<1>2. IsFiniteSet(1 .. n) /\ Cardinality(1 .. n) = Cardinality(Row)
  BY RowFacts
<1>3. f \in Surjection(Row, 1 .. n)
  BY <1>1, <1>2, FS_Injection
<1>4. \E r \in Row : Rank(r) = i
  BY <1>3 DEF Surjection
<1> QED
  BY <1>4 DEF RowAt

-----------------------------------------------------------------------------
(* The groups of k neighbours meet every rank once.                        *)
LEMMA GroupRanks ==
  ASSUME ArgsOK, args.equal, ~Refused
  PROVE  /\ \A g \in 1 .. n \div k : \A i \in Slot : g * k + 1 - i \in 1 .. n
         /\ \A g, h \in 1 .. n \div k : \A i, j \in Slot :
              g * k + 1 - i = h * k + 1 - j => g = h /\ i = j
         /\ \A q \in 1 .. n : \E g \in 1 .. n \div k : \E i \in Slot : q = g * k + 1 - i
<1> DEFINE m == n \div k
<1>1. n \in Nat \ {0} /\ k \in Nat \ {0} /\ Slot = 1 .. k /\ n % k = 0
  BY RowFacts DEF Refused
<1>2. m \in Nat /\ n = m * k
  BY <1>1
<1> HIDE DEF m
<1>3. ASSUME NEW g \in 1 .. m, NEW i \in Slot
      PROVE  g * k + 1 - i \in 1 .. n
  <2>1. g * k <= m * k
    <3>1. CASE g = m
      BY <1>1, <1>2, <3>1
    <3>2. CASE g < m
      <4>1. g * k + k <= m * k
        BY <1>1, <1>2, <3>2, Multiples
      <4>2. g * k \in Nat /\ m * k \in Nat
        BY <1>1, <1>2
      <4> QED
        BY <1>1, <4>1, <4>2
    <3> QED
      BY <1>2, <3>1, <3>2
  <2>2. 0 * k + k <= g * k
    BY <1>1, Multiples
  <2>3. 0 * k = 0 /\ g * k \in Nat
    BY <1>1
  <2> QED
    BY <1>1, <1>2, <2>1, <2>2, <2>3
<1>4. ASSUME NEW g \in 1 .. m, NEW h \in 1 .. m, NEW i \in Slot, NEW j \in Slot,
             g * k + 1 - i = h * k + 1 - j
      PROVE  g = h /\ i = j
  <2>1. g * k \in Nat /\ h * k \in Nat
    BY <1>1
  <2>2. ~(g < h)
    <3>1. SUFFICES ASSUME g < h PROVE FALSE
      OBVIOUS
    <3>2. g * k + k <= h * k
      BY <1>1, <3>1, Multiples
    <3> QED
      BY <1>1, <1>4, <2>1, <3>2
  <2>3. ~(h < g)
    <3>1. SUFFICES ASSUME h < g PROVE FALSE
      OBVIOUS
    <3>2. h * k + k <= g * k
      BY <1>1, <3>1, Multiples
    <3> QED
      BY <1>1, <1>4, <2>1, <3>2
  <2>4. g = h
    BY <2>2, <2>3
  <2>5. g * k = h * k
    BY <2>4
  <2> QED
    BY <1>1, <1>4, <2>1, <2>4, <2>5
<1>5. ASSUME NEW q \in 1 .. n
      PROVE  \E g \in 1 .. m : \E i \in Slot : q = g * k + 1 - i
  <2> DEFINE d == (q - 1) \div k
             e == (q - 1) % k
  <2>1. d \in Nat /\ e \in 0 .. k - 1 /\ q - 1 = d * k + e
    BY <1>1
  <2> HIDE DEF d, e
  <2>2. d * k \in Nat /\ (d + 1) * k = d * k + k
    BY <1>1, <2>1
  <2>3. d + 1 <= m
    <3>1. SUFFICES ASSUME ~(d < m) PROVE FALSE
      BY <1>2, <2>1
    <3>2. m * k <= d * k
      <4>1. CASE m = d
        BY <4>1, <2>2
      <4>2. CASE m < d
        <5>1. m * k + k <= d * k
          BY <1>1, <1>2, <2>1, <4>2, Multiples
        <5>2. m * k \in Nat
          BY <1>1, <1>2
        <5> QED
          BY <1>1, <2>2, <5>1, <5>2
      <4> QED
        BY <1>2, <2>1, <3>1, <4>1, <4>2
    <3> QED
      BY <1>1, <1>2, <2>1, <2>2, <3>2
  <2>4. d + 1 \in 1 .. m /\ k - e \in Slot /\ q = (d + 1) * k + 1 - (k - e)
    BY <1>1, <1>2, <2>1, <2>2, <2>3
  <2> QED
    BY <2>4
<1> QED
  BY <1>3, <1>4, <1>5 DEF m

-----------------------------------------------------------------------------
(* The heap the loop starts with.                                          *)
LEMMA SingletonFields ==
  ASSUME ArgsOK, NEW r \in Row
  PROVE  /\ Singleton(r) \in SetType
         /\ Singleton(r).sum = args.seqlen[r] /\ Singleton(r).items = <<r>>
         /\ Len(Singleton(r).items) = 1
BY RowFacts DEF Singleton, SetType

LEMMA PushedAlone ==
  ASSUME ArgsOK, ~args.equal, NEW r \in Row
  PROVE  Single(Alone(r)) /\ Shape(Alone(r))
<1> DEFINE x == Alone(r)
<1>1. 1 \in Slot /\ k \in Slot
  BY RowFacts
<1>2. x[1] = Singleton(r) /\ \A i \in Slot : i # 1 => x[i] = EmptySet
  BY <1>1 DEF Alone
<1>3. EmptySet \in SetType /\ EmptySet.sum = 0 /\ EmptySet.items = <<>>
      /\ Len(EmptySet.items) = 0
  BY DEF EmptySet, SetType
<1>4. x \in [Slot -> SetType]
  BY <1>3, SingletonFields DEF Alone
<1>5. Descending(x)
  <2> SUFFICES ASSUME NEW i \in Slot, NEW j \in Slot, i < j
               PROVE  ~Above(x[j], x[i])
    BY DEF Descending
  <2>1. x[j] = EmptySet
    BY <1>2, RowFacts
  <2>2. x[i].sum \in Nat /\ Len(x[i].items) \in Nat
    BY <1>4 DEF SetType
  <2> HIDE DEF x
  <2> QED
    BY <1>3, <2>1, <2>2 DEF Above
<1>6. \A i \in Slot : x[i].items = <<>> => x[i].sum = 0
  <2> TAKE i \in Slot
  <2>1. CASE i = 1
    <3>1. x[i].items = <<r>>
      BY <1>2, <2>1, SingletonFields
    <3> QED
      BY <3>1
  <2>2. CASE i # 1
    BY <1>2, <1>3, <2>2
  <2> QED
    BY <2>1, <2>2
<1>7. Fair(x)
  <2>1. x[1].sum = args.seqlen[r]
    BY <1>2, SingletonFields
  <2>2. x[k].sum \in Nat
    BY <1>1, <1>4 DEF SetType
  <2> HIDE DEF x
  <2> QED
    BY <2>1, <2>2, RowFacts DEF Fair, Spread
<1>8. Shape(x)
  <2>1. \A i \in Slot : Len(x[i].items) <= 1
    <3> TAKE i \in Slot
    <3>1. CASE i = 1
      <4>1. x[i].items = <<r>>
        BY <1>2, <3>1, SingletonFields
      <4> QED
        BY <4>1
    <3>2. CASE i # 1
      <4>1. x[i] = EmptySet
        BY <1>2, <3>2
      <4>2. x[i].items = <<>>
        BY <1>3, <4>1
      <4> QED
        BY <4>2
    <3> QED
      BY <3>1, <3>2
  <2> QED
    BY <2>1 DEF Shape, Sparse
<1> QED
  BY <1>4, <1>5, <1>6, <1>7, <1>8 DEF Single

LEMMA PushedGroup ==
  ASSUME ArgsOK, args.equal, ~Refused, NEW g \in 1 .. n \div k
  PROVE  Single(Group(g)) /\ Shape(Group(g))
<1> DEFINE x == Group(g)
           q(i) == g * k + 1 - i
<1>1. 1 \in Slot /\ k \in Slot
  BY RowFacts
<1>2. \A i \in Slot : /\ q(i) \in 1 .. n
                     /\ RowAt(q(i)) \in Row /\ Rank(RowAt(q(i))) = q(i)
                     /\ x[i] = Singleton(RowAt(q(i)))
  BY GroupRanks, RowsAtRanks DEF Group
<1>3. \A i, j \in Slot : i < j => q(j) < q(i)
  BY RowFacts
<1> HIDE DEF q
<1>4. \A i \in Slot : /\ x[i] \in SetType
                     /\ x[i].sum = args.seqlen[RowAt(q(i))]
                     /\ x[i].items = <<RowAt(q(i))>>
                     /\ Len(x[i].items) = 1
  <2> TAKE i \in Slot
  <2>1. RowAt(q(i)) \in Row /\ x[i] = Singleton(RowAt(q(i)))
    BY <1>2
  <2> QED
    BY <2>1, SingletonFields
<1>5. x \in [Slot -> SetType]
  BY <1>4 DEF Group
<1>6. Descending(x)
  <2> SUFFICES ASSUME NEW i \in Slot, NEW j \in Slot, i < j
               PROVE  ~Above(x[j], x[i])
    BY DEF Descending
  <2>1. /\ RowAt(q(i)) \in Row /\ RowAt(q(j)) \in Row
        /\ Rank(RowAt(q(j))) < Rank(RowAt(q(i)))
    BY <1>2, <1>3
  <2>2. NotAfter(RowAt(q(j)), RowAt(q(i)))
    BY <2>1, Ranks
  <2>3. /\ x[i].sum = args.seqlen[RowAt(q(i))] /\ x[j].sum = args.seqlen[RowAt(q(j))]
        /\ x[i].items = <<RowAt(q(i))>> /\ x[j].items = <<RowAt(q(j))>>
        /\ Len(x[i].items) = 1 /\ Len(x[j].items) = 1
    BY <1>4
  <2>4. x[i].items[1] = RowAt(q(i)) /\ x[j].items[1] = RowAt(q(j))
    BY <2>3
  <2>5. /\ args.seqlen[RowAt(q(i))] \in Nat /\ args.seqlen[RowAt(q(j))] \in Nat
        /\ RowAt(q(i)) \in Nat /\ RowAt(q(j)) \in Nat
    BY <2>1, RowFacts
  <2> HIDE DEF x
  <2> QED
    BY <2>2, <2>3, <2>4, <2>5 DEF Above, NotAfter
<1>7. \A i \in Slot : x[i].items # <<>>
  BY <1>4
<1>8. Fair(x)
  <2>1. /\ x[1].sum = args.seqlen[RowAt(q(1))] /\ RowAt(q(1)) \in Row
        /\ x[k].sum \in Nat
    BY <1>1, <1>2, <1>4 DEF SetType
  <2> HIDE DEF x
  <2> QED
    BY <2>1, RowFacts DEF Fair, Spread
<1>9. Shape(x)
  BY <1>4 DEF Shape, SameLength
<1> QED
  BY <1>5, <1>6, <1>7, <1>8, <1>9 DEF Single

LEMMA PushedStates ==
  ASSUME ArgsOK, ~Refused, states' = Pushed, args' = args
  PROVE  (\A x \in states : Single(x) /\ Shape(x))' /\ Kept' /\ Once'
<1> DEFINE S == 1 .. n \div k
<1>1. Slot' = Slot /\ Row' = Row
  BY DEF Slot, Row, k, n
<1>2. CASE args.equal
  <2>1. Pushed = {Group(g) : g \in S}
    BY <1>2 DEF Pushed
  <2>2. \A x \in Pushed : Single(x) /\ Shape(x)
    BY <1>2, <2>1, PushedGroup
  <2>3. \A g \in S : \A i \in Slot : /\ Group(g)[i].items = <<RowAt(g * k + 1 - i)>>
                                  /\ g * k + 1 - i \in 1 .. n
    <3> TAKE g \in S
    <3> TAKE i \in Slot
    <3>1. g * k + 1 - i \in 1 .. n
      BY <1>2, GroupRanks
    <3>2. RowAt(g * k + 1 - i) \in Row
      BY <3>1, RowsAtRanks
    <3>3. Group(g)[i] = Singleton(RowAt(g * k + 1 - i))
      BY DEF Group
    <3> QED
      BY <3>1, <3>2, <3>3, SingletonFields
  <2>4. \A r \in Row : \E g \in S : \E i \in Slot : r \in Items(Group(g)[i])
    <3> TAKE r \in Row
    <3>1. Rank(r) \in 1 .. n
      BY Ranks
    <3>2. PICK g \in S, i \in Slot : Rank(r) = g * k + 1 - i
      BY <1>2, <3>1, GroupRanks
    <3>3. RowAt(g * k + 1 - i) = r
      BY <3>1, <3>2, RowsAtRanks, Ranks
    <3>4. Group(g)[i].items = <<r>>
      BY <2>3, <3>3
    <3>5. r \in Items(Group(g)[i])
      BY <3>4 DEF Items
    <3> QED
      BY <3>5
  <2>5. ASSUME NEW g \in S, NEW h \in S, NEW i \in Slot, NEW j \in Slot,
               NEW a \in DOMAIN Group(g)[i].items, NEW b \in DOMAIN Group(h)[j].items,
               Group(g)[i].items[a] = Group(h)[j].items[b]
        PROVE  g = h /\ i = j /\ a = b
    <3> DEFINE u == g * k + 1 - i
               v == h * k + 1 - j
    <3>1. /\ Group(g)[i].items = <<RowAt(u)>> /\ Group(h)[j].items = <<RowAt(v)>>
          /\ u \in 1 .. n /\ v \in 1 .. n
      BY <2>3
    <3> HIDE DEF u, v
    <3>2. a = 1 /\ b = 1 /\ RowAt(u) = RowAt(v)
      BY <2>5, <3>1
    <3>3. Rank(RowAt(u)) = u /\ Rank(RowAt(v)) = v
      BY <3>1, RowsAtRanks
    <3>4. u = v
      BY <3>2, <3>3
    <3> QED
      BY <1>2, <3>2, <3>4, GroupRanks DEF u, v
  <2>6. Kept'
    BY <1>1, <2>1, <2>4 DEF Kept
  <2>7. Once'
    BY <1>1, <2>1, <2>5 DEF Once
  <2>8. (\A x \in states : Single(x) /\ Shape(x))'
    BY <1>1, <2>2 DEF Single, Shape, Descending, Fair, SetType, SameLength,
                       Full, Sparse, Spread, k
  <2> QED
    BY <2>6, <2>7, <2>8
<1>3. CASE ~args.equal
  <2>1. Pushed = {Alone(r) : r \in Row}
    BY <1>3 DEF Pushed
  <2>2. \A x \in Pushed : Single(x) /\ Shape(x)
    BY <1>3, <2>1, PushedAlone
  <2>3. \A r \in Row : \A i \in Slot :
          Alone(r)[i].items = IF i = 1 THEN <<r>> ELSE <<>>
    BY SingletonFields DEF Alone, EmptySet
  <2>4. \A r \in Row : \E i \in Slot : r \in Items(Alone(r)[i])
    <3> TAKE r \in Row
    <3>0. 1 \in Slot
      BY RowFacts
    <3>1. 1 \in Slot /\ Alone(r)[1].items = <<r>>
      BY <2>3, <3>0
    <3>2. r \in Items(Alone(r)[1])
      BY <3>1 DEF Items
    <3> QED
      BY <3>1, <3>2
  <2>5. ASSUME NEW g \in Row, NEW h \in Row, NEW i \in Slot, NEW j \in Slot,
               NEW a \in DOMAIN Alone(g)[i].items, NEW b \in DOMAIN Alone(h)[j].items,
               Alone(g)[i].items[a] = Alone(h)[j].items[b]
        PROVE  g = h /\ i = j /\ a = b
    <3>1. /\ Alone(g)[i].items = IF i = 1 THEN <<g>> ELSE <<>>
          /\ Alone(h)[j].items = IF j = 1 THEN <<h>> ELSE <<>>
      BY <2>3
    <3>2. i = 1 /\ j = 1
      BY <2>5, <3>1
    <3> QED
      BY <2>5, <3>1, <3>2
  <2>6. Kept'
    BY <1>1, <2>1, <2>4 DEF Kept
  <2>7. Once'
    BY <1>1, <2>1, <2>5 DEF Once
  <2>8. (\A x \in states : Single(x) /\ Shape(x))'
    BY <1>1, <2>2 DEF Single, Shape, Descending, Fair, SetType, SameLength,
                       Full, Sparse, Spread, k
  <2> QED
    BY <2>6, <2>7, <2>8
<1> QED
  BY <1>2, <1>3 DEF ArgsOK

-----------------------------------------------------------------------------
(* The last State: with equal_size its k sets of m rows hold every row     *)
(* once, so that k times m is the number of rows; without, one row per set *)
(* and an empty set would be fewer places than rows.                       *)
LEMMA LastIsEqual ==
  ASSUME ArgsOK, NEW x, states = {x}, Single(x), SameLength(x), Kept, Once
  PROVE  \A i \in Slot : Len(x[i].items) * k = n
<1> DEFINE m == Len(x[1].items)
           T == Slot \X (1 .. m)
           f == [t \in T |-> x[t[1]].items[t[2]]]
<1>1. /\ 1 \in Slot /\ n \in Nat /\ k \in Nat /\ Slot = 1 .. k
      /\ IsFiniteSet(Row) /\ Cardinality(Row) = n
  BY RowFacts
<1>2. \A i \in Slot : x[i].items \in Seq(Row)
  BY DEF Single, SetType
<1>3. \A i \in Slot : Len(x[i].items) = m
  BY <1>1 DEF SameLength
<1>4. m \in Nat /\ \A i \in Slot : DOMAIN x[i].items = 1 .. m
  BY <1>1, <1>2, <1>3, LenProperties
<1>5. \A i \in Slot : \A a \in 1 .. m : x[i].items[a] \in Row
  BY <1>2, <1>4, ElementOfSeq
<1> HIDE DEF m
<1>6. f \in [T -> Row]
  BY <1>5
<1>7. ASSUME NEW s \in T, NEW t \in T, f[s] = f[t]
      PROVE  s = t
  <2>1. x[s[1]].items[s[2]] = x[t[1]].items[t[2]]
    BY <1>7
  <2>2. /\ s[1] \in Slot /\ s[2] \in DOMAIN x[s[1]].items
        /\ t[1] \in Slot /\ t[2] \in DOMAIN x[t[1]].items
    BY <1>4
  <2>3. s[1] = t[1] /\ s[2] = t[2]
    BY <2>1, <2>2 DEF Once
  <2> QED
    BY <2>3
<1>8. \A r \in Row : \E t \in T : f[t] = r
  <2> TAKE r \in Row
  <2>1. PICK i \in Slot : r \in Items(x[i])
    BY DEF Kept
  <2>2. PICK a \in DOMAIN x[i].items : r = x[i].items[a]
    BY <2>1 DEF Items
  <2>3. <<i, a>> \in T
    BY <1>4
  <2> QED
    BY <2>2, <2>3
<1> HIDE DEF f
<1>9. f \in Bijection(T, Row)
  BY <1>6, <1>7, <1>8 DEF Bijection, Injection, Surjection, IsInjective
<1>10. ExistsBijection(T, Row)
  BY <1>9 DEF ExistsBijection
<1>11. /\ IsFiniteSet(Slot) /\ Cardinality(Slot) = k
       /\ IsFiniteSet(1 .. m) /\ Cardinality(1 .. m) = m
  BY <1>1, <1>4, FS_Interval
<1>12. IsFiniteSet(T) /\ Cardinality(T) = k * m
  BY <1>11, FS_Product
<1>13. Cardinality(T) = Cardinality(Row)
  BY <1>1, <1>10, <1>12, FS_Bijection
<1>14. m * k = n
  BY <1>1, <1>4, <1>12, <1>13
<1> QED
  BY <1>3, <1>14

LEMMA LastIsFull ==
  ASSUME ArgsOK, NEW x, states = {x}, Single(x), Sparse(x), Kept, k <= n
  PROVE  Full(x)
<1> SUFFICES ASSUME NEW e \in Slot, x[e].items = <<>>
             PROVE  FALSE
  BY DEF Full
<1>1. /\ n \in Nat /\ k \in Nat /\ Slot = 1 .. k
      /\ IsFiniteSet(Row) /\ Cardinality(Row) = n
  BY RowFacts
<1> DEFINE R == Slot \ {e}
           at(r) == CHOOSE i \in Slot : r \in Items(x[i])
           f == [r \in Row |-> at(r)]
<1>2. \A r \in Row : at(r) \in Slot /\ r \in Items(x[at(r)])
  BY DEF Kept
<1>3. Items(x[e]) = {}
  BY DEF Items
<1>4. \A i \in Slot : \A q, r \in Items(x[i]) : q = r
  <2> TAKE i \in Slot
  <2>1. x[i].items \in Seq(Row) /\ Len(x[i].items) <= 1
    BY DEF Single, SetType, Sparse
  <2>2. \A a \in DOMAIN x[i].items : a = 1
    BY <2>1, LenProperties
  <2> QED
    BY <2>2 DEF Items
<1> HIDE DEF at
<1>5. f \in [Row -> R]
  BY <1>2, <1>3
<1>6. \A q, r \in Row : f[q] = f[r] => q = r
  BY <1>2, <1>4
<1> HIDE DEF f
<1>7. IsFiniteSet(Slot) /\ Cardinality(Slot) = k
  BY <1>1, FS_Interval
<1>8. IsFiniteSet(R) /\ Cardinality(R) = k - 1
  BY <1>7, FS_RemoveElement
<1>9. Cardinality(R) < Cardinality(Row)
  BY <1>1, <1>8
<1>10. \E q, r \in Row : q # r /\ f[q] = f[r]
  BY <1>1, <1>5, <1>8, <1>9, FS_PigeonHole
<1> QED
  BY <1>6, <1>10

LEMMA LastIsSound ==
  ASSUME ArgsOK, NEW x, states = {x}, Single(x), Shape(x), Kept, Once, ~Refused
  PROVE  Sound(x)
<1>1. /\ n \in Nat \ {0} /\ k \in Nat \ {0} /\ k <= n
  BY RowFacts DEF Refused
<1>2. \A i \in Slot : x[i].items \in Seq(Row)
  BY DEF Single, SetType
<1>3. UNION {Items(x[i]) : i \in Slot} = Row
  <2>1. \A i \in Slot : \A a \in DOMAIN x[i].items : x[i].items[a] \in Row
    BY <1>2, ElementOfSeq
  <2>2. \A i \in Slot : Items(x[i]) \subseteq Row
    BY <2>1 DEF Items
  <2>3. \A r \in Row : \E i \in Slot : r \in Items(x[i])
    BY DEF Kept
  <2> QED
    BY <2>2, <2>3
<1>4. CASE args.equal
  <2>1. \A i \in Slot : Len(x[i].items) * k = n
    BY <1>4, LastIsEqual DEF Shape
  <2>2. \A i \in Slot : x[i].items # <<>>
    <3> TAKE i \in Slot
    <3>1. Len(x[i].items) * k = n
      BY <2>1
    <3>2. Len(x[i].items) # 0
      BY <1>1, <3>1
    <3> QED
      BY <3>2
  <2> QED
    BY <1>3, <2>1, <2>2 DEF Sound
<1>5. CASE ~args.equal
  <2>1. Full(x)
    BY <1>1, <1>5, LastIsFull DEF Shape
  <2> QED
    BY <1>3, <1>5, <2>1 DEF Sound, Full
<1> QED
  BY <1>4, <1>5

-----------------------------------------------------------------------------
(* The invariant along a call.                                             *)

LEMMA InitIInv == Init => IInv
<1> SUFFICES ASSUME Init PROVE IInv
  OBVIOUS
<1>1. ArgsOK
  <2>1. /\ args.k \in Nat \ {0} /\ args.equal \in BOOLEAN
        /\ args.seqlen \in UNION {[1 .. m -> 0 .. MaxLen] : m \in 1 .. MaxRows}
    BY PartitionAssumption DEF Init, Args
  <2>2. PICK m \in 1 .. MaxRows : args.seqlen \in [1 .. m -> 0 .. MaxLen]
    BY <2>1
  <2>3. m \in Nat \ {0} /\ args.seqlen \in [1 .. m -> Nat]
    BY <2>2, PartitionAssumption
  <2>4. args.seqlen \in Seq(Nat) /\ Len(args.seqlen) = m
    BY <2>3
  <2> QED
    BY <2>1, <2>3, <2>4 DEF ArgsOK
<1> QED
  BY <1>1 DEF Init, IInv

LEMMA StepIInv == IInv /\ [Next]_vars => IInv'
<1> SUFFICES ASSUME IInv, [Next]_vars PROVE IInv'
  OBVIOUS
<1>1. ArgsOK
  BY DEF IInv
<1>2. ASSUME args' = args
      PROVE  /\ ArgsOK' /\ (Refused' <=> Refused) /\ Slot' = Slot /\ Row' = Row
             /\ \A x : (Single(x)' <=> Single(x)) /\ (Shape(x)' <=> Shape(x))
  BY <1>1, <1>2 DEF ArgsOK, Refused, Slot, Row, Single, Shape, Descending, Fair,
                    SetType, SameLength, Full, Sparse, Spread, n, k
<1>3. ASSUME UNCHANGED <<args, states>>
      PROVE  Kept' = Kept /\ Once' = Once
  BY <1>3 DEF Kept, Once, Slot, Row, n, k
<1>4. CASE UNCHANGED vars
  BY <1>2, <1>3, <1>4 DEF IInv, vars
<1>5. CASE Refuse
  BY <1>2, <1>3, <1>5 DEF IInv, Refuse
<1>6. CASE Push
  <2>1. ~Refused /\ states' = Pushed /\ args' = args /\ status' = status
    BY <1>6 DEF Push
  <2>2. (\A x \in states : Single(x) /\ Shape(x))' /\ Kept' /\ Once'
    BY <1>1, <2>1, PushedStates
  <2> QED
    BY <1>2, <2>1, <2>2 DEF IInv
<1>7. CASE PopAndMerge
  <2>0. PICK x \in states, y \in states :
          x # y /\ \E z \in Merge(x, y) : states' = (states \ {x, y}) \cup {z}
    BY <1>7 DEF PopAndMerge
  <2>1. PICK z \in Merge(x, y) : x # y /\ states' = (states \ {x, y}) \cup {z}
    BY <2>0
  <2>2. args' = args /\ status' = status
    BY <1>7 DEF PopAndMerge
  <2>3. /\ Single(x) /\ Shape(x) /\ Single(y) /\ Shape(y)
        /\ Kept /\ Once /\ ~Refused
    BY DEF IInv
  <2>4. \A w \in states : w \in [Slot -> SetType]
    BY DEF IInv, Single
  <2>5. Single(z)
    BY <1>1, <2>3, MergedSingle
  <2>6. Shape(z)
    BY <1>1, <2>3, <2>5, MergedShape
  <2>7. Once'
    BY <1>1, <2>1, <2>2, <2>3, <2>4, MergedOnce
  <2>8. Kept'
    <3> SUFFICES ASSUME NEW r \in Row
                 PROVE  \E w \in states' : \E i \in Slot : r \in Items(w[i])
      BY <1>2, <2>2 DEF Kept
    <3>1. PICK w \in states, i \in Slot : r \in Items(w[i])
      BY <2>3 DEF Kept
    <3>2. CASE w = x \/ w = y
      <4>1. \E j \in Slot : r \in Items(z[j])
        BY <1>1, <2>4, <3>1, <3>2, MergedKept
      <4> QED
        BY <2>1, <4>1
    <3>3. CASE w # x /\ w # y
      BY <2>1, <3>1, <3>3
    <3> QED
      BY <3>2, <3>3
  <2>9. \A w \in states' : Single(w) /\ Shape(w)
    BY <2>1, <2>5, <2>6 DEF IInv
  <2> QED
    BY <1>2, <2>2, <2>3, <2>7, <2>8, <2>9 DEF IInv
<1>8. CASE Return
  <2>1. PICK x \in states : /\ states = {x}
                            /\ status' = IF Sound(x) THEN "returned" ELSE "raised"
    BY <1>8 DEF Return
  <2>2. UNCHANGED <<args, states>>
    BY <1>8 DEF Return
  <2>3. Single(x) /\ Shape(x) /\ Kept /\ Once /\ ~Refused
    BY DEF IInv
  <2>4. Sound(x)
    BY <1>1, <2>1, <2>3, LastIsSound
  <2>5. status' = "returned"
    BY <2>1, <2>4
  <2> QED
    BY <1>2, <1>3, <2>2, <2>5 DEF IInv
<1> QED
  BY <1>4, <1>5, <1>6, <1>7, <1>8 DEF Next

LEMMA AlwaysIInv == Spec => []IInv
<1>1. Init => IInv
  BY InitIInv
<1>2. IInv /\ [Next]_vars => IInv'
  BY StepIInv
<1> QED
  BY <1>1, <1>2, PTL DEF Spec

(* For every batch and number of parts: at any time of the merging, the    *)
(* largest set of every State has at most the tokens of one row more than  *)
(* its smallest (seqlen_balancing.py:55-62).                               *)
THEOREM SpreadIsBounded == Spec => []SpreadBounded
<1>1. IInv => SpreadBounded
  BY DEF IInv, Single, Fair, SpreadBounded
<1> QED
  BY <1>1, AlwaysIInv, PTL

(* For every batch and number of parts: an AssertionError comes only from  *)
(* the first assertions, for arguments that cannot be met, never from the  *)
(* ones after the merges (seqlen_balancing.py:87, 107-111, 134-145).       *)
THEOREM MergesNeverRaise == Spec => []RaisesOnlyAtEntry
<1>1. IInv => RaisesOnlyAtEntry
  BY DEF IInv, RaisesOnlyAtEntry
<1> QED
  BY <1>1, AlwaysIInv, PTL

-----------------------------------------------------------------------------
(* The sums of the sets, and with them the promise to the callers.         *)

(* The sum a set keeps is that of its rows.                                *)
Weighed(x) ==
  \A i \in Slot : x[i].sum = SumFunctionOnSet(args.seqlen, Items(x[i]))

WInv == IInv /\ \A x \in states : Weighed(x)

LEMMA ItemsAreRows ==
  ASSUME ArgsOK, NEW x \in [Slot -> SetType], NEW i \in Slot
  PROVE  /\ Items(x[i]) \subseteq Row /\ IsFiniteSet(Items(x[i]))
         /\ \A r \in Row : args.seqlen[r] \in Nat
<1>1. x[i].items \in Seq(Row)
  BY DEF SetType
<1>2. Items(x[i]) \subseteq Row
  BY <1>1, ElementOfSeq DEF Items
<1>3. IsFiniteSet(Row)
  BY RowFacts
<1> QED
  BY <1>2, <1>3, FS_Subset, RowFacts

LEMMA JoinedItems ==
  ASSUME NEW S, NEW s, s.items \in Seq(S), NEW t, t.items \in Seq(S),
         NEW u, u.items = s.items \o t.items
  PROVE  Items(u) = Items(s) \cup Items(t)
<1> DEFINE e == s.items
           f == t.items
           g == u.items
<1>1. e \in Seq(S) /\ f \in Seq(S) /\ g = e \o f
  OBVIOUS
<1>2. /\ Items(s) = {e[a] : a \in DOMAIN e}
      /\ Items(t) = {f[a] : a \in DOMAIN f}
      /\ Items(u) = {g[a] : a \in DOMAIN g}
  BY DEF Items
<1> HIDE DEF e, f, g
<1>3. ASSUME NEW a \in DOMAIN g
      PROVE  \/ a \in DOMAIN e /\ g[a] = e[a]
             \/ a - Len(e) \in DOMAIN f /\ g[a] = f[a - Len(e)]
  BY <1>1
<1>4. /\ \A a \in DOMAIN e : a \in DOMAIN g /\ g[a] = e[a]
      /\ \A a \in DOMAIN f : /\ Len(e) + a \in DOMAIN g
                             /\ g[Len(e) + a] = f[a]
  BY <1>1, InConcat
<1> QED
  BY <1>2, <1>3, <1>4

(* Two sets that are joined have no row in common.                         *)
LEMMA MergedWeighed ==
  ASSUME ArgsOK, NEW x \in states, NEW y \in states, x # y, Once,
         x \in [Slot -> SetType], y \in [Slot -> SetType],
         Weighed(x), Weighed(y), NEW z \in Merge(x, y)
  PROVE  Weighed(z)
<1>1. Crossed(x, y) \in [Slot -> SetType] /\ z \in Sorted(Crossed(x, y))
  BY CrossedType DEF Merge, Crossed
<1>2. PICK p \in Shuffles :
        \A i \in Slot : p[i] \in Slot /\ z[i] = Crossed(x, y)[p[i]]
  BY <1>1, SortedSets
<1> SUFFICES ASSUME NEW i \in Slot
             PROVE  z[i].sum = SumFunctionOnSet(args.seqlen, Items(z[i]))
  BY DEF Weighed
<1> DEFINE f == args.seqlen
           s == x[p[i]]
           t == y[k + 1 - p[i]]
<1>3. p[i] \in Slot /\ k + 1 - p[i] \in Slot /\ z[i] = Union(s, t)
  BY <1>2, CrossedType
<1>4. z[i].sum = s.sum + t.sum /\ z[i].items = s.items \o t.items
  <2> HIDE DEF s, t
  <2> QED
    BY <1>3, UnionFields
<1>5. s.sum = SumFunctionOnSet(f, Items(s)) /\ t.sum = SumFunctionOnSet(f, Items(t))
  BY <1>3 DEF Weighed
<1>6. Items(s) \cap Items(t) = {}
  BY <1>3 DEF Once, Items
<1>7. Items(z[i]) = Items(s) \cup Items(t)
  <2>1. s.items \in Seq(Row) /\ t.items \in Seq(Row)
    BY <1>3 DEF SetType
  <2> HIDE DEF s, t
  <2> QED
    BY <1>4, <2>1, JoinedItems
<1>8. /\ IsFiniteSet(Items(s)) /\ IsFiniteSet(Items(t))
      /\ \A r \in Items(s) \cup Items(t) : f[r] \in Int
  <2>1. /\ Items(s) \subseteq Row /\ IsFiniteSet(Items(s))
        /\ \A r \in Row : f[r] \in Nat
    BY <1>3, ItemsAreRows
  <2>2. Items(t) \subseteq Row /\ IsFiniteSet(Items(t))
    BY <1>3, ItemsAreRows
  <2> QED
    BY <2>1, <2>2
<1> HIDE DEF f, s, t
<1>9. SumFunctionOnSet(f, Items(s) \cup Items(t))
        = SumFunctionOnSet(f, Items(s)) + SumFunctionOnSet(f, Items(t))
  BY <1>6, <1>8, SumDisjoint
<1> QED
  BY <1>4, <1>5, <1>7, <1>9 DEF f

LEMMA PushedWeighed ==
  ASSUME ArgsOK, ~Refused, NEW x \in Pushed
  PROVE  Weighed(x)
<1> SUFFICES ASSUME NEW i \in Slot
             PROVE  x[i].sum = SumFunctionOnSet(args.seqlen, Items(x[i]))
  BY DEF Weighed
<1>1. ASSUME NEW r \in Row, x[i] = Singleton(r)
      PROVE  x[i].sum = SumFunctionOnSet(args.seqlen, Items(x[i]))
  <2>1. x[i].sum = args.seqlen[r] /\ x[i].items = <<r>>
    BY <1>1, SingletonFields
  <2>2. Items(x[i]) = {r}
    BY <2>1 DEF Items
  <2>3. args.seqlen[r] \in Int
    BY RowFacts
  <2> QED
    BY <2>1, <2>2, <2>3, SumOne
<1>2. ASSUME x[i] = EmptySet
      PROVE  x[i].sum = SumFunctionOnSet(args.seqlen, Items(x[i]))
  <2>1. x[i].sum = 0 /\ Items(x[i]) = {}
    BY <1>2 DEF EmptySet, Items
  <2> QED
    BY <2>1, SumEmpty
<1>3. CASE args.equal
  <2>1. PICK g \in 1 .. n \div k : x = Group(g)
    BY <1>3 DEF Pushed
  <2>2. g * k + 1 - i \in 1 .. n
    BY <1>3, GroupRanks
  <2>3. RowAt(g * k + 1 - i) \in Row /\ x[i] = Singleton(RowAt(g * k + 1 - i))
    BY <2>1, <2>2, RowsAtRanks DEF Group
  <2> QED
    BY <1>1, <2>3
<1>4. CASE ~args.equal
  <2>1. PICK r \in Row : x = Alone(r)
    BY <1>4 DEF Pushed
  <2>2. x[i] = Singleton(r) \/ x[i] = EmptySet
    BY <2>1 DEF Alone
  <2> QED
    BY <1>1, <1>2, <2>2
<1> QED
  BY <1>3, <1>4 DEF ArgsOK

LEMMA StepWInv == WInv /\ [Next]_vars => WInv'
<1> SUFFICES ASSUME WInv, [Next]_vars PROVE WInv'
  OBVIOUS
<1>1. IInv /\ IInv' /\ ArgsOK
  BY StepIInv DEF WInv, IInv
<1>2. args' = args
  BY DEF Next, Refuse, Push, PopAndMerge, Return, vars
<1>3. \A x : Weighed(x)' <=> Weighed(x)
  BY <1>2 DEF Weighed, Slot, k
<1>4. CASE states' = states
  BY <1>1, <1>3, <1>4 DEF WInv
<1>5. CASE Push
  <2>1. ~Refused /\ states' = Pushed
    BY <1>5 DEF Push
  <2> QED
    BY <1>1, <1>3, <2>1, PushedWeighed DEF WInv
<1>6. CASE PopAndMerge
  <2>1. PICK x \in states, y \in states :
          x # y /\ \E z \in Merge(x, y) : states' = (states \ {x, y}) \cup {z}
    BY <1>6 DEF PopAndMerge
  <2>2. PICK z \in Merge(x, y) : x # y /\ states' = (states \ {x, y}) \cup {z}
    BY <2>1
  <2>3. x \in [Slot -> SetType] /\ y \in [Slot -> SetType] /\ Once
    BY <1>1 DEF IInv, Single
  <2>4. Weighed(z)
    BY <1>1, <2>2, <2>3, MergedWeighed DEF WInv
  <2> QED
    BY <1>1, <1>3, <2>2, <2>4 DEF WInv
<1> QED
  BY <1>4, <1>5, <1>6 DEF Next, Refuse, Return, vars

LEMMA AlwaysWInv == Spec => []WInv
<1>1. Init => WInv
  BY InitIInv DEF WInv, Init
<1>2. WInv /\ [Next]_vars => WInv'
  BY StepWInv
<1> QED
  BY <1>1, <1>2, PTL DEF Spec

-----------------------------------------------------------------------------
(* A call keeps the promise of BalancedPartition.                          *)

LEMMA PromisedTokens ==
  ASSUME NEW f, NEW S
  PROVE  Promise!Tokens(f, S) = SumFunctionOnSet(f, S)
BY DEF Promise!Tokens, Promise!SumFunctionOnSet, SumFunctionOnSet,
       Promise!FoldFunctionOnSet, FoldFunctionOnSet,
       Promise!MapThenFoldSet, MapThenFoldSet

LEMMA PromisedSize ==
  ASSUME NEW S
  PROVE  Promise!Cardinality(S) = Cardinality(S)
BY DEF Promise!Cardinality, Cardinality

LEMMA PromisedLongest ==
  ASSUME ArgsOK, NEW r \in Row
  PROVE  /\ Promise!Longest(args.seqlen) \in Nat
         /\ args.seqlen[r] <= Promise!Longest(args.seqlen)
<1> DEFINE T == {args.seqlen[q] : q \in Row}
<1>1. DOMAIN args.seqlen = Row
  BY DEF ArgsOK, Row, n
<1>2. T \in SUBSET Nat /\ T # {} /\ args.seqlen[r] \in T
  BY RowFacts
<1>3. IsFiniteSet(T)
  BY RowFacts, ImageOfFinite
<1>4. \E m \in T : \A x \in T : x <= m
  BY <1>2, <1>3, GreatestOfFinite
<1>5. Promise!Longest(args.seqlen) = CHOOSE m \in T : \A x \in T : m >= x
  BY <1>1 DEF Promise!Longest, Promise!RowsOf, Promise!Max
<1> HIDE DEF T
<1>6. \E m \in T : \A x \in T : m >= x
  BY <1>2, <1>4
<1> DEFINE l == CHOOSE m \in T : \A x \in T : m >= x
<1>7. l \in T /\ \A x \in T : l >= x
  BY <1>6
<1> HIDE DEF l
<1>8. Promise!Longest(args.seqlen) = l
  BY <1>5 DEF l
<1> QED
  BY <1>2, <1>7, <1>8

LEMMA LastIsBalanced ==
  ASSUME ArgsOK, NEW x, states = {x}, Single(x), Shape(x), Once, Weighed(x),
         Sound(x)
  PROVE  Promise!Balanced(args.seqlen, args.k, args.equal,
                          [i \in Slot |-> Items(x[i])])
<1> DEFINE parts == [i \in Slot |-> Items(x[i])]
           f == args.seqlen
<1>1. /\ k \in Nat \ {0} /\ Slot = 1 .. k /\ 1 \in Slot /\ k \in Slot
      /\ IsFiniteSet(Row) /\ DOMAIN f = Row
  BY RowFacts DEF ArgsOK, Row, n
<1>2. x \in [Slot -> SetType] /\ Descending(x)
  BY DEF Single
<1>3. DOMAIN parts = Slot /\ \A i \in Slot : parts[i] = Items(x[i])
  OBVIOUS
<1> HIDE DEF parts
<1>4. \A i \in Slot : parts[i] # {}
  <2> TAKE i \in Slot
  <2>1. x[i].items # <<>> /\ x[i].items \in Seq(Row)
    BY <1>2 DEF Sound, SetType
  <2>2. 1 \in DOMAIN x[i].items
    BY <2>1
  <2> QED
    BY <1>3, <2>2 DEF Items
<1>5. Promise!Covers(f, parts)
  <2>1. UNION {parts[i] : i \in DOMAIN parts} = Row
    BY <1>3 DEF Sound
  <2>2. \A i, j \in DOMAIN parts : i # j => parts[i] \cap parts[j] = {}
    BY <1>3 DEF Once, Items
  <2> QED
    BY <1>1, <2>1, <2>2 DEF Promise!Covers, Promise!RowsOf
<1>6. ASSUME args.equal
      PROVE  Promise!SameSize(parts)
  <2>1. ASSUME NEW i \in Slot
        PROVE  /\ Len(x[i].items) \in Nat
               /\ Cardinality(parts[i]) = Len(x[i].items)
    <3> DEFINE s == x[i].items
    <3>1. s \in Seq(Row) /\ Len(s) \in Nat /\ DOMAIN s = 1 .. Len(s)
      BY <1>2 DEF SetType
    <3>2. \A a, b \in DOMAIN s : s[a] = s[b] => a = b
      BY DEF Once
    <3>3. parts[i] = {s[a] : a \in DOMAIN s}
      BY <1>3 DEF Items
    <3> HIDE DEF s
    <3>4. s \in Bijection(1 .. Len(s), parts[i])
      <4>1. s \in [1 .. Len(s) -> parts[i]]
        BY <3>1, <3>3
      <4>2. \A r \in parts[i] : \E a \in 1 .. Len(s) : s[a] = r
        BY <3>1, <3>3
      <4> QED
        BY <3>1, <3>2, <4>1, <4>2 DEF Bijection, Injection, Surjection, IsInjective
    <3>5. ExistsBijection(1 .. Len(s), parts[i])
      BY <3>4 DEF ExistsBijection
    <3>6. IsFiniteSet(1 .. Len(s)) /\ Cardinality(1 .. Len(s)) = Len(s)
      BY <3>1, FS_Interval
    <3>7. Cardinality(1 .. Len(s)) = Cardinality(parts[i])
      BY <3>5, <3>6, FS_Bijection
    <3> QED
      BY <3>1, <3>6, <3>7 DEF s
  <2>2. \A i, j \in Slot : Len(x[i].items) = Len(x[j].items)
    BY <1>6 DEF Shape, SameLength
  <2>3. \A i, j \in Slot : Cardinality(parts[i]) = Cardinality(parts[j])
    <3> TAKE i \in Slot
    <3> TAKE j \in Slot
    <3>1. /\ Cardinality(parts[i]) = Len(x[i].items)
          /\ Cardinality(parts[j]) = Len(x[j].items)
      BY <2>1
    <3> QED
      BY <2>2, <3>1
  <2> QED
    BY <1>3, <2>3, PromisedSize DEF Promise!SameSize
<1>7. Promise!Even(f, parts)
  <2> DEFINE tokens == [i \in DOMAIN parts |-> Promise!Tokens(f, parts[i])]
             longest == Promise!Longest(f)
  <2> SUFFICES ASSUME NEW i \in Slot, NEW j \in Slot
               PROVE  tokens[i] - tokens[j] <= longest
    BY <1>3, Zenon DEF Promise!Even
  <2>1. tokens[i] = x[i].sum /\ tokens[j] = x[j].sum
    BY <1>3, PromisedTokens DEF Weighed
  <2>2. x[i].sum <= x[1].sum /\ x[k].sum <= x[j].sum
    BY <1>1, <1>2, SumsDescend
  <2>3. PICK r \in Row : x[1].sum - x[k].sum <= f[r]
    BY DEF Single, Fair, Spread
  <2>4. longest \in Nat /\ f[r] <= longest /\ f[r] \in Nat
    BY PromisedLongest, RowFacts
  <2>5. \A a \in Slot : x[a].sum \in Nat
    BY <1>2 DEF SetType
  <2> HIDE DEF tokens, longest, f
  <2> QED
    BY <1>1, <2>1, <2>2, <2>3, <2>4, <2>5
<1> QED
  BY <1>1, <1>3, <1>4, <1>5, <1>6, <1>7 DEF Promise!Balanced, parts, k

(* For every batch and number of parts: from outside a call is one step,   *)
(* to an answer whose parts hold every row once, none of them empty, of    *)
(* one size if that was asked for and with no more than the longest row    *)
(* between the tokens of any two, or to an AssertionError for arguments    *)
(* that cannot be met (seqlen_balancing.py:27-213).                        *)
THEOREM KeepsThePromise == Spec => ImplementsPromise
<1>1. Init => Promise!Init
  BY DEF Init, Promise!Init
<1>2. WInv /\ [Next]_vars => [Promise!Next]_<<args, status, answer>>
  <2> SUFFICES ASSUME WInv, [Next]_vars
               PROVE  Promise!Next \/ UNCHANGED <<args, status, answer>>
    OBVIOUS
  <2>1. IInv /\ ArgsOK
    BY DEF WInv, IInv
  <2>2. Promise!Possible(args) <=> ~Refused
    BY <2>1, RowFacts DEF Promise!Possible, Refused, n, k
  <2>3. CASE Refuse
    BY <2>2, <2>3 DEF Refuse, Promise!Next, Promise!Refuse
  <2>4. CASE Return
    <3>1. PICK x \in states :
            /\ states = {x}
            /\ status' = IF Sound(x) THEN "returned" ELSE "raised"
            /\ answer' = IF Sound(x) THEN [i \in Slot |-> Items(x[i])] ELSE answer
      BY <2>4 DEF Return
    <3>2. Single(x) /\ Shape(x) /\ Kept /\ Once /\ ~Refused /\ Weighed(x)
      BY <2>1 DEF IInv, WInv
    <3>3. Sound(x)
      BY <2>1, <3>1, <3>2, LastIsSound
    <3>4. Promise!Balanced(args.seqlen, args.k, args.equal, answer')
      BY <2>1, <3>1, <3>2, <3>3, LastIsBalanced
    <3> QED
      BY <2>2, <2>4, <3>1, <3>2, <3>3, <3>4 DEF Return, Promise!Next, Promise!Return
  <2>5. CASE Push \/ PopAndMerge \/ UNCHANGED vars
    BY <2>5 DEF Push, PopAndMerge, vars
  <2> QED
    BY <2>3, <2>4, <2>5 DEF Next
<1> QED
  BY <1>1, <1>2, AlwaysWInv, PTL DEF Spec, ImplementsPromise, Promise!Spec

-----------------------------------------------------------------------------
(* What callers reckon with.                                               *)

(* A balanced answer is one of those a caller picks from: each row says    *)
(* which part it is in.                                                    *)
LEMMA BalancedIsReckonedWith ==
  ASSUME NEW f, NEW m \in Nat \ {0}, NEW e, NEW parts,
         parts = [i \in 1 .. m |-> parts[i]], Promise!Balanced(f, m, e, parts)
  PROVE  parts \in Promise!Partitions(f, m, e)
<1> DEFINE R  == Promise!RowsOf(f)
           to == [r \in R |-> CHOOSE i \in 1 .. m : r \in parts[i]]
           P(h) == [i \in 1 .. m |-> {r \in R : h[r] = i}]
<1>1. /\ DOMAIN parts = 1 .. m
      /\ UNION {parts[i] : i \in 1 .. m} = R
      /\ \A i, j \in 1 .. m : i # j => parts[i] \cap parts[j] = {}
  BY DEF Promise!Balanced, Promise!Covers
<1> HIDE DEF R
<1>2. ASSUME NEW r \in R
      PROVE  to[r] \in 1 .. m /\ r \in parts[to[r]]
  <2>1. \E i \in 1 .. m : r \in parts[i]
    BY <1>1
  <2> QED
    BY <2>1
<1>3. to \in [R -> 1 .. m]
  BY <1>2
<1> HIDE DEF to
<1>4. ASSUME NEW i \in 1 .. m
      PROVE  parts[i] = {r \in R : to[r] = i}
  <2>1. ASSUME NEW r \in parts[i]
        PROVE  r \in R /\ to[r] = i
    <3>1. r \in R
      BY <1>1
    <3> QED
      BY <1>1, <1>2, <3>1
  <2>2. ASSUME NEW r \in R, to[r] = i
        PROVE  r \in parts[i]
    BY <1>2, <2>2
  <2> QED
    BY <2>1, <2>2
<1>5. parts = P(to)
  BY <1>4, Zenon
<1>6. parts \in {P(h) : h \in [R -> 1 .. m]}
  BY <1>3, <1>5, Zenon
<1> QED
  BY <1>6, Zenon DEF Promise!Partitions, R

(* The answer, once it is given, stays one of those with which the driver  *)
(* (_balance_batch) and the ranks (rearrange_micro_batches) are modelled   *)
(* to go on: so what BatchFlow says of every such answer it says of this.  *)
THEOREM AnswersAreReckonedWith ==
  Spec => [](status = "returned" =>
               answer \in Promise!Partitions(args.seqlen, args.k, args.equal))
<1> DEFINE Reckoned ==
             status = "returned" =>
               answer \in Promise!Partitions(args.seqlen, args.k, args.equal)
<1>1. Init => Reckoned
  BY DEF Init
<1>2. WInv /\ Reckoned /\ [Next]_vars => Reckoned'
  <2> SUFFICES ASSUME WInv, Reckoned, [Next]_vars, status' = "returned"
               PROVE  answer' \in Promise!Partitions(args'.seqlen, args'.k, args'.equal)
    OBVIOUS
  <2>1. IInv /\ ArgsOK
    BY DEF WInv, IInv
  <2>2. args' = args
    BY DEF Next, Refuse, Push, PopAndMerge, Return, vars
  <2>3. CASE Return
    <3>1. PICK x \in states :
            /\ states = {x}
            /\ status' = IF Sound(x) THEN "returned" ELSE "raised"
            /\ answer' = IF Sound(x) THEN [i \in Slot |-> Items(x[i])] ELSE answer
      BY <2>3 DEF Return
    <3>2. Single(x) /\ Shape(x) /\ Kept /\ Once /\ Weighed(x) /\ Sound(x)
      BY <2>1, <3>1 DEF IInv, WInv
    <3> DEFINE parts == [i \in Slot |-> Items(x[i])]
    <3>3. answer' = parts
      BY <3>1, <3>2
    <3>4. Promise!Balanced(args.seqlen, args.k, args.equal, parts)
      BY <2>1, <3>1, <3>2, LastIsBalanced
    <3>5. Slot = 1 .. args.k /\ args.k \in Nat \ {0}
      BY <2>1, RowFacts DEF ArgsOK, k
    <3>6. parts = [i \in 1 .. args.k |-> parts[i]]
      BY <3>5
    <3> HIDE DEF parts
    <3>7. parts \in Promise!Partitions(args.seqlen, args.k, args.equal)
      BY <3>4, <3>5, <3>6, BalancedIsReckonedWith
    <3> QED
      BY <2>2, <3>3, <3>7
  <2>4. CASE Refuse \/ Push \/ PopAndMerge \/ UNCHANGED vars
    <3>1. status' = status /\ answer' = answer
      BY <2>4 DEF Refuse, Push, PopAndMerge, vars
    <3> QED
      BY <2>2, <3>1
  <2> QED
    BY <2>3, <2>4 DEF Next
<1> QED
  BY <1>1, <1>2, AlwaysWInv, PTL DEF Spec
=============================================================================
