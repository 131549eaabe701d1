-------------------------- MODULE BatchFlowProofs ---------------------------
(***************************************************************************)
(* BatchFlow for every number of ranks, prompts and answers, and whatever  *)
(* the samples have of tokens: rows and columns stay together, a gradient  *)
(* is that of its mini-batch, every sample is trained on as often, the     *)
(* micro-batches fit, the ranks stay in step, and no assertion fails.      *)
(*                                                                         *)
(* The first half is about data: parts of equal size and back (Split,      *)
(* Chunk, Padded), the order the balancing moves the rows to (Order), the  *)
(* order of the micro-batches and its inverse (InOrder, Restored), how     *)
(* many micro-batches are enough (Count).  The second half is the          *)
(* inductive invariant Inv: Driven, what the driver's columns are between  *)
(* two calls; Awake, where the ranks are in a call (InStep), what a rank   *)
(* has before it (Deals), what it has done (Gathers) and how often every   *)
(* row was trained on (Counted).  One lemma per action shows that it       *)
(* keeps Inv.                                                              *)
(***************************************************************************)
EXTENDS BatchFlow, DataLemmas

LEMMA Constants ==
  /\ DP \in Nat \ {0} /\ Prompts \in Nat \ {0} /\ N \in Nat \ {0}
  /\ ValRows \in Nat \ {0} /\ MaxTokenLen \in Nat \ {0} /\ Mini \in Nat \ {0}
  /\ Micro \in Nat \ {0} /\ InferMicro \in Nat \ {0} /\ Epochs \in Nat \ {0}
BY BatchAssumption

-----------------------------------------------------------------------------
(* Rows in parts of b: the j-th row of the i-th part.                      *)
At(b, i, j) == (i - 1) * b + j

LEMMA AtFacts ==
  ASSUME NEW b \in Nat \ {0}, NEW i \in Nat \ {0}, NEW j \in 1 .. b
  PROVE  /\ At(b, i, j) \in Nat \ {0}
         /\ (At(b, i, j) - 1) \div b = i - 1
         /\ (At(b, i, j) - 1) % b = j - 1
         /\ \A n \in Nat : i <= n => At(b, i, j) <= n * b
<1>1. i - 1 \in Nat /\ j - 1 \in 0 .. b - 1 /\ (i - 1) * b \in Nat
  OBVIOUS
<1>2. At(b, i, j) \in Nat \ {0} /\ At(b, i, j) - 1 = (i - 1) * b + (j - 1)
  BY <1>1 DEF At
<1>3. ((i - 1) * b + (j - 1)) \div b = i - 1 /\ ((i - 1) * b + (j - 1)) % b = j - 1
  BY <1>1, DivisionIsUnique
<1>4. ASSUME NEW n \in Nat, i <= n
      PROVE  At(b, i, j) <= n * b
  <2>1. (i - 1) * b + b <= n * b
    BY <1>1, <1>4, Multiples
  <2>2. n * b \in Nat
    OBVIOUS
  <2> QED
    BY <1>1, <2>1, <2>2 DEF At
<1> QED
  BY <1>2, <1>3, <1>4

LEMMA AtIsUnique ==
  ASSUME NEW b \in Nat \ {0}, NEW h \in Nat \ {0}, NEW i \in Nat \ {0},
         NEW j \in 1 .. b, NEW k \in 1 .. b, At(b, h, j) = At(b, i, k)
  PROVE  h = i /\ j = k
<1>1. (At(b, h, j) - 1) \div b = h - 1 /\ (At(b, h, j) - 1) % b = j - 1
  BY AtFacts
<1>2. (At(b, i, k) - 1) \div b = i - 1 /\ (At(b, i, k) - 1) % b = k - 1
  BY AtFacts
<1>3. h - 1 = i - 1 /\ j - 1 = k - 1
  BY <1>1, <1>2
<1> QED
  BY <1>3

LEMMA AtMeetsAll ==
  ASSUME NEW b \in Nat \ {0}, NEW n \in Nat, NEW p \in 1 .. n * b
  PROVE  LET i == ((p - 1) \div b) + 1
             j == ((p - 1) % b) + 1
         IN  i \in 1 .. n /\ j \in 1 .. b /\ p = At(b, i, j)
<1> DEFINE d == (p - 1) \div b
           e == (p - 1) % b
<1>1. p \in Nat /\ p - 1 \in Nat /\ n * b \in Nat /\ p <= n * b
  OBVIOUS
<1>2. d \in Nat /\ e \in 0 .. b - 1 /\ p - 1 = d * b + e
  BY <1>1, Division
<1> HIDE DEF d, e
<1>3. ~(n <= d)
  <2> SUFFICES ASSUME n <= d PROVE FALSE
    OBVIOUS
  <2>1. n * b <= d * b /\ d * b \in Nat
    <3>1. CASE n = d
      BY <1>1, <1>2, <3>1
    <3>2. CASE n < d
      <4>1. n * b + b <= d * b /\ d * b \in Nat
        BY <1>2, <3>2, Multiples
      <4> QED
        BY <1>1, <4>1
    <3> QED
      BY <1>2, <3>1, <3>2
  <2> QED
    BY <1>1, <1>2, <2>1
<1>4. d + 1 - 1 = d /\ d * b \in Nat
  BY <1>2
<1>5. p = (d + 1 - 1) * b + (e + 1)
  BY <1>1, <1>2, <1>4
<1> QED
  BY <1>2, <1>3, <1>5 DEF d, e, At

-----------------------------------------------------------------------------
(* Cutting data into parts.                                                *)

LEMMA CeilDivBounds ==
  ASSUME NEW a \in Nat, NEW b \in Nat \ {0}
  PROVE  /\ CeilDiv(a, b) \in Nat /\ CeilDiv(a, b) * b \in Nat
         /\ a <= CeilDiv(a, b) * b /\ CeilDiv(a, b) * b < a + b
         /\ a # 0 => CeilDiv(a, b) # 0
<1> DEFINE c == (a + b - 1) \div b
           d == (a + b - 1) % b
<1>1. c \in Nat /\ d \in 0 .. b - 1 /\ a + b - 1 = c * b + d
  <2>1. a + b - 1 \in Nat
    OBVIOUS
  <2> QED
    BY <2>1, Division
<1>2. CeilDiv(a, b) = c
  BY DEF CeilDiv
<1> HIDE DEF c, d
<1>3. c * b \in Nat
  BY <1>1
<1>4. c = 0 => c * b = 0
  BY <1>1
<1> QED
  BY <1>1, <1>2, <1>3, <1>4

(* Where the parts of a batch begin and end. *)
LEMMA Bounds ==
  ASSUME NEW n \in Nat, NEW size \in Nat \ {0}, NEW i \in 1 .. CeilDiv(n, size)
  PROVE  /\ (i - 1) * size \in Nat /\ i * size \in Nat
         /\ i * size = (i - 1) * size + size
         /\ (i - 1) * size < n
         /\ i < CeilDiv(n, size) => i * size < n
         /\ i = CeilDiv(n, size) => n <= i * size
<1> DEFINE c == CeilDiv(n, size)
<1>1. c \in Nat /\ c * size \in Nat /\ n <= c * size /\ c * size < n + size
  BY CeilDivBounds
<1> HIDE DEF c
<1>2. i \in Nat /\ i - 1 \in Nat /\ i <= c
  BY <1>1 DEF c
<1>3. (i - 1) * size \in Nat /\ i * size \in Nat /\ i * size = (i - 1) * size + size
  BY <1>2
<1>4. i < c => i * size + size <= c * size
  BY <1>1, <1>2, Multiples
<1>5. CASE i = c
  BY <1>1, <1>3, <1>5 DEF c
<1>6. CASE i < c
  BY <1>1, <1>3, <1>4, <1>6 DEF c
<1> QED
  BY <1>1, <1>2, <1>5, <1>6

(* The i-th part. *)
LEMMA SplitPart ==
  ASSUME NEW data \in Seq(Nat), NEW size \in Nat \ {0},
         NEW i \in 1 .. CeilDiv(Len(data), size)
  PROVE  /\ Split(data, size)[i] \in Seq(Nat)
         /\ Len(Split(data, size)[i]) \in 1 .. size
         /\ Len(Split(data, size)[i]) = IF i * size < Len(data) THEN size
                                        ELSE Len(data) - (i - 1) * size
         /\ \A j \in 1 .. Len(Split(data, size)[i]) :
              /\ At(size, i, j) \in 1 .. Len(data)
              /\ Split(data, size)[i][j] = data[At(size, i, j)]
<1> DEFINE p    == Split(data, size)[i]
           from == (i - 1) * size
           to   == IF i * size < Len(data) THEN i * size ELSE Len(data)
<1>1. Len(data) \in Nat
  OBVIOUS
<1>2. /\ from \in Nat /\ i * size \in Nat /\ i * size = from + size /\ from < Len(data)
  BY <1>1, Bounds
<1>3. p = SubSeq(data, from + 1, to)
  BY DEF Split
<1> HIDE DEF p, from
<1>4. to \in Nat /\ from + 1 \in 1 .. Len(data) /\ to \in from + 1 .. Len(data)
  BY <1>1, <1>2
<1>5. to = IF i * size < Len(data) THEN from + size ELSE Len(data)
  BY <1>2
<1> HIDE DEF to
<1>6. \A j \in from + 1 .. to : data[j] \in Nat
  BY <1>4
<1>7. /\ p = [j \in 1 .. to - from |-> data[from + j]]
      /\ Len(p) = to - from
  BY <1>1, <1>2, <1>3, <1>4
<1>8. p \in Seq(Nat)
  BY <1>3, <1>4, SubSeqProperties
<1>9. \A j \in 1 .. to - from : from + j \in 1 .. Len(data) /\ p[j] = data[from + j]
  BY <1>1, <1>2, <1>4, <1>7
<1>10. Len(p) = IF i * size < Len(data) THEN size ELSE Len(data) - from
  BY <1>1, <1>2, <1>5, <1>7
<1>11. Len(p) \in 1 .. size
  BY <1>1, <1>2, <1>10
<1>12. \A j \in 1 .. Len(p) : from + j \in 1 .. Len(data) /\ p[j] = data[from + j]
  BY <1>7, <1>9
<1> QED
  BY <1>8, <1>10, <1>11, <1>12 DEF p, from, At

LEMMA SplitType ==
  ASSUME NEW data \in Seq(Nat), NEW size \in Nat \ {0}
  PROVE  /\ Split(data, size) \in Seq(Seq(Nat))
         /\ Len(Split(data, size)) = CeilDiv(Len(data), size)
         /\ CeilDiv(Len(data), size) \in Nat
         /\ DOMAIN Split(data, size) = 1 .. CeilDiv(Len(data), size)
<1> DEFINE c == CeilDiv(Len(data), size)
           s == Split(data, size)
<1>1. c \in Nat
  <2>1. Len(data) \in Nat
    OBVIOUS
  <2> QED
    BY <2>1, CeilDivBounds
<1>2. \A i \in 1 .. c : s[i] \in Seq(Nat)
  BY SplitPart
<1>3. s = [i \in 1 .. c |-> s[i]]
  BY DEF Split
<1> HIDE DEF c, s
<1>4. s \in [1 .. c -> Seq(Nat)]
  BY <1>2, <1>3
<1>5. s \in Seq(Seq(Nat)) /\ Len(s) = c /\ DOMAIN s = 1 .. c
  BY <1>1, <1>4
<1> QED
  BY <1>1, <1>5 DEF c, s

(* Nothing is lost, and the order is kept. *)
LEMMA SplitAndBack ==
  ASSUME NEW data \in Seq(Nat), NEW size \in Nat \ {0}
  PROVE  FlattenSeq(Split(data, size)) = data
<1> DEFINE c   == CeilDiv(Len(data), size)
           s   == Split(data, size)
           cut == [i \in 0 .. c |-> IF i * size < Len(data) THEN i * size ELSE Len(data)]
<1>1. /\ s \in Seq(Seq(Nat)) /\ Len(s) = c /\ c \in Nat /\ Len(data) \in Nat
  BY SplitType
<1>2. cut[0] = 0
  <2>1. 0 * size = 0 /\ 0 \in 0 .. c
    BY <1>1
  <2> QED
    BY <1>1, <2>1
<1>3. cut[c] = Len(data)
  <2>1. Len(data) <= c * size /\ c * size \in Nat
    BY <1>1, CeilDivBounds
  <2>2. c \in 0 .. c
    BY <1>1
  <2> QED
    BY <1>1, <2>1, <2>2
<1>4. \A i \in 0 .. c : cut[i] \in 0 .. Len(data)
  <2> TAKE i \in 0 .. c
  <2>1. i * size \in Nat
    BY <1>1
  <2> QED
    BY <1>1, <2>1
<1>5. ASSUME NEW i \in 1 .. c
      PROVE  cut[i - 1] <= cut[i] /\ s[i] = SubSeq(data, cut[i - 1] + 1, cut[i])
  <2>1. /\ (i - 1) * size \in Nat /\ i * size \in Nat
        /\ i * size = (i - 1) * size + size /\ (i - 1) * size < Len(data)
    BY <1>1, Bounds
  <2>2. i \in 0 .. c /\ i - 1 \in 0 .. c
    BY <1>1
  <2>3. /\ cut[i - 1] = (i - 1) * size
        /\ cut[i] = IF i * size < Len(data) THEN i * size ELSE Len(data)
    BY <2>1, <2>2
  <2>4. s[i] = SubSeq(data, (i - 1) * size + 1,
                      IF i * size < Len(data) THEN i * size ELSE Len(data))
    BY DEF Split
  <2> HIDE DEF cut, s
  <2> QED
    BY <1>1, <2>1, <2>3, <2>4
<1> HIDE DEF c, s, cut
<1> QED
  BY <1>1, <1>2, <1>3, <1>4, <1>5, FlattenPieces DEF s

(* The chunks a call sends to the ranks. *)
LEMMA Chunks ==
  ASSUME NEW data \in Seq(Nat), NEW q \in Nat \ {0}, Len(data) = DP * q
  PROVE  /\ Len(data) \div DP = q /\ Len(data) % DP = 0
         /\ \A r \in Rank : /\ Chunk(data, r) \in Seq(Nat)
                            /\ Len(Chunk(data, r)) = q
                            /\ \A j \in 1 .. q : /\ At(q, r, j) \in 1 .. Len(data)
                                                 /\ Chunk(data, r)[j] = data[At(q, r, j)]
         /\ [r \in Rank |-> Chunk(data, r)] = Split(data, q)
<1>1. DP \in Nat \ {0} /\ DP * q \in Nat /\ DP * q = q * DP /\ Len(data) \in Nat
  BY Constants
<1>2. Len(data) \div DP = q /\ Len(data) % DP = 0
  <2>1. 0 \in 0 .. DP - 1 /\ q * DP + 0 = Len(data)
    BY <1>1
  <2> QED
    BY <1>1, <2>1, DivisionIsUnique
<1>3. CeilDiv(Len(data), q) = DP
  <2>1. q - 1 \in 0 .. q - 1 /\ DP * q + (q - 1) = Len(data) + q - 1
    BY <1>1
  <2>2. (DP * q + (q - 1)) \div q = DP
    BY <1>1, <2>1, DivisionIsUnique
  <2> QED
    BY <2>1, <2>2 DEF CeilDiv
<1>4. ASSUME NEW r \in Rank
      PROVE  /\ Chunk(data, r) \in Seq(Nat)
             /\ Len(Chunk(data, r)) = q
             /\ \A j \in 1 .. q : /\ At(q, r, j) \in 1 .. Len(data)
                                  /\ Chunk(data, r)[j] = data[At(q, r, j)]
  <2>1. r \in 1 .. CeilDiv(Len(data), q) /\ Chunk(data, r) = Split(data, q)[r]
    BY <1>2, <1>3 DEF Rank, Chunk
  <2>2. /\ (r - 1) * q \in Nat /\ r * q \in Nat /\ r * q = (r - 1) * q + q
        /\ r < DP => r * q < Len(data)
        /\ r = DP => Len(data) <= r * q
    BY <1>1, <1>3, <2>1, Bounds
  <2>3. r = DP => r * q = Len(data)
    BY <1>1
  <2>4. IF r * q < Len(data) THEN q = q ELSE Len(data) - (r - 1) * q = q
    BY <1>1, <2>2, <2>3 DEF Rank
  <2>5. /\ Split(data, q)[r] \in Seq(Nat)
        /\ Len(Split(data, q)[r])
             = IF r * q < Len(data) THEN q ELSE Len(data) - (r - 1) * q
        /\ \A j \in 1 .. Len(Split(data, q)[r]) :
             /\ At(q, r, j) \in 1 .. Len(data)
             /\ Split(data, q)[r][j] = data[At(q, r, j)]
    <3>1. r \in 1 .. CeilDiv(Len(data), q)
      BY <2>1
    <3>2. Split(data, q)[r] \in Seq(Nat)
      BY <3>1, SplitPart
    <3>3. Len(Split(data, q)[r])
            = IF r * q < Len(data) THEN q ELSE Len(data) - (r - 1) * q
      BY <3>1, SplitPart
    <3>4. \A j \in 1 .. Len(Split(data, q)[r]) :
             /\ At(q, r, j) \in 1 .. Len(data)
             /\ Split(data, q)[r][j] = data[At(q, r, j)]
      BY <3>1, SplitPart
    <3> QED
      BY <3>2, <3>3, <3>4
  <2> QED
    BY <2>1, <2>4, <2>5
<1>5. [r \in Rank |-> Chunk(data, r)] = Split(data, q)
  BY <1>2, <1>3 DEF Rank, Chunk, Split
<1> QED
  BY <1>2, <1>4, <1>5

(* All rows in one part. *)
LEMMA OnePart ==
  ASSUME NEW data \in Seq(Nat), Len(data) # 0
  PROVE  CeilDiv(Len(data), Len(data)) = 1 /\ Split(data, Len(data))[1] = data
<1> DEFINE n == Len(data)
<1>1. n \in Nat \ {0}
  OBVIOUS
<1> HIDE DEF n
<1>2. CeilDiv(n, n) = 1
  <2>1. n - 1 \in 0 .. n - 1 /\ 1 * n + (n - 1) = n + n - 1
    BY <1>1
  <2>2. (1 * n + (n - 1)) \div n = 1
    BY <1>1, <2>1, DivisionIsUnique
  <2> QED
    BY <2>1, <2>2 DEF CeilDiv
<1>3. 1 * n = n /\ (1 - 1) * n = 0
  BY <1>1
<1>4. Split(data, n)[1] = SubSeq(data, 1, Len(data))
  <2>1. 1 \in 1 .. CeilDiv(Len(data), n) /\ n = Len(data)
    BY <1>2 DEF n
  <2>2. Split(data, n)[1] = SubSeq(data, (1 - 1) * n + 1,
                                   IF 1 * n < Len(data) THEN 1 * n ELSE Len(data))
    BY <2>1 DEF Split
  <2>3. (1 - 1) * n + 1 = 1 /\ ~(1 * n < Len(data))
    BY <1>1, <1>3, <2>1
  <2> QED
    BY <2>2, <2>3
<1>5. SubSeq(data, 1, Len(data)) = data
  BY SubSeqFull
<1> QED
  BY <1>2, <1>4, <1>5 DEF n

-----------------------------------------------------------------------------
(* pad_dataproto_to_divisor makes the validation batch divisible, and      *)
(* unpad_dataproto gives back what was there before.                       *)
LEMMA Padding ==
  /\ Padded(ValBatch) \in Seq(Nat)
  /\ \E q \in Nat \ {0} : Len(Padded(ValBatch)) = DP * q
  /\ Unpadded(Padded(ValBatch), ValRows) = ValBatch
<1> DEFINE n == ValRows
           p == PadSize(n)
           s == ValBatch
           t == [i \in 1 .. p |-> s[((i - 1) % n) + 1]]
<1>1. n \in Nat \ {0} /\ DP \in Nat \ {0}
  BY Constants
<1>2. s \in Seq(Nat) /\ Len(s) = n
  BY <1>1 DEF ValBatch
<1>3. p \in Nat /\ \E q \in Nat \ {0} : n + p = DP * q
  <2> DEFINE a == n \div DP
             m == n % DP
  <2>1. a \in Nat /\ m \in 0 .. DP - 1 /\ n = a * DP + m
    BY <1>1, Division
  <2>2. p = IF m = 0 THEN 0 ELSE DP - m
    BY DEF PadSize
  <2> HIDE DEF a, m, p, n
  <2>3. CASE m = 0
    <3>1. a # 0
      BY <1>1, <2>1, <2>3
    <3>2. p = 0 /\ n + p = DP * a
      BY <1>1, <2>1, <2>2, <2>3
    <3> QED
      BY <2>1, <3>1, <3>2
  <2>4. CASE m # 0
    <3>1. p = DP - m
      BY <2>2, <2>4
    <3>2. n + p = DP * (a + 1)
      BY <1>1, <2>1, <3>1
    <3> QED
      BY <1>1, <2>1, <3>1, <3>2
  <2> QED
    BY <2>3, <2>4
<1>4. Padded(s) = s \o t
  BY <1>2 DEF Padded
<1>5. t \in Seq(Nat) /\ Len(t) = p
  <2>1. \A i \in 1 .. p : s[((i - 1) % n) + 1] \in Nat
    <3> TAKE i \in 1 .. p
    <3>1. i - 1 \in Nat
      BY <1>3
    <3>2. (i - 1) % n \in 0 .. n - 1
      BY <1>1, <3>1, Division
    <3>3. ((i - 1) % n) + 1 \in 1 .. n
      BY <1>1, <3>2
    <3> QED
      BY <3>3 DEF ValBatch
  <2> HIDE DEF p, s, n
  <2> QED
    BY <1>3, <2>1
<1> HIDE DEF t, p
<1>6. s \o t \in Seq(Nat) /\ Len(s \o t) = n + p
  BY <1>2, <1>5
<1>7. Unpadded(s \o t, n) = SubSeq(s \o t, 1, n)
  BY <1>1, <1>3, <1>6, SMTT(30) DEF Unpadded, p
<1> HIDE DEF s, n
<1>8. SubSeq(s \o t, 1, n) = s
  BY <1>1, <1>2, <1>5, <1>6
<1> QED
  BY <1>3, <1>4, <1>6, <1>7, <1>8 DEF s, n

-----------------------------------------------------------------------------
(* The elements of a set of numbers in ascending order: each of them once. *)
LEMMA AscendingFacts ==
  ASSUME NEW S \in SUBSET Nat, IsFiniteSet(S)
  PROVE  /\ Cardinality(S) \in Nat
         /\ Ascending(S) \in Seq(S) /\ Len(Ascending(S)) = Cardinality(S)
         /\ DOMAIN Ascending(S) = 1 .. Cardinality(S)
         /\ \A i \in 1 .. Cardinality(S) : Ascending(S)[i] \in S
         /\ \A i, j \in 1 .. Cardinality(S) : Ascending(S)[i] = Ascending(S)[j] => i = j
         /\ \A x \in S : \E i \in 1 .. Cardinality(S) : Ascending(S)[i] = x
<1> DEFINE R == {p \in S \X S : p[1] < p[2]}
           n == Cardinality(S)
           c(x) == Cardinality({y \in S : y < x})
           f == Ascending(S)
<1>1. n \in Nat
  BY FS_CardinalityType
<1>2. \A x, y \in S : <<x, y>> \in R <=> x < y
  OBVIOUS
<1>3. \A x \in S : Below(S, R, x) = {y \in S : y < x}
  BY <1>2 DEF Below
<1>4. StrictOrder(S, R)
  <2> HIDE DEF R
  <2>1. \A x \in S : ~(x < x)
    OBVIOUS
  <2>2. \A x, y, z \in S : x < y /\ y < z => x < z
    OBVIOUS
  <2>3. \A x, y \in S : x = y \/ x < y \/ y < x
    OBVIOUS
  <2> QED
    BY <1>2, <2>1, <2>2, <2>3 DEF StrictOrder
<1> HIDE DEF R
<1>5. /\ \A x \in S : Cardinality(Below(S, R, x)) \in 0 .. Cardinality(S) - 1
      /\ \A x, y \in S : Cardinality(Below(S, R, x)) = Cardinality(Below(S, R, y))
                              => x = y
      /\ \A i \in 0 .. Cardinality(S) - 1 :
              \E x \in S : Cardinality(Below(S, R, x)) = i
  <2>1. \A T, Q : IsFiniteSet(T) /\ StrictOrder(T, Q) =>
          \A i \in 0 .. Cardinality(T) - 1 :
            \E x \in T : Cardinality(Below(T, Q, x)) = i
    BY PlaceInOrder
  <2>2. \A i \in 0 .. Cardinality(S) - 1 : \E x \in S : Cardinality(Below(S, R, x)) = i
    BY <1>4, <2>1
  <2>3. \A x \in S : Cardinality(Below(S, R, x)) \in 0 .. Cardinality(S) - 1
    BY <1>4, PlaceInOrder
  <2>4. \A x, y \in S : Cardinality(Below(S, R, x)) = Cardinality(Below(S, R, y)) => x = y
    BY <1>4, PlaceInOrder
  <2> QED
    BY <2>2, <2>3, <2>4
<1>6. /\ \A x \in S : c(x) \in 0 .. n - 1
      /\ \A x, y \in S : c(x) = c(y) => x = y
      /\ \A i \in 0 .. n - 1 : \E x \in S : c(x) = i
  <2>1. \A x \in S : Cardinality(Below(S, R, x)) = c(x)
    BY <1>3
  <2> HIDE DEF c
  <2>2. /\ \A x \in S : c(x) \in 0 .. n - 1
        /\ \A x, y \in S : c(x) = c(y) => x = y
    BY <1>5, <2>1
  <2>3. \A i \in 0 .. n - 1 : \E x \in S : c(x) = i
    BY <1>5, <2>1
  <2> QED
    BY <2>2, <2>3
<1>7. f = [i \in 1 .. n |-> CHOOSE x \in S : c(x) = i - 1]
  BY DEF Ascending
<1> HIDE DEF c, n, f
<1>8. \A i \in 1 .. n : f[i] \in S /\ c(f[i]) = i - 1
  <2> TAKE i \in 1 .. n
  <2>1. i - 1 \in 0 .. n - 1
    BY <1>1
  <2>2. \E x \in S : c(x) = i - 1
    BY <1>6, <2>1
  <2> QED
    BY <1>7, <2>2
<1>9. f \in Seq(S) /\ Len(f) = n /\ DOMAIN f = 1 .. n
  <2>1. f \in [1 .. n -> S]
    BY <1>7, <1>8
  <2> QED
    BY <1>1, <2>1
<1>10. \A i, j \in 1 .. n : f[i] = f[j] => i = j
  BY <1>1, <1>8
<1>11. \A x \in S : \E i \in 1 .. n : f[i] = x
  <2> TAKE x \in S
  <2>1. c(x) \in 0 .. n - 1
    BY <1>6
  <2>2. c(x) + 1 \in 1 .. n /\ (c(x) + 1) - 1 = c(x)
    BY <1>1, <2>1
  <2>3. f[c(x) + 1] \in S /\ c(f[c(x) + 1]) = c(x)
    BY <1>8, <2>2
  <2> QED
    BY <1>6, <2>2, <2>3
<1> QED
  BY <1>1, <1>8, <1>9, <1>10, <1>11 DEF f, n

-----------------------------------------------------------------------------
(* _balance_batch: the parts one after the other are an order of the rows. *)

(* All samples, each of them once. *)
IsOrder(R) == /\ R \in [Sample -> Sample]
              /\ \A i, j \in Sample : R[i] = R[j] => i = j

Q == (Prompts * N) \div DP

LEMMA SampleFacts ==
  /\ Prompts * N \in Nat \ {0} /\ Sample = 1 .. Prompts * N
  /\ Q \in Nat \ {0} /\ Prompts * N = Q * DP /\ Prompts * N = DP * Q
  /\ IsFiniteSet(Sample) /\ Cardinality(Sample) = Prompts * N
  /\ IsFiniteSet(Rank) /\ Cardinality(Rank) = DP /\ Rank = 1 .. DP
<1>1. DP \in Nat \ {0} /\ Prompts \in Nat \ {0} /\ N \in Nat \ {0}
  BY Constants
<1> DEFINE m == Prompts * N
<1>2. m \in Nat \ {0} /\ m % DP = 0
  BY <1>1, BatchAssumption
<1> HIDE DEF m
<1>3. Q = m \div DP
  BY DEF Q, m
<1>4. Q \in Nat /\ m = Q * DP + (m % DP)
  BY <1>1, <1>2, <1>3, Division
<1>5. m = Q * DP /\ Q # 0
  BY <1>1, <1>2, <1>4
<1>6. m = DP * Q
  BY <1>1, <1>4, <1>5
<1>7. IsFiniteSet(1 .. m) /\ Cardinality(1 .. m) = m
      /\ IsFiniteSet(1 .. DP) /\ Cardinality(1 .. DP) = DP
  BY <1>1, <1>2, FS_Interval
<1> QED
  BY <1>2, <1>4, <1>5, <1>6, <1>7 DEF m, Sample, Rank

LEMMA EqualParts ==
  ASSUME NEW parts, UNION {parts[i] : i \in Rank} = Sample,
         \A i, j \in Rank : i # j => parts[i] \cap parts[j] = {},
         \A i, j \in Rank : Cardinality(parts[i]) = Cardinality(parts[j])
  PROVE  \A i \in Rank : /\ parts[i] \in SUBSET Nat /\ IsFiniteSet(parts[i])
                         /\ Cardinality(parts[i]) = Q
<1> DEFINE c == Cardinality(parts[1])
           T == Rank \X (1 .. c)
           f == [t \in T |-> Ascending(parts[t[1]])[t[2]]]
<1>1. 1 \in Rank /\ DP \in Nat \ {0}
  BY SampleFacts, Constants
<1>2. \A i \in Rank : /\ parts[i] \subseteq Sample
                      /\ parts[i] \in SUBSET Nat /\ IsFiniteSet(parts[i])
  <2> TAKE i \in Rank
  <2>1. parts[i] \subseteq Sample
    OBVIOUS
  <2> QED
    BY <2>1, SampleFacts, FS_Subset
<1>3. c \in Nat /\ \A i \in Rank : Cardinality(parts[i]) = c
  BY <1>1, <1>2, FS_CardinalityType
<1> HIDE DEF c
<1>4. \A i \in Rank : \A a \in 1 .. c : Ascending(parts[i])[a] \in parts[i]
  <2> TAKE i \in Rank
  <2>1. \A a \in 1 .. Cardinality(parts[i]) : Ascending(parts[i])[a] \in parts[i]
    BY <1>2, AscendingFacts
  <2> QED
    BY <1>3, <2>1
<1>5. ASSUME NEW s \in T, NEW t \in T, f[s] = f[t]
      PROVE  s = t
  <2>1. s[1] \in Rank /\ s[2] \in 1 .. c /\ t[1] \in Rank /\ t[2] \in 1 .. c
    OBVIOUS
  <2>2. f[s] \in parts[s[1]] /\ f[t] \in parts[t[1]]
    BY <1>4, <2>1
  <2>3. s[1] = t[1]
    BY <1>5, <2>1, <2>2
  <2>4. \A i, j \in 1 .. Cardinality(parts[s[1]]) :
          Ascending(parts[s[1]])[i] = Ascending(parts[s[1]])[j] => i = j
    BY <1>2, <2>1, AscendingFacts
  <2>5. s[2] = t[2]
    BY <1>3, <1>5, <2>1, <2>3, <2>4
  <2> QED
    BY <2>1, <2>3, <2>5
<1>6. f \in [T -> Sample]
  BY <1>2, <1>4
<1>7. ASSUME NEW x \in Sample
      PROVE  \E t \in T : f[t] = x
  <2>1. PICK i \in Rank : x \in parts[i]
    BY <1>7
  <2>2. PICK a \in 1 .. c : Ascending(parts[i])[a] = x
    BY <1>2, <1>3, <2>1, AscendingFacts
  <2>3. <<i, a>> \in T
    BY <2>2
  <2> QED
    BY <2>2, <2>3
<1>8. IsFiniteSet(T) /\ Cardinality(T) = DP * c
  <2>1. IsFiniteSet(1 .. c) /\ Cardinality(1 .. c) = c
    BY <1>3, FS_Interval
  <2>2. IsFiniteSet(Rank) /\ Cardinality(Rank) = DP
    BY SampleFacts
  <2>3. IsFiniteSet(T) /\ Cardinality(T) = Cardinality(Rank) * Cardinality(1 .. c)
    BY <2>1, <2>2, FS_Product
  <2> QED
    BY <2>1, <2>2, <2>3
<1> HIDE DEF f, T
<1>9. f \in Bijection(T, Sample)
  BY <1>5, <1>6, <1>7 DEF Bijection, Injection, Surjection, IsInjective
<1>10. Cardinality(T) = Cardinality(Sample)
  <2>1. ExistsBijection(T, Sample)
    BY <1>9 DEF ExistsBijection
  <2> QED
    BY <1>8, <2>1, FS_Bijection
<1>11. DP * c = Q * DP
  BY <1>8, <1>10, SampleFacts
<1>12. c = Q
  <2>1. c * DP + 0 = Q * DP /\ 0 \in 0 .. DP - 1
    BY <1>1, <1>3, <1>11, SampleFacts
  <2>2. (c * DP + 0) \div DP = c
    BY <1>1, <1>3, <2>1, DivisionIsUnique
  <2>3. (Q * DP + 0) \div DP = Q
    BY <1>1, <2>1, SampleFacts, DivisionIsUnique
  <2>4. Q * DP + 0 = Q * DP
    BY <1>1, SampleFacts
  <2> QED
    BY <2>1, <2>2, <2>3, <2>4
<1> QED
  BY <1>2, <1>3, <1>12

LEMMA OrderIsOrder ==
  ASSUME NEW seqlen, DOMAIN seqlen = Sample,
         NEW parts \in Partitions(seqlen, DP, TRUE)
  PROVE  IsOrder(Order(parts))
<1> DEFINE b(i) == ((i - 1) \div Q) + 1
           a(i) == ((i - 1) % Q) + 1
           o    == Order(parts)
<1>1. /\ DOMAIN parts = Rank
      /\ UNION {parts[i] : i \in Rank} = Sample
      /\ \A i, j \in Rank : i # j => parts[i] \cap parts[j] = {}
      /\ \A i, j \in Rank : Cardinality(parts[i]) = Cardinality(parts[j])
  BY DEF Partitions, Balanced, Covers, SameSize, RowsOf, Rank
<1>2. \A i \in Rank : /\ parts[i] \in SUBSET Nat /\ IsFiniteSet(parts[i])
                      /\ Cardinality(parts[i]) = Q
  BY <1>1, EqualParts
<1>3. ASSUME NEW i \in Sample
      PROVE  /\ b(i) \in Rank /\ a(i) \in 1 .. Q /\ i = At(Q, b(i), a(i))
             /\ o[i] = Ascending(parts[b(i)])[a(i)]
  <2>1. i \in 1 .. DP * Q /\ DP \in Nat
    BY SampleFacts, Constants
  <2>2. b(i) \in 1 .. DP /\ a(i) \in 1 .. Q /\ i = At(Q, b(i), a(i))
    BY <2>1, SampleFacts, AtMeetsAll
  <2>3. o[i] = Ascending(parts[b(i)])[a(i)]
    BY SampleFacts DEF Order, Q
  <2> QED
    BY <2>2, <2>3 DEF Rank
<1> HIDE DEF a, b, o
<1>4. ASSUME NEW r \in Rank
      PROVE  /\ \A j \in 1 .. Q : Ascending(parts[r])[j] \in parts[r]
             /\ \A i, j \in 1 .. Q :
                  Ascending(parts[r])[i] = Ascending(parts[r])[j] => i = j
  <2>1. \A j \in 1 .. Cardinality(parts[r]) : Ascending(parts[r])[j] \in parts[r]
    BY <1>2, AscendingFacts
  <2>2. \A i, j \in 1 .. Cardinality(parts[r]) :
          Ascending(parts[r])[i] = Ascending(parts[r])[j] => i = j
    BY <1>2, AscendingFacts
  <2> QED
    BY <1>2, <2>1, <2>2
<1>5. ASSUME NEW i \in Sample
      PROVE  o[i] \in parts[b(i)] /\ o[i] \in Sample
  <2>1. o[i] \in parts[b(i)]
    BY <1>3, <1>4
  <2> QED
    BY <1>1, <1>3, <2>1
<1>6. ASSUME NEW i \in Sample, NEW j \in Sample, o[i] = o[j]
      PROVE  i = j
  <2>1. b(i) = b(j)
    BY <1>1, <1>3, <1>5, <1>6
  <2>2. a(i) = a(j)
    BY <1>3, <1>4, <1>6, <2>1
  <2> QED
    BY <1>3, <2>1, <2>2
<1>7. o \in [Sample -> Sample]
  <2>1. o = [i \in Sample |-> o[i]]
    BY DEF o, Order
  <2> QED
    BY <1>5, <2>1
<1> QED
  BY <1>6, <1>7 DEF IsOrder, o

-----------------------------------------------------------------------------
(* The order of the phases of a step.                                      *)
LEMMA AfterFacts ==
  /\ After("validate") = "generate"
  /\ After("generate") = IF opt.remax THEN "baseline" ELSE "join"
  /\ opt.remax => After("baseline") = "join"
  /\ After("join") = "balance" /\ After("balance") = "compute_rm_score"
  /\ After("compute_rm_score") = "reward" /\ After("reward") = "compute_log_prob"
  /\ After("compute_log_prob") = "compute_ref_log_prob"
  /\ After("compute_ref_log_prob") = "compute_values"
  /\ After("compute_values") = "advantage" /\ After("advantage") = "update_critic"
  /\ After("update_critic") = "update_actor" /\ After("update_actor") = "end"
<1>1. CASE opt.remax
  <2>1. /\ DOMAIN Phases = 1 .. 14
        /\ Phases[1] = "validate" /\ Phases[2] = "generate" /\ Phases[3] = "baseline"
        /\ Phases[4] = "join" /\ Phases[5] = "balance" /\ Phases[6] = "compute_rm_score"
        /\ Phases[7] = "reward" /\ Phases[8] = "compute_log_prob"
        /\ Phases[9] = "compute_ref_log_prob" /\ Phases[10] = "compute_values"
        /\ Phases[11] = "advantage" /\ Phases[12] = "update_critic"
        /\ Phases[13] = "update_actor" /\ Phases[14] = "end"
    BY <1>1 DEF Phases
  <2> HIDE DEF Phases
  <2>2. \A i \in 1 .. 14 : i \in {1, 2, 3, 4, 5, 6, 7, 8, 9, 10, 11, 12, 13, 14}
    OBVIOUS
  <2>3. \A i, j \in 1 .. 14 : Phases[i] = Phases[j] => i = j
    BY <2>1, <2>2
  <2>4. \A i \in 1 .. 13 : After(Phases[i]) = Phases[1 + i]
    <3> TAKE i \in 1 .. 13
    <3>1. i \in DOMAIN Phases /\ \A j \in DOMAIN Phases : Phases[j] = Phases[i] => j = i
      BY <2>1, <2>3
    <3>2. (CHOOSE j \in DOMAIN Phases : Phases[j] = Phases[i]) = i
      BY <3>1
    <3> QED
      BY <3>2 DEF After
  <2>5. /\ After(Phases[1]) = Phases[2] /\ After(Phases[2]) = Phases[3]
        /\ After(Phases[3]) = Phases[4] /\ After(Phases[4]) = Phases[5]
        /\ After(Phases[5]) = Phases[6] /\ After(Phases[6]) = Phases[7]
        /\ After(Phases[7]) = Phases[8] /\ After(Phases[8]) = Phases[9]
        /\ After(Phases[9]) = Phases[10] /\ After(Phases[10]) = Phases[11]
        /\ After(Phases[11]) = Phases[12] /\ After(Phases[12]) = Phases[13]
        /\ After(Phases[13]) = Phases[14]
    BY <2>4
  <2> QED
    BY <1>1, <2>1, <2>5
<1>2. CASE ~opt.remax
  <2>1. /\ DOMAIN Phases = 1 .. 13
        /\ Phases[1] = "validate" /\ Phases[2] = "generate"
        /\ Phases[3] = "join" /\ Phases[4] = "balance" /\ Phases[5] = "compute_rm_score"
        /\ Phases[6] = "reward" /\ Phases[7] = "compute_log_prob"
        /\ Phases[8] = "compute_ref_log_prob" /\ Phases[9] = "compute_values"
        /\ Phases[10] = "advantage" /\ Phases[11] = "update_critic"
        /\ Phases[12] = "update_actor" /\ Phases[13] = "end"
    BY <1>2 DEF Phases
  <2> HIDE DEF Phases
  <2>2. \A i \in 1 .. 13 : i \in {1, 2, 3, 4, 5, 6, 7, 8, 9, 10, 11, 12, 13}
    OBVIOUS
  <2>3. \A i, j \in 1 .. 13 : Phases[i] = Phases[j] => i = j
    BY <2>1, <2>2
  <2>4. \A i \in 1 .. 12 : After(Phases[i]) = Phases[1 + i]
    <3> TAKE i \in 1 .. 12
    <3>1. i \in DOMAIN Phases /\ \A j \in DOMAIN Phases : Phases[j] = Phases[i] => j = i
      BY <2>1, <2>3
    <3>2. (CHOOSE j \in DOMAIN Phases : Phases[j] = Phases[i]) = i
      BY <3>1
    <3> QED
      BY <3>2 DEF After
  <2>5. /\ After(Phases[1]) = Phases[2] /\ After(Phases[2]) = Phases[3]
        /\ After(Phases[3]) = Phases[4] /\ After(Phases[4]) = Phases[5]
        /\ After(Phases[5]) = Phases[6] /\ After(Phases[6]) = Phases[7]
        /\ After(Phases[7]) = Phases[8] /\ After(Phases[8]) = Phases[9]
        /\ After(Phases[9]) = Phases[10] /\ After(Phases[10]) = Phases[11]
        /\ After(Phases[11]) = Phases[12] /\ After(Phases[12]) = Phases[13]
    BY <2>4
  <2> QED
    BY <1>2, <2>1, <2>5
<1> QED
  BY <1>1, <1>2

-----------------------------------------------------------------------------
(* The micro-batches of a mini-batch.                                      *)

(* A list that has every number of 1 .. n once. *)
IsPermutation(s, n) ==
  /\ s \in Seq(Nat) /\ Len(s) = n
  /\ {s[i] : i \in DOMAIN s} = 1 .. n
  /\ \A i, j \in DOMAIN s : s[i] = s[j] => i = j

LEMMA RestoredFacts ==
  ASSUME NEW data \in Seq(Nat), NEW idx, IsPermutation(idx, Len(data))
  PROVE  Restored(idx, [i \in DOMAIN idx |-> data[idx[i]]]) = data
<1> DEFINE n == Len(data)
           t == [i \in DOMAIN idx |-> data[idx[i]]]
<1>1. /\ n \in Nat /\ DOMAIN data = 1 .. n /\ DOMAIN idx = 1 .. n
      /\ {idx[i] : i \in DOMAIN idx} = 1 .. n
      /\ \A i, j \in DOMAIN idx : idx[i] = idx[j] => i = j
  BY DEF IsPermutation
<1> HIDE DEF n
<1>2. DOMAIN t = 1 .. n
  BY <1>1
<1>3. ASSUME NEW j \in 1 .. n
      PROVE  t[CHOOSE i \in DOMAIN idx : idx[i] = j] = data[j]
  <2>1. \E i \in DOMAIN idx : idx[i] = j
    BY <1>1
  <2> DEFINE i == CHOOSE i \in DOMAIN idx : idx[i] = j
  <2>2. i \in DOMAIN idx /\ idx[i] = j
    BY <2>1
  <2> HIDE DEF i
  <2>3. t[i] = data[j]
    BY <2>2
  <2> QED
    BY <2>3 DEF i
<1> DEFINE c(j) == CHOOSE i \in DOMAIN idx : idx[i] = j
<1>4. Restored(idx, t) = [j \in 1 .. n |-> t[c(j)]]
  BY <1>2 DEF Restored
<1>7. \A j \in 1 .. n : t[c(j)] = data[j]
  BY <1>3
<1> HIDE DEF t, c
<1>5. Restored(idx, t) = [j \in 1 .. n |-> data[j]]
  BY <1>4, <1>7
<1>6. data = [j \in 1 .. n |-> data[j]]
  BY <1>1
<1> QED
  BY <1>5, <1>6 DEF t

LEMMA PermutationOf ==
  ASSUME NEW s \in Seq(Nat), NEW n \in Nat, {s[i] : i \in DOMAIN s} = 1 .. n,
         \A i, j \in DOMAIN s : s[i] = s[j] => i = j
  PROVE  IsPermutation(s, n)
<1> DEFINE m == Len(s)
<1>1. m \in Nat /\ DOMAIN s = 1 .. m
  OBVIOUS
<1>2. s \in [1 .. m -> 1 .. n]
  BY <1>1
<1> HIDE DEF m
<1>3. s \in Bijection(1 .. m, 1 .. n)
  BY <1>1, <1>2 DEF Bijection, Injection, Surjection, IsInjective
<1>4. ExistsBijection(1 .. m, 1 .. n)
  BY <1>3 DEF ExistsBijection
<1>5. IsFiniteSet(1 .. m) /\ Cardinality(1 .. m) = m /\ Cardinality(1 .. n) = n
  BY <1>1, FS_Interval
<1>6. m = n
  BY <1>4, <1>5, FS_Bijection
<1> QED
  BY <1>6 DEF m, IsPermutation

(* Every row of a mini-batch of n rows is in one micro-batch of m, once.   *)
IsDealt(m, n) ==
  /\ m \in Seq(Seq(Nat))
  /\ \A a \in DOMAIN m : \A i \in DOMAIN m[a] : m[a][i] \in 1 .. n
  /\ \A a, b \in DOMAIN m : \A i \in DOMAIN m[a], j \in DOMAIN m[b] :
       m[a][i] = m[b][j] => a = b /\ i = j
  /\ \A e \in 1 .. n : \E a \in DOMAIN m : \E i \in DOMAIN m[a] : m[a][i] = e

(* What the first k micro-batches have: each row once, and with the last   *)
(* of them every row.                                                      *)
LEMMA DealtPrefix ==
  ASSUME NEW m, NEW n \in Nat, IsDealt(m, n), NEW k \in 0 .. Len(m)
  PROVE  LET p == FlattenSeq(SubSeq(m, 1, k))
         IN  /\ p \in Seq(Nat)
             /\ \A i, j \in DOMAIN p : p[i] = p[j] => i = j
             /\ \A i \in DOMAIN p : p[i] \in 1 .. n
             /\ \A a \in 1 .. k : \A i \in DOMAIN m[a] : \E j \in DOMAIN p : p[j] = m[a][i]
             /\ \A j \in DOMAIN p : \E a \in 1 .. k : \E i \in DOMAIN m[a] : p[j] = m[a][i]
             /\ k = Len(m) => p = FlattenSeq(m) /\ IsPermutation(p, n)
<1> DEFINE s == SubSeq(m, 1, k)
           p == FlattenSeq(s)
<1>1. m \in Seq(Seq(Nat)) /\ Len(m) \in Nat /\ DOMAIN m = 1 .. Len(m) /\ k \in Nat
  BY DEF IsDealt
<1>2. s \in Seq(Seq(Nat)) /\ DOMAIN s = 1 .. k /\ \A a \in 1 .. k : s[a] = m[a]
  <2>1. 1 <= k => s \in Seq(Seq(Nat))
    BY <1>1, SubSeqProperties
  <2>2. k < 1 => s = <<>>
    BY <1>1
  <2>3. s = [a \in 1 .. k |-> m[a]]
    BY <1>1
  <2> QED
    BY <1>1, <2>1, <2>2, <2>3
<1>3. k = Len(m) => s = m
  BY <1>1, SubSeqFull
<1> HIDE DEF s
<1>4. \A a \in 1 .. k : a \in DOMAIN m
  BY <1>1
<1>5. \A a, b \in DOMAIN s : \A i \in DOMAIN s[a], j \in DOMAIN s[b] :
        s[a][i] = s[b][j] => a = b /\ i = j
  BY <1>2, <1>4 DEF IsDealt
<1>6. p \in Seq(Nat)
  BY <1>2, FlattenWhole
<1>7. \A i, j \in DOMAIN p : p[i] = p[j] => i = j
  BY <1>2, <1>5, FlattenOnce, Zenon
<1>8. /\ \A j \in DOMAIN p : \E a \in DOMAIN s : \E i \in DOMAIN s[a] : p[j] = s[a][i]
      /\ \A a \in DOMAIN s : \A i \in DOMAIN s[a] : \E j \in DOMAIN p : p[j] = s[a][i]
  <2>1. \A j \in DOMAIN p : \E a \in DOMAIN s : \E i \in DOMAIN s[a] : p[j] = s[a][i]
    BY <1>2, <1>5, FlattenOnce, ZenonT(40)
  <2>2. \A a \in DOMAIN s : \A i \in DOMAIN s[a] : \E j \in DOMAIN p : p[j] = s[a][i]
    BY <1>2, <1>5, FlattenOnce, ZenonT(40)
  <2> QED
    BY <2>1, <2>2
<1> HIDE DEF p
<1>9. \A j \in DOMAIN p : \E a \in 1 .. k : \E i \in DOMAIN m[a] : p[j] = m[a][i]
  BY <1>2, <1>8, SMTT(30)
<1>10. \A a \in 1 .. k : \A i \in DOMAIN m[a] : \E j \in DOMAIN p : p[j] = m[a][i]
  <2> TAKE a \in 1 .. k
  <2>1. a \in DOMAIN s /\ s[a] = m[a]
    BY <1>2
  <2> QED
    BY <1>8, <2>1
<1>11. \A i \in DOMAIN p : p[i] \in 1 .. n
  BY <1>4, <1>9 DEF IsDealt
<1>12. ASSUME k = Len(m)
       PROVE  p = FlattenSeq(m) /\ IsPermutation(p, n)
  <2>1. p = FlattenSeq(m)
    BY <1>3, <1>12 DEF p
  <2>2. \A e \in 1 .. n : \E j \in DOMAIN p : p[j] = e
    BY <1>1, <1>10, <1>12 DEF IsDealt
  <2>3. {p[i] : i \in DOMAIN p} = 1 .. n
    BY <1>11, <2>2
  <2> QED
    BY <1>6, <1>7, <2>1, <2>3, PermutationOf
<1> QED
  BY <1>6, <1>7, <1>9, <1>10, <1>11, <1>12 DEF p, s

(* A mini-batch cut into micro-batches of one size. *)
LEMMA SplitDeals ==
  ASSUME NEW n \in Nat, NEW size \in Nat \ {0}
  PROVE  LET m == Split([i \in 1 .. n |-> i], size)
         IN  m \in Seq(Seq(Nat)) /\ Len(m) = CeilDiv(n, size) /\ IsDealt(m, n)
<1> DEFINE d == [i \in 1 .. n |-> i]
           m == Split(d, size)
           c == CeilDiv(n, size)
<1>1. d \in Seq(Nat) /\ Len(d) = n /\ \A i \in 1 .. n : d[i] = i
  OBVIOUS
<1> HIDE DEF d
<1>2. m \in Seq(Seq(Nat)) /\ Len(m) = c /\ DOMAIN m = 1 .. c /\ c \in Nat
  BY <1>1, SplitType
<1>3. ASSUME NEW a \in 1 .. c
      PROVE  /\ m[a] \in Seq(Nat) /\ Len(m[a]) \in 1 .. size
             /\ Len(m[a]) = IF a * size < n THEN size ELSE n - (a - 1) * size
             /\ \A i \in 1 .. Len(m[a]) :
                  At(size, a, i) \in 1 .. n /\ m[a][i] = At(size, a, i)
  <2>1. a \in 1 .. CeilDiv(Len(d), size)
    BY <1>1
  <2>2. m[a] \in Seq(Nat) /\ Len(m[a]) \in 1 .. size
    BY <1>1, <2>1, SplitPart
  <2>3. Len(m[a]) = IF a * size < Len(d) THEN size ELSE Len(d) - (a - 1) * size
    BY <1>1, <2>1, SplitPart
  <2>4. \A i \in 1 .. Len(m[a]) : /\ At(size, a, i) \in 1 .. Len(d)
                                 /\ m[a][i] = d[At(size, a, i)]
    BY <1>1, <2>1, SplitPart
  <2> QED
    BY <1>1, <2>2, <2>3, <2>4
<1> HIDE DEF m
<1>4. \A a \in 1 .. c : \A i \in DOMAIN m[a] : /\ i \in 1 .. size
                                             /\ m[a][i] \in 1 .. n
                                             /\ m[a][i] = At(size, a, i)
  <2> TAKE a \in 1 .. c
  <2> TAKE i \in DOMAIN m[a]
  <2>1. i \in 1 .. Len(m[a]) /\ Len(m[a]) \in 1 .. size
    BY <1>3
  <2> QED
    BY <1>3, <2>1
<1>5. \A a, b \in 1 .. c : \A i \in DOMAIN m[a], j \in DOMAIN m[b] :
        m[a][i] = m[b][j] => a = b /\ i = j
  <2> TAKE a, b \in 1 .. c
  <2> TAKE i \in DOMAIN m[a], j \in DOMAIN m[b]
  <2> HAVE m[a][i] = m[b][j]
  <2>1. At(size, a, i) = At(size, b, j) /\ i \in 1 .. size /\ j \in 1 .. size
    BY <1>4
  <2>2. a \in Nat \ {0} /\ b \in Nat \ {0}
    BY <1>2, SMTT(30)
  <2> QED
    BY <2>1, <2>2, AtIsUnique
<1>6. ASSUME NEW e \in 1 .. n
      PROVE  \E a \in 1 .. c : \E i \in DOMAIN m[a] : m[a][i] = e
  <2> DEFINE a == ((e - 1) \div size) + 1
             i == ((e - 1) % size) + 1
  <2>1. n <= c * size /\ c * size \in Nat
    BY CeilDivBounds
  <2>2. e \in 1 .. c * size
    BY <2>1
  <2> HIDE DEF c
  <2>3. a \in 1 .. c /\ i \in 1 .. size /\ e = At(size, a, i)
    BY <1>2, <2>2, AtMeetsAll
  <2> HIDE DEF a, i
  <2>4. i \in 1 .. Len(m[a])
    <3>1. e = (a - 1) * size + i /\ (a - 1) * size \in Nat
      BY <1>2, <2>3 DEF At
    <3>2. CASE a * size < n
      BY <1>3, <2>3, <3>2
    <3>3. CASE ~(a * size < n)
      <4>1. Len(m[a]) = n - (a - 1) * size
        BY <1>3, <2>3, <3>3
      <4>2. i <= n - (a - 1) * size
        BY <2>3, <3>1
      <4> QED
        BY <2>3, <3>1, <4>1, <4>2
    <3> QED
      BY <3>2, <3>3
  <2>5. DOMAIN m[a] = 1 .. Len(m[a])
    BY <1>3, <2>3
  <2> QED
    BY <1>3, <2>3, <2>4, <2>5
<1> QED
  BY <1>2, <1>4, <1>5, <1>6 DEF IsDealt, m, d

(* The rows of n lengths, dealt out to k parts. *)
IsDeal(n, lens, k, parts) ==
  n \in Nat /\ lens \in [1 .. n -> Nat] /\ k \in Nat /\ parts \in Partitions(lens, k, FALSE)

LEMMA PartFacts ==
  ASSUME NEW n, NEW lens, NEW k, NEW parts, IsDeal(n, lens, k, parts)
  PROVE  /\ DOMAIN parts = 1 .. k
         /\ \A i \in 1 .. k : /\ parts[i] # {} /\ parts[i] \in SUBSET Nat
                              /\ parts[i] \subseteq 1 .. n /\ IsFiniteSet(parts[i])
         /\ UNION {parts[i] : i \in 1 .. k} = 1 .. n
         /\ \A i, j \in 1 .. k : i # j => parts[i] \cap parts[j] = {}
         /\ \A i, j \in 1 .. k :
              Tokens(lens, parts[i]) - Tokens(lens, parts[j]) <= Longest(lens)
<1>0. n \in Nat /\ lens \in [1 .. n -> Nat] /\ k \in Nat
      /\ parts \in Partitions(lens, k, FALSE)
  BY DEF IsDeal
<1>1. DOMAIN lens = 1 .. n
  BY <1>0
<1>2. /\ DOMAIN parts = 1 .. k
      /\ \A i \in 1 .. k : parts[i] # {}
      /\ UNION {parts[i] : i \in 1 .. k} = 1 .. n
      /\ \A i, j \in 1 .. k : i # j => parts[i] \cap parts[j] = {}
  BY <1>0, <1>1 DEF Partitions, Balanced, Covers, RowsOf
<1>3. \A i, j \in 1 .. k : Tokens(lens, parts[i]) - Tokens(lens, parts[j]) <= Longest(lens)
  BY <1>0, <1>2 DEF Partitions, Balanced, Even
<1>4. ASSUME NEW i \in 1 .. k
      PROVE  parts[i] \in SUBSET Nat /\ parts[i] \subseteq 1 .. n /\ IsFiniteSet(parts[i])
  <2>1. parts[i] \subseteq 1 .. n
    BY <1>2
  <2>2. IsFiniteSet(1 .. n)
    BY <1>0, FS_Interval
  <2>3. parts[i] \in SUBSET Nat
    BY <1>0, <2>1
  <2>4. IsFiniteSet(parts[i])
    BY <2>1, <2>2, FS_Subset
  <2> QED
    BY <2>1, <2>3, <2>4
<1> QED
  BY <1>2, <1>3, <1>4

(* The first row of a part. *)
LEMMA MinFacts ==
  ASSUME NEW S \in SUBSET Nat, S # {}
  PROVE  Min(S) \in S /\ \A y \in S : Min(S) <= y
<1>1. \E m \in S : \A x \in S : m <= x
  BY LeastNumber
<1>2. Min(S) \in S /\ \A y \in S : Min(S) <= y
  BY <1>1 DEF Min
<1> QED
  BY <1>2

LEMMA MaxFacts ==
  ASSUME NEW S \in SUBSET Nat, S # {}, IsFiniteSet(S)
  PROVE  Max(S) \in S /\ \A y \in S : y <= Max(S)
<1>1. \E m \in S : \A x \in S : x <= m
  BY GreatestOfFinite
<1>2. \E m \in S : \A x \in S : m >= x
  BY <1>1
<1>3. Max(S) \in S /\ \A y \in S : Max(S) >= y
  BY <1>2 DEF Max
<1> QED
  BY <1>3

(* The costs of disjoint parts put them in an order. *)
LEMMA CostsAreStrict ==
  ASSUME NEW n, NEW lens, NEW k, NEW parts, IsDeal(n, lens, k, parts)
  PROVE  StrictOrder(1 .. k, {p \in (1 .. k) \X (1 .. k) :
                                Costlier(lens, parts[p[1]], parts[p[2]])})
<1> DEFINE I == 1 .. k
           R == {p \in I \X I : Costlier(lens, parts[p[1]], parts[p[2]])}
           a == [i \in I |-> Squares(lens, parts[i])]
           b == [i \in I |-> Min(parts[i])]
           f == [i \in DOMAIN lens |-> lens[i] * lens[i]]
<1>0. n \in Nat /\ lens \in [1 .. n -> Nat] /\ k \in Nat
  BY DEF IsDeal
<1>1. /\ \A i \in I : /\ parts[i] # {} /\ parts[i] \in SUBSET Nat
                      /\ parts[i] \subseteq 1 .. n /\ IsFiniteSet(parts[i])
      /\ \A i, j \in I : i # j => parts[i] \cap parts[j] = {}
  BY PartFacts
<1>2. \A i \in I : a[i] \in Nat
  <2> TAKE i \in I
  <2>1. \A x \in parts[i] : f[x] \in Nat
    BY <1>0, <1>1
  <2> HIDE DEF f
  <2>2. SumFunctionOnSet(f, parts[i]) \in Nat
    BY <1>1, <2>1, SumType
  <2>3. a[i] = SumFunctionOnSet(f, parts[i])
    BY DEF Squares, Tokens, f
  <2> QED
    BY <2>2, <2>3
<1>3. \A i \in I : b[i] \in Nat /\ b[i] \in parts[i]
  BY <1>1, MinFacts
<1>4. \A i, j \in I : b[i] = b[j] => i = j
  BY <1>1, <1>3
<1>5. \A i, j \in I : <<i, j>> \in R <=> a[i] > a[j] \/ (a[i] = a[j] /\ b[i] > b[j])
  BY DEF Costlier
<1> HIDE DEF I, R, a, b
<1>6. \A i \in I : <<i, i>> \notin R
  BY <1>2, <1>3, <1>5
<1>7. \A i, j, h \in I : <<i, j>> \in R /\ <<j, h>> \in R => <<i, h>> \in R
  BY <1>2, <1>3, <1>5
<1>8. \A i, j \in I : i = j \/ <<i, j>> \in R \/ <<j, i>> \in R
  <2> TAKE i, j \in I
  <2>1. a[i] \in Nat /\ a[j] \in Nat /\ b[i] \in Nat /\ b[j] \in Nat
    BY <1>2, <1>3
  <2>2. i = j \/ b[i] # b[j]
    BY <1>4
  <2>3. i = j \/ a[i] > a[j] \/ a[j] > a[i]
        \/ (a[i] = a[j] /\ b[i] > b[j]) \/ (a[j] = a[i] /\ b[j] > b[i])
    BY <2>1, <2>2
  <2> QED
    BY <1>5, <2>3
<1> QED
  BY <1>6, <1>7, <1>8 DEF StrictOrder, I, R

(* The parts in that order. *)
LEMMA InOrderIsOrder ==
  ASSUME NEW n, NEW lens, NEW k, NEW parts, IsDeal(n, lens, k, parts)
  PROVE  \E f \in [1 .. k -> 1 .. k] :
           /\ InOrder(lens, parts) = [i \in 1 .. k |-> Ascending(parts[f[i]])]
           /\ \A i, j \in 1 .. k : f[i] = f[j] => i = j
           /\ \A j \in 1 .. k : \E i \in 1 .. k : f[i] = j
<1> DEFINE I == 1 .. k
           R == {p \in I \X I : Costlier(lens, parts[p[1]], parts[p[2]])}
           place == [i \in I |-> 1 + Cardinality({j \in I : Costlier(lens, parts[j], parts[i])})]
           f == [h \in I |-> CHOOSE i \in I : place[i] = h]
<1>0. k \in Nat /\ parts \in Partitions(lens, k, FALSE)
  BY DEF IsDeal
<1>1. DOMAIN parts = I
  BY PartFacts
<1>2. StrictOrder(I, R)
  BY CostsAreStrict
<1>3. IsFiniteSet(I) /\ Cardinality(I) = k
  BY <1>0, FS_Interval
<1>4. \A i \in I : place[i] = 1 + Cardinality(Below(I, R, i))
  <2> TAKE i \in I
  <2>1. Below(I, R, i) = {j \in I : Costlier(lens, parts[j], parts[i])}
    BY DEF Below
  <2> QED
    BY <2>1
<1>5. InOrder(lens, parts) = [h \in I |-> Ascending(parts[CHOOSE i \in I : place[i] = h])]
  BY <1>1 DEF InOrder
<1>6. InOrder(lens, parts) = [h \in I |-> Ascending(parts[f[h]])]
  BY <1>5
<1> HIDE DEF R
<1>7. /\ \A i \in I : Cardinality(Below(I, R, i)) \in 0 .. k - 1
      /\ \A i, j \in I : Cardinality(Below(I, R, i)) = Cardinality(Below(I, R, j)) => i = j
      /\ \A h \in 0 .. k - 1 : \E i \in I : Cardinality(Below(I, R, i)) = h
  <2>1. \A T, S : IsFiniteSet(T) /\ StrictOrder(T, S) =>
          \A h \in 0 .. Cardinality(T) - 1 : \E i \in T : Cardinality(Below(T, S, i)) = h
    BY PlaceInOrder
  <2>2. \A T, S : IsFiniteSet(T) /\ StrictOrder(T, S) =>
          \A i \in T : Cardinality(Below(T, S, i)) \in 0 .. Cardinality(T) - 1
    BY PlaceInOrder
  <2>3. \A T, S : IsFiniteSet(T) /\ StrictOrder(T, S) =>
          \A i, j \in T : Cardinality(Below(T, S, i)) = Cardinality(Below(T, S, j)) => i = j
    BY PlaceInOrder
  <2> HIDE DEF I
  <2>4. \A h \in 0 .. k - 1 : \E i \in I : Cardinality(Below(I, R, i)) = h
    BY <1>2, <1>3, <2>1
  <2>5. \A i \in I : Cardinality(Below(I, R, i)) \in 0 .. k - 1
    BY <1>2, <1>3, <2>2
  <2>6. \A i, j \in I : Cardinality(Below(I, R, i)) = Cardinality(Below(I, R, j)) => i = j
    BY <1>2, <1>3, <2>3
  <2> QED
    BY <2>4, <2>5, <2>6
<1> HIDE DEF place
<1>8. /\ \A i \in I : place[i] \in I
      /\ \A i, j \in I : place[i] = place[j] => i = j
      /\ \A h \in I : \E i \in I : place[i] = h
  <2>1. \A i \in I : place[i] \in I
    <3> TAKE i \in I
    <3>1. Cardinality(Below(I, R, i)) \in 0 .. k - 1
      BY <1>7
    <3> HIDE DEF I
    <3>2. place[i] = 1 + Cardinality(Below(I, R, i))
      BY <1>4
    <3>3. place[i] \in 1 .. k
      BY <1>0, <3>1, <3>2
    <3> QED
      BY <3>3 DEF I
  <2>2. \A i, j \in I : place[i] = place[j] => i = j
    BY <1>4, <1>7
  <2>3. \A h \in I : h - 1 \in 0 .. k - 1 /\ 1 + (h - 1) = h
    BY <1>0
  <2>4. \A h \in I : \E i \in I : Cardinality(Below(I, R, i)) = h - 1
    BY <1>7, <2>3
  <2>5. \A h \in I : \E i \in I : place[i] = h
    <3> TAKE h \in I
    <3>1. PICK i \in I : Cardinality(Below(I, R, i)) = h - 1
      BY <2>4
    <3>2. place[i] = 1 + (h - 1)
      BY <1>4, <3>1
    <3> QED
      BY <2>3, <3>2
  <2> QED
    BY <2>1, <2>2, <2>5
<1> HIDE DEF I
<1>9. \A h \in I : f[h] \in I /\ place[f[h]] = h
  BY <1>8
<1> HIDE DEF f
<1>10. f \in [I -> I]
  BY <1>9 DEF f
<1>11. \A i, j \in I : f[i] = f[j] => i = j
  BY <1>9
<1>12. \A j \in I : \E i \in I : f[i] = j
  BY <1>8, <1>9
<1> QED
  BY <1>6, <1>10, <1>11, <1>12 DEF I

(* Every row of the mini-batch is in one micro-batch, once. *)
LEMMA InOrderDeals ==
  ASSUME NEW n, NEW lens, NEW k, NEW parts, IsDeal(n, lens, k, parts)
  PROVE  LET m == InOrder(lens, parts)
         IN  /\ m \in Seq(Seq(Nat)) /\ Len(m) = k
             /\ IsDealt(m, n)
             /\ \A a \in 1 .. k : \E i \in 1 .. k : ToSet(m[a]) = parts[i]
<1> DEFINE I == 1 .. k
           m == InOrder(lens, parts)
<1>0. n \in Nat /\ lens \in [1 .. n -> Nat] /\ k \in Nat
  BY DEF IsDeal
<1>1. PICK f \in [1 .. k -> 1 .. k] :
           /\ InOrder(lens, parts) = [i \in 1 .. k |-> Ascending(parts[f[i]])]
           /\ \A i, j \in 1 .. k : f[i] = f[j] => i = j
           /\ \A j \in 1 .. k : \E i \in 1 .. k : f[i] = j
  BY InOrderIsOrder
<1>2. /\ \A i \in I : /\ parts[i] # {} /\ parts[i] \in SUBSET Nat
                      /\ parts[i] \subseteq 1 .. n /\ IsFiniteSet(parts[i])
      /\ UNION {parts[i] : i \in I} = 1 .. n
      /\ \A i, j \in I : i # j => parts[i] \cap parts[j] = {}
  <2>1. /\ \A i \in 1 .. k : /\ parts[i] # {} /\ parts[i] \in SUBSET Nat
                              /\ parts[i] \subseteq 1 .. n /\ IsFiniteSet(parts[i])
        /\ UNION {parts[i] : i \in 1 .. k} = 1 .. n
        /\ \A i, j \in 1 .. k : i # j => parts[i] \cap parts[j] = {}
    BY PartFacts
  <2> QED
    BY <2>1
<1> HIDE DEF m
<1>3. ASSUME NEW a \in I
      PROVE  /\ m[a] \in Seq(Nat) /\ ToSet(m[a]) = parts[f[a]]
             /\ \A i, j \in DOMAIN m[a] : m[a][i] = m[a][j] => i = j
  <2> DEFINE S == parts[f[a]]
             s == Ascending(S)
  <2>1. m[a] = s /\ f[a] \in I
    <3>1. m = [i \in I |-> Ascending(parts[f[i]])]
      BY <1>1 DEF m
    <3> QED
      BY <3>1
  <2>2. S \in SUBSET Nat /\ IsFiniteSet(S)
    BY <1>2, <2>1
  <2>3. /\ Cardinality(S) \in Nat
        /\ s \in Seq(S) /\ DOMAIN s = 1 .. Cardinality(S)
        /\ \A i \in 1 .. Cardinality(S) : s[i] \in S
        /\ \A i, j \in 1 .. Cardinality(S) : s[i] = s[j] => i = j
        /\ \A x \in S : \E i \in 1 .. Cardinality(S) : s[i] = x
    <3> HIDE DEF S
    <3>1. Cardinality(S) \in Nat
      BY <2>2, AscendingFacts
    <3>2. s \in Seq(S) /\ DOMAIN s = 1 .. Cardinality(S)
      BY <2>2, AscendingFacts
    <3>3. \A i \in 1 .. Cardinality(S) : s[i] \in S
      BY <2>2, AscendingFacts
    <3>4. \A i, j \in 1 .. Cardinality(S) : s[i] = s[j] => i = j
      BY <2>2, AscendingFacts
    <3>5. \A x \in S : \E i \in 1 .. Cardinality(S) : s[i] = x
      BY <2>2, AscendingFacts
    <3> QED
      BY <3>1, <3>2, <3>3, <3>4, <3>5
  <2> HIDE DEF s, S
  <2>4. s \in Seq(Nat)
    <3>1. s \in [1 .. Cardinality(S) -> Nat]
      <4>1. \A i \in 1 .. Cardinality(S) : s[i] \in Nat
        BY <2>2, <2>3
      <4>2. s = [i \in 1 .. Cardinality(S) |-> s[i]]
        BY <2>3
      <4> QED
        BY <4>1, <4>2
    <3> DEFINE c == Cardinality(S)
    <3>2. c \in Nat /\ s \in [1 .. c -> Nat]
      BY <2>3, <3>1
    <3> HIDE DEF c
    <3> QED
      BY <3>2
  <2>5. ToSet(s) = S
    <3>1. \A i \in DOMAIN s : s[i] \in S
      BY <2>3
    <3>2. \A x \in S : \E i \in DOMAIN s : s[i] = x
      BY <2>3
    <3>3. ToSet(s) = {s[i] : i \in DOMAIN s}
      BY DEF ToSet
    <3> QED
      BY <3>1, <3>2, <3>3
  <2> QED
    BY <2>1, <2>3, <2>4, <2>5 DEF S
<1>4. m \in Seq(Seq(Nat)) /\ Len(m) = k /\ DOMAIN m = I
  <2>1. m \in [I -> Seq(Nat)]
    <3>1. m = [i \in I |-> Ascending(parts[f[i]])]
      BY <1>1 DEF m
    <3>2. \A i \in I : m[i] \in Seq(Nat)
      BY <1>3
    <3> QED
      BY <3>1, <3>2
  <2> QED
    BY <1>0, <2>1
<1>5. \A a \in I : \A i \in DOMAIN m[a] : m[a][i] \in parts[f[a]]
  BY <1>3 DEF ToSet
<1>6. \A a, b \in DOMAIN m : \A i \in DOMAIN m[a], j \in DOMAIN m[b] :
        m[a][i] = m[b][j] => a = b /\ i = j
  <2> TAKE a, b \in DOMAIN m
  <2> TAKE i \in DOMAIN m[a], j \in DOMAIN m[b]
  <2> HAVE m[a][i] = m[b][j]
  <2>1. a \in I /\ b \in I /\ f[a] \in I /\ f[b] \in I
    BY <1>4
  <2>2. f[a] = f[b]
    BY <1>2, <1>5, <2>1
  <2>3. a = b
    BY <1>1, <2>1, <2>2
  <2> QED
    BY <1>3, <2>1, <2>3
<1>7. \A a \in DOMAIN m : \A i \in DOMAIN m[a] : m[a][i] \in 1 .. n
  <2> TAKE a \in DOMAIN m
  <2>1. a \in 1 .. k /\ f[a] \in 1 .. k
    BY <1>4
  <2>2. parts[f[a]] \subseteq 1 .. n
    BY <1>2, <2>1
  <2> QED
    BY <1>5, <2>1, <2>2
<1>8. \A e \in 1 .. n : \E a \in DOMAIN m : \E i \in DOMAIN m[a] : m[a][i] = e
  <2> TAKE e \in 1 .. n
  <2>1. PICK h \in 1 .. k : e \in parts[h]
    BY <1>2
  <2>2. PICK a \in 1 .. k : f[a] = h
    BY <1>1, <2>1
  <2>3. e \in ToSet(m[a]) /\ a \in DOMAIN m
    BY <1>3, <1>4, <2>1, <2>2
  <2> QED
    BY <2>3 DEF ToSet
<1>9. IsDealt(m, n)
  BY <1>4, <1>6, <1>7, <1>8 DEF IsDealt
<1> QED
  BY <1>3, <1>4, <1>9 DEF m

(* The lengths of the n rows of a mini-batch. *)
IsLengths(n, lens) == n \in Nat \ {0} /\ lens \in [1 .. n -> 1 .. MaxTokenLen]

LEMMA TotalFacts ==
  ASSUME NEW n, NEW lens, IsLengths(n, lens)
  PROVE  /\ Tokens(lens, DOMAIN lens) \in Nat \ {0}
         /\ Tokens(lens, DOMAIN lens) <= n * MaxTokenLen
         /\ Longest(lens) \in 1 .. MaxTokenLen
<1> DEFINE D == 1 .. n
           total == Tokens(lens, DOMAIN lens)
<1>1. n \in Nat \ {0} /\ lens \in [D -> 1 .. MaxTokenLen] /\ MaxTokenLen \in Nat \ {0}
  BY Constants DEF IsLengths
<1>2. IsFiniteSet(D) /\ Cardinality(D) = n /\ DOMAIN lens = D /\ 1 \in D
  BY <1>1, FS_Interval
<1>3. total = SumFunctionOnSet(lens, D)
  BY <1>2 DEF Tokens
<1> HIDE DEF D, total
<1>4. \A x \in D : lens[x] \in 1 .. MaxTokenLen
  BY <1>1
<1>5. \A x \in D : lens[x] \in 0 .. MaxTokenLen /\ lens[x] \in Nat
  BY <1>1, <1>4
<1>6. total \in Nat /\ total <= n * MaxTokenLen
  BY <1>1, <1>2, <1>3, <1>5, SumAtMost
<1>7. lens[1] <= SumFunctionOnSet(lens, D)
  BY <1>2, <1>5, SumBounds
<1>8. total # 0
  BY <1>1, <1>2, <1>3, <1>4, <1>6, <1>7
<1>9. Longest(lens) \in 1 .. MaxTokenLen
  <2> DEFINE S == {lens[x] : x \in D}
  <2>1. IsFiniteSet(S)
    BY <1>2, ImageOfFinite
  <2>2. S \in SUBSET Nat /\ S # {} /\ S \subseteq 1 .. MaxTokenLen
    BY <1>2, <1>4, <1>5
  <2>3. Longest(lens) = Max(S)
    BY <1>2 DEF Longest, RowsOf
  <2> HIDE DEF S
  <2>4. Max(S) \in S
    BY <2>1, <2>2, MaxFacts
  <2> QED
    BY <2>2, <2>3, <2>4
<1> QED
  BY <1>6, <1>8, <1>9 DEF total

(* As many micro-batches as Count asks for have room for all tokens. *)
LEMMA CountFacts ==
  ASSUME NEW n, NEW lens, IsLengths(n, lens)
  PROVE  LET total == Tokens(lens, DOMAIN lens)
             count == Min({n, CeilDiv(total, MaxTokenLen)})
         IN  /\ count \in 1 .. n
             /\ \A k \in Nat : count <= k => total <= k * MaxTokenLen
<1> DEFINE total == Tokens(lens, DOMAIN lens)
           c == CeilDiv(total, MaxTokenLen)
           count == Min({n, c})
<1>1. n \in Nat \ {0} /\ MaxTokenLen \in Nat \ {0}
  BY Constants DEF IsLengths
<1>2. total \in Nat \ {0} /\ total <= n * MaxTokenLen
  BY TotalFacts
<1> HIDE DEF total
<1>3. c \in Nat /\ c # 0 /\ c * MaxTokenLen \in Nat /\ total <= c * MaxTokenLen
  BY <1>1, <1>2, CeilDivBounds
<1> HIDE DEF c
<1>4. count \in {n, c} /\ count <= n /\ count <= c
  BY <1>1, <1>3, MinFacts
<1> HIDE DEF count
<1>5. count \in 1 .. n
  BY <1>1, <1>3, <1>4
<1>6. ASSUME NEW k \in Nat, count <= k
      PROVE  total <= k * MaxTokenLen
  <2>1. PICK m \in {n, c} : count = m /\ total <= m * MaxTokenLen
    BY <1>2, <1>3, <1>4
  <2>2. m \in Nat /\ m <= k
    BY <1>1, <1>3, <1>6, <2>1
  <2>3. m * MaxTokenLen \in Nat /\ k * MaxTokenLen \in Nat
    BY <1>1, <2>2
  <2>4. m < k => m * MaxTokenLen + MaxTokenLen <= k * MaxTokenLen
    BY <1>1, <2>2, Multiples
  <2>5. CASE m = k
    BY <2>1, <2>5
  <2>6. CASE m < k
    BY <1>1, <1>2, <2>1, <2>3, <2>4, <2>6
  <2> QED
    BY <2>2, <2>5, <2>6
<1> QED
  BY <1>5, <1>6 DEF count, c, total

(* Were one part too large, all would be full, and the tokens too many. *)
LEMMA PartsFit ==
  ASSUME NEW n, NEW lens, IsLengths(n, lens), NEW k, NEW parts,
         IsDeal(n, lens, k, parts),
         Tokens(lens, DOMAIN lens) <= k * MaxTokenLen
  PROVE  \A i \in 1 .. k : Tokens(lens, parts[i]) < MaxTokenLen + Longest(lens)
<1> DEFINE m == MaxTokenLen
           l == Longest(lens)
           t == [i \in 1 .. k |-> Tokens(lens, parts[i])]
           total == Tokens(lens, DOMAIN lens)
<1>1. n \in Nat \ {0} /\ lens \in [1 .. n -> 1 .. m] /\ m \in Nat \ {0} /\ k \in Nat
  BY Constants DEF IsLengths, IsDeal
<1>2. total \in Nat /\ l \in Nat \ {0}
  <2>1. total \in Nat \ {0} /\ Longest(lens) \in 1 .. MaxTokenLen
    BY TotalFacts
  <2> QED
    BY <1>1, <2>1
<1>3. /\ DOMAIN parts = 1 .. k
      /\ \A i \in 1 .. k : /\ parts[i] # {} /\ parts[i] \in SUBSET Nat
                           /\ parts[i] \subseteq 1 .. n /\ IsFiniteSet(parts[i])
      /\ UNION {parts[i] : i \in 1 .. k} = 1 .. n
      /\ \A i, j \in 1 .. k : i # j => parts[i] \cap parts[j] = {}
      /\ \A i, j \in 1 .. k :
           Tokens(lens, parts[i]) - Tokens(lens, parts[j]) <= Longest(lens)
  BY PartFacts
<1>4. \A x \in 1 .. n : lens[x] \in Nat
  BY <1>1
<1>5. \A i \in 1 .. k : t[i] \in Nat /\ t[i] = SumFunctionOnSet(lens, parts[i])
  <2> TAKE i \in 1 .. k
  <2>1. \A x \in parts[i] : lens[x] \in Nat
    BY <1>3, <1>4
  <2>2. SumFunctionOnSet(lens, parts[i]) \in Nat
    BY <1>3, <2>1, SumType
  <2> QED
    BY <2>2 DEF Tokens
<1>6. \A i, j \in 1 .. k : t[i] - t[j] <= l
  BY <1>3
<1>7. total = SumFunctionOnSet(lens, UNION {parts[i] : i \in 1 .. k})
  BY <1>1, <1>3 DEF Tokens
<1>8. total <= k * m
  OBVIOUS
<1> HIDE DEF t, l, m, total
<1> SUFFICES ASSUME NEW a \in 1 .. k, ~(t[a] < m + l)
             PROVE  FALSE
  BY DEF t, l, m
<1> DEFINE I == (1 .. k) \ {a}
           R == UNION {parts[i] : i \in I}
<1>9. t[a] \in Nat /\ t[a] >= m + l
  BY <1>1, <1>2, <1>5
<1>10. \A i \in I : m <= t[i]
  <2> TAKE i \in I
  <2>1. t[i] \in Nat /\ t[a] - t[i] <= l
    BY <1>5, <1>6
  <2> QED
    BY <1>1, <1>2, <1>9, <2>1
<1>11. IsFiniteSet(I) /\ Cardinality(I) = k - 1
  <2>1. IsFiniteSet(1 .. k) /\ Cardinality(1 .. k) = k
    BY <1>1, FS_Interval
  <2> QED
    BY <2>1, FS_RemoveElement
<1>12. IsFiniteSet(R) /\ (k - 1) * m <= SumFunctionOnSet(lens, R)
  <2>1. \A i \in I : /\ IsFiniteSet(parts[i])
                     /\ \A y \in parts[i] : lens[y] \in Int
                     /\ m <= SumFunctionOnSet(lens, parts[i])
    <3> TAKE i \in I
    <3>1. IsFiniteSet(parts[i]) /\ parts[i] \subseteq 1 .. n
      BY <1>3
    <3>2. m <= SumFunctionOnSet(lens, parts[i])
      BY <1>5, <1>10
    <3>3. \A y \in parts[i] : lens[y] \in Int
      BY <1>4, <3>1
    <3> QED
      BY <3>1, <3>2, <3>3
  <2>2. \A i, j \in I : i # j => parts[i] \cap parts[j] = {}
    BY <1>3
  <2>3. m \in Int
    BY <1>1
  <2>4. FullParts(lens, m, I, parts, R)
    BY <1>11, <2>1, <2>2, <2>3 DEF FullParts
  <2> HIDE DEF I, R
  <2>5. IsFiniteSet(R) /\ Cardinality(I) * m <= SumFunctionOnSet(lens, R)
    BY <2>4, SumOfParts
  <2> QED
    BY <1>11, <2>5
<1>13. /\ UNION {parts[i] : i \in 1 .. k} = parts[a] \cup R
       /\ parts[a] \cap R = {}
  BY <1>3
<1> HIDE DEF R, I
<1>14. \A y \in parts[a] \cup R : lens[y] \in Int /\ lens[y] \in Nat
  BY <1>3, <1>4, <1>13, SMTT(30)
<1>15. total = t[a] + SumFunctionOnSet(lens, R)
  <2>1. IsFiniteSet(parts[a])
    BY <1>3
  <2>2. SumFunctionOnSet(lens, parts[a] \cup R)
          = SumFunctionOnSet(lens, parts[a]) + SumFunctionOnSet(lens, R)
    BY <1>12, <1>13, <1>14, <2>1, SumDisjoint
  <2> QED
    BY <1>5, <1>7, <1>13, <2>2
<1>16. SumFunctionOnSet(lens, R) \in Nat
  BY <1>12, <1>14, SumType
<1>17. (k - 1) * m + m = k * m /\ k * m \in Nat /\ (k - 1) * m \in Nat
  BY <1>1
<1> QED
  BY <1>1, <1>2, <1>8, <1>9, <1>12, <1>15, <1>16, <1>17

-----------------------------------------------------------------------------
(* The inductive invariant.                                                *)

Types ==
  /\ opt \in [dynamic : BOOLEAN, balance : BOOLEAN, remax : BOOLEAN]
  /\ len \in [Sample -> Lens]
  /\ phase \in Calls \cup {"join", "balance", "reward", "advantage", "end", "raised"}
  /\ DOMAIN col = Columns
  /\ pc \in [Rank -> {"idle", "start", "reduce", "rearrange", "forward", "step",
                      "restore", "done", "raised"}]
  /\ chunk \in [Rank -> Seq(Nat)] /\ out \in [Rank -> Seq(Nat)]
  /\ grad \in [Rank -> Seq(Nat)] /\ micro \in [Rank -> Seq(Seq(Nat))]
  /\ turn \in [Rank -> Nat] /\ next \in [Rank -> Nat] /\ agreed \in Nat
  /\ seen \in [Sample -> Nat]

(* The columns of the driver: all of them follow the responses, which stay *)
(* an order of the samples.                                                *)
Early    == {"validate", "generate"}
Unjoined == Early \cup {"baseline", "join"}
Rewarded == {"compute_log_prob", "compute_ref_log_prob", "compute_values", "advantage"}

Entry(c, s) == CASE c = "uid"        -> PromptOf(s)
                 [] c = "advantages" -> {t \in Sample : PromptOf(t) = PromptOf(s)}
                 [] OTHER            -> s

Follows(c) == col[c] = <<>> \/ col[c] = [i \in Sample |-> Entry(c, col["responses"][i])]

Driven ==
  /\ phase \in Early => \A c \in Columns : col[c] = <<>>
  /\ phase \notin Early => IsOrder(col["responses"]) /\ \A c \in Columns : Follows(c)
  /\ phase \in {"baseline", "join"} => col["responses"] = GenBatch
  /\ phase \in Unjoined => col["advantages"] = <<>>
  /\ phase \notin Unjoined \cup {"raised"} => col["uid"] # <<>>
  /\ col["advantages"] # <<>> => col["uid"] # <<>>
  /\ phase \in Rewarded => reward = col["responses"]
  /\ phase # "validate" => val = ValBatch
  /\ phase = "baseline" => opt.remax
  /\ phase = "raised" => opt.remax /\ N > 1

(* The mini-batches of a rank: how large, how many, how often, and the     *)
(* rows of the t-th.                                                       *)
Size       == IF phase \in Updates THEN Mini ELSE Q
Parts      == CeilDiv(Q, Size)
Turns      == Parts * (IF phase \in Updates THEN Epochs ELSE 1)
Which(t)   == ((t - 1) % Parts) + 1
MiniLen(t) == IF Which(t) * Size < Q THEN Size ELSE Q - (Which(t) - 1) * Size

(* The ranks are at one place: t is the mini-batch, x the micro-batch.     *)
Moment(S, t, x) ==
  \A r \in Rank : /\ pc[r] \in S
                  /\ turn[r] = IF pc[r] = "start" THEN t - 1 ELSE t
                  /\ pc[r] # "start" => next[r] = x

Stage(t, x) ==
  \/ x = 1 /\ Moment({"start", IF opt.dynamic THEN "reduce" ELSE "forward"}, t, x)
  \/ x = 1 /\ opt.dynamic /\ Moment({"rearrange", "forward"}, t, x)
  \/ Moment({"forward"}, t, x)
  \/ phase \in Updates /\ Moment({"step"}, t, x)
  \/ phase \in Updates /\ t = Turns /\ Moment({"done"}, t, x)
  \/ phase \notin Updates /\ Moment({"restore", "done"}, t, x)

InStep == \E t \in 1 .. Turns : \E x \in {1} \cup {next[r] : r \in Rank} : Stage(t, x)

Pieces(r) == IF opt.dynamic THEN agreed ELSE CeilDiv(MiniLen(turn[r]), MicroSize)

Fits(r) == \A k \in DOMAIN micro[r] :
             Tokens(SeqLens(r), ToSet(micro[r][k])) < MaxTokenLen + Longest(SeqLens(r))

Deals(r) ==
  /\ pc[r] \in {"reduce", "rearrange"} => opt.dynamic
  /\ pc[r] = "rearrange" => Count(r) <= agreed /\ agreed <= MiniLen(turn[r])
  /\ pc[r] \in Together => IsDealt(micro[r], MiniLen(turn[r])) /\ Len(micro[r]) = Pieces(r)
  /\ pc[r] = "forward" => next[r] \in 1 .. Len(micro[r])
  /\ pc[r] \in {"step", "restore"} => next[r] = Len(micro[r]) + 1
  /\ pc[r] = "forward" /\ opt.dynamic => Fits(r)

(* What a rank has run of its mini-batch, and where that went.             *)
Ran(r)    == FlattenSeq(SubSeq(micro[r], 1, next[r] - 1))
Picked(r) == [i \in DOMAIN Ran(r) |-> MiniBatch(r)[Ran(r)[i]]]

Gathers(r) ==
  /\ phase \in Updates =>
       /\ pc[r] \in {"reduce", "rearrange"} => grad[r] = <<>>
       /\ pc[r] \in {"forward", "step"} => grad[r] = Picked(r)
  /\ phase \in Computes =>
       /\ pc[r] \in {"start", "reduce", "rearrange"} => out[r] = <<>>
       /\ pc[r] \in {"forward", "restore"} => out[r] = Picked(r)
       /\ pc[r] = "done" => out[r] = chunk[r]

(* How often the b-th mini-batch was run, of the first d.                  *)
Passes(b, d) == (d \div Parts) + (IF b <= d % Parts THEN 1 ELSE 0)

DoneTurns(r) == IF pc[r] \in {"reduce", "rearrange", "forward"} THEN turn[r] - 1 ELSE turn[r]

Counted(r) ==
  \A j \in 1 .. Q :
    seen[chunk[r][j]] = Passes(((j - 1) \div Mini) + 1, DoneTurns(r))
      + (IF pc[r] = "forward" /\ chunk[r][j] \in ToSet(grad[r]) THEN 1 ELSE 0)

Asleep == pc = [r \in Rank |-> "idle"]

Awake ==
  /\ phase \in Calls
  /\ chunk = [r \in Rank |-> Chunk(Sent, r)]
  /\ phase \in Rollouts =>
       \A r \in Rank : pc[r] = "start" \/ (pc[r] = "done" /\ out[r] = chunk[r])
  /\ phase \notin Rollouts => InStep /\ \A r \in Rank : Deals(r) /\ Gathers(r)
  /\ phase \in Updates => \A r \in Rank : Counted(r)

Inv == Types /\ Driven /\ (Asleep \/ Awake)

-----------------------------------------------------------------------------
(* What the invariant says of a call.                                      *)

LEMMA OrderIsOnto ==
  ASSUME NEW R, IsOrder(R)
  PROVE  \A s \in Sample : \E i \in Sample : R[i] = s
<1>1. R \in Injection(Sample, Sample)
  BY DEF IsOrder, Injection, IsInjective
<1>2. IsFiniteSet(Sample)
  BY SampleFacts
<1>3. R \in Surjection(Sample, Sample)
  BY <1>1, <1>2, FS_Injection
<1> QED
  BY <1>3 DEF Surjection

LEMMA OrderType ==
  ASSUME NEW R, IsOrder(R)
  PROVE  /\ R \in Seq(Nat) /\ Len(R) = Prompts * N /\ DOMAIN R = Sample
         /\ \A i \in Sample : R[i] \in Sample
         /\ Len(R) = DP * Q
<1> DEFINE m == Prompts * N
<1>1. m \in Nat /\ Sample = 1 .. m /\ m = DP * Q
  BY SampleFacts
<1>2. R \in [Sample -> Sample]
  BY DEF IsOrder
<1> HIDE DEF m
<1>3. R \in [1 .. m -> Nat]
  BY <1>1, <1>2
<1>4. R \in Seq(Nat) /\ Len(R) = m
  BY <1>1, <1>3
<1> QED
  BY <1>1, <1>2, <1>4 DEF m

LEMMA GenBatchIsOrder == IsOrder(GenBatch)
BY DEF GenBatch, IsOrder

LEMMA SentFacts ==
  ASSUME Types, Driven, phase \in Calls
  PROVE  /\ Sent \in Seq(Nat)
         /\ \E q \in Nat \ {0} : Len(Sent) = DP * q
         /\ phase # "validate" => IsOrder(Sent)
         /\ phase \notin Rollouts => Sent = col["responses"]
<1>1. CASE phase = "validate"
  <2>1. Sent = Padded(ValBatch)
    BY <1>1 DEF Sent
  <2>2. Sent \in Seq(Nat)
    BY <2>1, Padding
  <2>3. \E q \in Nat \ {0} : Len(Sent) = DP * q
    BY <2>1, Padding
  <2> QED
    BY <1>1, <2>2, <2>3 DEF Rollouts
<1>2. CASE phase # "validate"
  <2>1. IsOrder(Sent) /\ (phase \notin Rollouts => Sent = col["responses"])
    <3>1. CASE phase \in {"generate", "baseline"}
      <4>1. Sent = GenBatch
        BY <3>1 DEF Sent
      <4> QED
        BY <3>1, <4>1, GenBatchIsOrder DEF Rollouts
    <3>2. CASE phase \notin {"generate", "baseline"}
      <4>1. Sent = col["responses"]
        BY <1>2, <3>2 DEF Sent
      <4> QED
        BY <1>2, <3>2, <4>1 DEF Driven, Early
    <3> QED
      BY <3>1, <3>2
  <2>2. Sent \in Seq(Nat) /\ Len(Sent) = DP * Q
    BY <2>1, OrderType
  <2> QED
    BY <1>2, <2>1, <2>2, SampleFacts
<1> QED
  BY <1>1, <1>2

(* Between them the chunks of the ranks have every sample once.            *)
HasRows ==
  /\ \A r \in Rank : chunk[r] \in Seq(Nat) /\ Len(chunk[r]) = Q
  /\ \A r \in Rank : \A j \in 1 .. Q : chunk[r][j] \in Sample
  /\ \A q, r \in Rank : \A i, j \in 1 .. Q : chunk[q][i] = chunk[r][j] => q = r /\ i = j
  /\ \A s \in Sample : \E r \in Rank : \E j \in 1 .. Q : chunk[r][j] = s

LEMMA AwakeHasRows ==
  ASSUME Types, Driven, Awake, phase # "validate"
  PROVE  HasRows
<1> DEFINE R == Sent
<1>1. R \in Seq(Nat) /\ IsOrder(R) /\ chunk = [r \in Rank |-> Chunk(R, r)]
  BY SentFacts DEF Awake
<1> HIDE DEF R
<1>2. Len(R) = DP * Q /\ DOMAIN R = Sample /\ \A i \in Sample : R[i] \in Sample
  BY <1>1, OrderType
<1>3. Q \in Nat \ {0} /\ Sample = 1 .. DP * Q /\ DP \in Nat \ {0} /\ Rank = 1 .. DP
  BY SampleFacts, Constants
<1>4. ASSUME NEW r \in Rank
      PROVE  /\ chunk[r] \in Seq(Nat) /\ Len(chunk[r]) = Q
             /\ \A j \in 1 .. Q : At(Q, r, j) \in Sample /\ chunk[r][j] = R[At(Q, r, j)]
  <2>1. chunk[r] = Chunk(R, r)
    BY <1>1
  <2>2. Chunk(R, r) \in Seq(Nat) /\ Len(Chunk(R, r)) = Q
    BY <1>1, <1>2, <1>3, Chunks
  <2>3. \A j \in 1 .. Q : /\ At(Q, r, j) \in 1 .. Len(R)
                          /\ Chunk(R, r)[j] = R[At(Q, r, j)]
    BY <1>1, <1>2, <1>3, Chunks
  <2> QED
    BY <1>2, <1>3, <2>1, <2>2, <2>3
<1>5. \A r \in Rank : \A j \in 1 .. Q : chunk[r][j] \in Sample
  BY <1>2, <1>4
<1>6. ASSUME NEW q \in Rank, NEW r \in Rank, NEW i \in 1 .. Q, NEW j \in 1 .. Q,
             chunk[q][i] = chunk[r][j]
      PROVE  q = r /\ i = j
  <2>1. At(Q, q, i) = At(Q, r, j)
    BY <1>1, <1>4, <1>6 DEF IsOrder
  <2>2. q \in Nat \ {0} /\ r \in Nat \ {0}
    BY <1>3
  <2> QED
    BY <1>3, <2>1, <2>2, AtIsUnique
<1>7. ASSUME NEW s \in Sample
      PROVE  \E r \in Rank : \E j \in 1 .. Q : chunk[r][j] = s
  <2>1. PICK p \in Sample : R[p] = s
    BY <1>1, OrderIsOnto
  <2> DEFINE r == ((p - 1) \div Q) + 1
             j == ((p - 1) % Q) + 1
  <2>2. r \in 1 .. DP /\ j \in 1 .. Q /\ p = At(Q, r, j)
    BY <1>3, AtMeetsAll
  <2> HIDE DEF r, j
  <2> QED
    BY <1>3, <1>4, <2>1, <2>2
<1> QED
  BY <1>4, <1>5, <1>6, <1>7 DEF HasRows

LEMMA SizeFacts ==
  /\ Q \in Nat \ {0} /\ Size \in Nat \ {0} /\ Parts \in Nat \ {0} /\ Turns \in Nat \ {0}
  /\ MicroSize \in Nat \ {0}
  /\ phase \notin Updates => Size = Q /\ Parts = 1 /\ Turns = 1
  /\ phase \in Updates => Size = Mini /\ Turns = Parts * Epochs
<1>1. Q \in Nat \ {0} /\ Size \in Nat \ {0} /\ MicroSize \in Nat \ {0} /\ Epochs \in Nat \ {0}
  BY SampleFacts, Constants DEF Size, MicroSize
<1>2. Parts \in Nat \ {0}
  BY <1>1, CeilDivBounds DEF Parts
<1>3. CASE phase \in Updates
  <2>1. Size = Mini /\ Turns = Parts * Epochs
    BY <1>3 DEF Size, Turns
  <2>2. Parts * Epochs \in Nat \ {0}
    BY <1>1, <1>2
  <2> QED
    BY <1>1, <1>2, <1>3, <2>1, <2>2
<1>4. CASE phase \notin Updates
  <2>1. Size = Q
    BY <1>4 DEF Size
  <2>2. CeilDiv(Q, Q) = 1
    <3>1. Q - 1 \in 0 .. Q - 1 /\ 1 * Q + (Q - 1) = Q + Q - 1
      BY <1>1
    <3>2. (1 * Q + (Q - 1)) \div Q = 1
      BY <1>1, <3>1, DivisionIsUnique
    <3> QED
      BY <3>1, <3>2 DEF CeilDiv
  <2>3. Parts = 1
    BY <2>1, <2>2 DEF Parts
  <2>4. Turns = 1
    BY <1>4, <2>3 DEF Turns
  <2> QED
    BY <1>1, <1>4, <2>1, <2>3, <2>4
<1> QED
  BY <1>3, <1>4

LEMMA WhichFacts ==
  ASSUME NEW t \in Nat \ {0}
  PROVE  /\ Which(t) \in 1 .. Parts
         /\ MiniLen(t) \in 1 .. Size
         /\ \A j \in 1 .. MiniLen(t) : At(Size, Which(t), j) \in 1 .. Q
         /\ phase \notin Updates => MiniLen(t) = Q /\ Which(t) = 1
<1>1. /\ Q \in Nat \ {0} /\ Size \in Nat \ {0} /\ Parts \in Nat \ {0}
      /\ phase \notin Updates => Size = Q /\ Parts = 1 /\ Turns = 1
  BY SizeFacts
<1> DEFINE i == Which(t)
<1>2. i \in 1 .. Parts
  <2>1. (t - 1) % Parts \in 0 .. Parts - 1
    BY <1>1, Division
  <2> QED
    BY <1>1, <2>1 DEF Which
<1> HIDE DEF i
<1>3. /\ (i - 1) * Size \in Nat /\ i * Size \in Nat
      /\ i * Size = (i - 1) * Size + Size
      /\ (i - 1) * Size < Q
      /\ i < Parts => i * Size < Q
      /\ i = Parts => Q <= i * Size
  BY <1>1, <1>2, Bounds DEF Parts
<1>4. MiniLen(t) = IF i * Size < Q THEN Size ELSE Q - (i - 1) * Size
  BY DEF MiniLen, i
<1>5. MiniLen(t) \in 1 .. Size /\ (i - 1) * Size + MiniLen(t) <= Q
  BY <1>1, <1>3, <1>4
<1>6. \A j \in 1 .. MiniLen(t) : At(Size, i, j) \in 1 .. Q
  BY <1>1, <1>3, <1>5 DEF At
<1>7. phase \notin Updates => MiniLen(t) = Q /\ i = 1
  <2> SUFFICES ASSUME phase \notin Updates PROVE MiniLen(t) = Q /\ i = 1
    OBVIOUS
  <2>1. i = 1 /\ Size = Q
    BY <1>1, <1>2
  <2>2. 1 * Q = Q /\ (1 - 1) * Q = 0
    BY <1>1
  <2> QED
    BY <1>1, <1>4, <2>1, <2>2
<1> QED
  BY <1>2, <1>5, <1>6, <1>7 DEF i

(* The t-th mini-batch of a rank.                                          *)
LEMMA MiniFacts ==
  ASSUME HasRows, NEW r \in Rank
  PROVE  /\ Len(MiniBatches(r)) = Parts /\ Rounds(r) = Turns
         /\ \A t \in Nat \ {0} :
              /\ MiniBatchOf(r, t) \in Seq(Nat) /\ Len(MiniBatchOf(r, t)) = MiniLen(t)
              /\ \A j \in 1 .. MiniLen(t) :
                   MiniBatchOf(r, t)[j] = chunk[r][At(Size, Which(t), j)]
         /\ phase \notin Updates => \A t \in Nat \ {0} : MiniBatchOf(r, t) = chunk[r]
<1>1. Q \in Nat \ {0} /\ Size \in Nat \ {0} /\ Parts \in Nat \ {0}
  BY SizeFacts
<1>2. chunk[r] \in Seq(Nat) /\ Len(chunk[r]) = Q
  BY DEF HasRows
<1>3. MiniBatches(r) = Split(chunk[r], Size)
  BY <1>2 DEF MiniBatches, Size
<1>4. Len(MiniBatches(r)) = Parts
  BY <1>1, <1>2, <1>3, SplitType DEF Parts
<1>5. Rounds(r) = Turns
  BY <1>4 DEF Rounds, Turns
<1>6. ASSUME NEW t \in Nat \ {0}
      PROVE  /\ MiniBatchOf(r, t) \in Seq(Nat) /\ Len(MiniBatchOf(r, t)) = MiniLen(t)
             /\ \A j \in 1 .. MiniLen(t) :
                  MiniBatchOf(r, t)[j] = chunk[r][At(Size, Which(t), j)]
             /\ phase \notin Updates => MiniBatchOf(r, t) = chunk[r]
  <2> DEFINE i == Which(t)
             m == Split(chunk[r], Size)[i]
  <2>1. MiniBatchOf(r, t) = m
    BY <1>3, <1>4 DEF MiniBatchOf, Which
  <2>2. i \in 1 .. CeilDiv(Len(chunk[r]), Size)
    BY <1>2, WhichFacts DEF Parts
  <2>3. m \in Seq(Nat)
    BY <1>1, <1>2, <2>2, SplitPart
  <2>4. Len(m) = IF i * Size < Len(chunk[r]) THEN Size ELSE Len(chunk[r]) - (i - 1) * Size
    BY <1>1, <1>2, <2>2, SplitPart
  <2>5. \A j \in 1 .. Len(m) : /\ At(Size, i, j) \in 1 .. Len(chunk[r])
                               /\ m[j] = chunk[r][At(Size, i, j)]
    BY <1>1, <1>2, <2>2, SplitPart
  <2>6. Len(m) = MiniLen(t)
    BY <1>2, <2>4 DEF MiniLen
  <2>7. phase \notin Updates => m = chunk[r]
    <3> SUFFICES ASSUME phase \notin Updates PROVE m = chunk[r]
      OBVIOUS
    <3>1. Size = Q /\ i = 1
      BY SizeFacts, WhichFacts
    <3>2. Split(chunk[r], Len(chunk[r]))[1] = chunk[r]
      BY <1>1, <1>2, OnePart
    <3> QED
      BY <1>2, <3>1, <3>2
  <2> QED
    BY <2>1, <2>3, <2>5, <2>6, <2>7
<1> QED
  BY <1>4, <1>5, <1>6

LEMMA MiniRows ==
  ASSUME HasRows, NEW r \in Rank, NEW t \in Nat \ {0}
  PROVE  /\ \A j \in 1 .. MiniLen(t) : MiniBatchOf(r, t)[j] \in Sample
         /\ \A i, j \in 1 .. MiniLen(t) :
              MiniBatchOf(r, t)[i] = MiniBatchOf(r, t)[j] => i = j
<1>1. \A j \in 1 .. MiniLen(t) : /\ MiniBatchOf(r, t)[j] = chunk[r][At(Size, Which(t), j)]
                                 /\ At(Size, Which(t), j) \in 1 .. Q
  BY MiniFacts, WhichFacts
<1>2. \A j \in 1 .. MiniLen(t) : MiniBatchOf(r, t)[j] \in Sample
  BY <1>1 DEF HasRows
<1>3. ASSUME NEW i \in 1 .. MiniLen(t), NEW j \in 1 .. MiniLen(t),
             MiniBatchOf(r, t)[i] = MiniBatchOf(r, t)[j]
      PROVE  i = j
  <2>1. At(Size, Which(t), i) = At(Size, Which(t), j)
    BY <1>1, <1>3 DEF HasRows
  <2>2. Size \in Nat \ {0} /\ Parts \in Nat \ {0} /\ Which(t) \in 1 .. Parts
        /\ MiniLen(t) \in 1 .. Size
    BY SizeFacts, WhichFacts
  <2>3. Which(t) \in Nat \ {0} /\ i \in 1 .. Size /\ j \in 1 .. Size
    BY <2>2
  <2> QED
    BY <2>1, <2>2, <2>3, AtIsUnique
<1> QED
  BY <1>2, <1>3

LEMMA LengthFacts ==
  ASSUME Types, HasRows, NEW r \in Rank, turn[r] # 0
  PROVE  /\ IsLengths(MiniLen(turn[r]), SeqLens(r))
         /\ MiniBatch(r) \in Seq(Nat) /\ Len(MiniBatch(r)) = MiniLen(turn[r])
         /\ DOMAIN MiniBatch(r) = 1 .. MiniLen(turn[r])
         /\ Count(r) \in 1 .. MiniLen(turn[r])
         /\ \A k \in Nat : Count(r) <= k =>
              Tokens(SeqLens(r), DOMAIN SeqLens(r)) <= k * MaxTokenLen
<1> DEFINE n == MiniLen(turn[r])
           l == SeqLens(r)
<1>1. turn[r] \in Nat \ {0}
  BY DEF Types
<1>2. n \in Nat \ {0}
  <2>1. n \in 1 .. Size /\ Size \in Nat \ {0}
    BY <1>1, WhichFacts, SizeFacts
  <2> QED
    BY <2>1
<1>3. MiniBatch(r) \in Seq(Nat) /\ Len(MiniBatch(r)) = n
  BY <1>1, MiniFacts DEF MiniBatch
<1>4. \A j \in 1 .. n : MiniBatch(r)[j] \in Sample
  BY <1>1, MiniRows DEF MiniBatch
<1> HIDE DEF n
<1>5. DOMAIN MiniBatch(r) = 1 .. n
  BY <1>2, <1>3
<1>6. l = [i \in 1 .. n |-> len[MiniBatch(r)[i]]]
  BY <1>5 DEF SeqLens
<1> HIDE DEF l
<1>7. \A s \in Sample : len[s] \in 1 .. MaxTokenLen
  BY BatchAssumption DEF Types
<1>8. l \in [1 .. n -> 1 .. MaxTokenLen]
  BY <1>4, <1>6, <1>7
<1>9. IsLengths(n, l)
  BY <1>2, <1>8 DEF IsLengths
<1>10. Len(l) = n
  BY <1>2, <1>6
<1>11. Count(r) = Min({n, CeilDiv(Tokens(l, DOMAIN l), MaxTokenLen)})
  BY <1>10 DEF Count, l
<1>12. Count(r) \in 1 .. n
  BY <1>9, <1>11, CountFacts
<1>13. \A k \in Nat : Count(r) <= k => Tokens(l, DOMAIN l) <= k * MaxTokenLen
  BY <1>9, <1>11, CountFacts
<1> QED
  BY <1>3, <1>5, <1>9, <1>12, <1>13 DEF n, l

-----------------------------------------------------------------------------
(* What the steps of the ranks leave alone.                                *)

Frame == UNCHANGED <<opt, len, phase, col, reward, val, chunk>>

LEMMA FrameFacts ==
  ASSUME Frame
  PROVE  /\ Driven => Driven'
         /\ HasRows => HasRows'
         /\ Sent' = Sent /\ Size' = Size /\ Parts' = Parts /\ Turns' = Turns
         /\ MicroSize' = MicroSize
         /\ \A t : MiniLen(t)' = MiniLen(t)
         /\ \A r, t : MiniBatchOf(r, t)' = MiniBatchOf(r, t)
<1>1. /\ opt' = opt /\ len' = len /\ phase' = phase /\ col' = col /\ reward' = reward
      /\ val' = val /\ chunk' = chunk
  BY DEF Frame
<1>2. Driven => Driven'
  BY <1>1 DEF Driven, Follows, Entry
<1>3. HasRows => HasRows'
  BY <1>1 DEF HasRows
<1>4. Sent' = Sent
  BY <1>1 DEF Sent
<1>5. Size' = Size /\ Parts' = Parts /\ Turns' = Turns /\ MicroSize' = MicroSize
  BY <1>1 DEF Size, Parts, Turns, MicroSize
<1>6. \A t : Which(t)' = Which(t)
  BY <1>5 DEF Which
<1>7. \A t : MiniLen(t)' = MiniLen(t)
  BY <1>5, <1>6 DEF MiniLen
<1>8. \A r : MiniBatches(r)' = MiniBatches(r)
  BY <1>1 DEF MiniBatches
<1>9. \A r, t : MiniBatchOf(r, t)' = MiniBatchOf(r, t)
  BY <1>8 DEF MiniBatchOf
<1> QED
  BY <1>2, <1>3, <1>4, <1>5, <1>7, <1>9

(* A rank whose mini-batch stays the same. *)
LEMMA SameMini ==
  ASSUME Frame, NEW r, turn'[r] = turn[r]
  PROVE  /\ MiniBatch(r)' = MiniBatch(r)
         /\ SeqLens(r)' = SeqLens(r)
         /\ Count(r)' = Count(r)
         /\ MiniLen(turn[r])' = MiniLen(turn[r])
<1>1. MiniBatch(r)' = MiniBatch(r)
  BY FrameFacts DEF MiniBatch
<1>2. len' = len
  BY DEF Frame
<1>3. SeqLens(r)' = SeqLens(r)
  BY <1>1, <1>2 DEF SeqLens
<1>4. Count(r)' = Count(r)
  BY <1>3 DEF Count
<1>5. MiniLen(turn[r])' = MiniLen(turn[r])
  BY FrameFacts DEF MiniLen, Which
<1> QED
  BY <1>1, <1>3, <1>4, <1>5

(* A rank that does nothing. *)
LEMMA Still ==
  ASSUME Frame, NEW r, turn'[r] = turn[r], pc'[r] = pc[r], next'[r] = next[r],
         micro'[r] = micro[r], agreed' = agreed, grad'[r] = grad[r], out'[r] = out[r]
  PROVE  /\ Deals(r) => Deals(r)'
         /\ Gathers(r) => Gathers(r)'
         /\ seen' = seen => (Counted(r) => Counted(r)')
<1>1. /\ MiniBatch(r)' = MiniBatch(r) /\ SeqLens(r)' = SeqLens(r)
      /\ Count(r)' = Count(r) /\ MiniLen(turn[r])' = MiniLen(turn[r])
  BY SameMini
<1>2. opt' = opt /\ phase' = phase /\ chunk' = chunk
  BY DEF Frame
<1>3. MicroSize' = MicroSize /\ Parts' = Parts
  BY FrameFacts
<1>4. Fits(r)' <=> Fits(r)
  BY <1>1 DEF Fits
<1>5. Pieces(r)' = Pieces(r)
  BY <1>1, <1>2, <1>3 DEF Pieces
<1>6. Picked(r)' = Picked(r)
  BY <1>1 DEF Picked, Ran
<1>7. Deals(r) => Deals(r)'
  BY <1>1, <1>2, <1>4, <1>5 DEF Deals
<1>8. Gathers(r) => Gathers(r)'
  BY <1>2, <1>6 DEF Gathers
<1>9. DoneTurns(r)' = DoneTurns(r)
  BY DEF DoneTurns
<1>10. ASSUME seen' = seen, Counted(r)
       PROVE  Counted(r)'
  BY <1>2, <1>3, <1>9, <1>10 DEF Counted, Passes
<1> QED
  BY <1>7, <1>8, <1>10

-----------------------------------------------------------------------------
(* The ranks' place, read from what one or all of them do next.            *)

LEMMA PlaceOf ==
  ASSUME NEW t, NEW x, Stage(t, x), NEW r \in Rank
  PROVE  /\ pc[r] = "start" =>
              x = 1 /\ Moment({"start", IF opt.dynamic THEN "reduce" ELSE "forward"}, t, x)
         /\ pc[r] = "reduce" => x = 1 /\ opt.dynamic /\ Moment({"start", "reduce"}, t, x)
         /\ pc[r] = "rearrange" =>
              x = 1 /\ opt.dynamic /\ Moment({"rearrange", "forward"}, t, x)
         /\ pc[r] = "step" => phase \in Updates /\ Moment({"step"}, t, x)
         /\ pc[r] = "restore" => phase \notin Updates /\ Moment({"restore", "done"}, t, x)
         /\ pc[r] \in {"start", "reduce", "rearrange", "forward", "step", "restore", "done"}
         /\ turn[r] = IF pc[r] = "start" THEN t - 1 ELSE t
         /\ pc[r] # "start" => next[r] = x
<1> DEFINE w == IF opt.dynamic THEN "reduce" ELSE "forward"
<1>0. w \in {"reduce", "forward"} /\ (w = "reduce" => opt.dynamic /\ w = "reduce")
  OBVIOUS
<1>1. CASE x = 1 /\ Moment({"start", w}, t, x)
  <2>1. /\ pc[r] \in {"start", w}
        /\ turn[r] = IF pc[r] = "start" THEN t - 1 ELSE t
        /\ pc[r] # "start" => next[r] = x
    BY <1>1 DEF Moment
  <2>2. pc[r] = "reduce" => w = "reduce"
    BY <2>1
  <2> QED
    BY <1>0, <1>1, <2>1, <2>2
<1>2. CASE x = 1 /\ opt.dynamic /\ Moment({"rearrange", "forward"}, t, x)
  BY <1>2 DEF Moment
<1>3. CASE Moment({"forward"}, t, x)
  BY <1>3 DEF Moment
<1>4. CASE phase \in Updates /\ Moment({"step"}, t, x)
  BY <1>4 DEF Moment
<1>5. CASE phase \in Updates /\ t = Turns /\ Moment({"done"}, t, x)
  BY <1>5 DEF Moment
<1>6. CASE phase \notin Updates /\ Moment({"restore", "done"}, t, x)
  BY <1>6 DEF Moment
<1> QED
  BY <1>1, <1>2, <1>3, <1>4, <1>5, <1>6 DEF Stage

(* Rank r moves on, the others stay where they are. *)
LEMMA OneMoves ==
  ASSUME NEW r \in Rank, NEW S, NEW t, NEW x, Moment(S, t, x),
         \A q \in Rank \ {r} : pc'[q] = pc[q] /\ turn'[q] = turn[q] /\ next'[q] = next[q],
         pc'[r] \in S, pc'[r] # "start", turn'[r] = t, next'[r] = x
  PROVE  Moment(S, t, x)'
<1>1. ASSUME NEW q \in Rank
      PROVE  /\ pc'[q] \in S
             /\ turn'[q] = IF pc'[q] = "start" THEN t - 1 ELSE t
             /\ pc'[q] # "start" => next'[q] = x
  <2>1. CASE q = r
    BY <2>1
  <2>2. CASE q # r
    <3>1. pc'[q] = pc[q] /\ turn'[q] = turn[q] /\ next'[q] = next[q]
      BY <2>2
    <3> QED
      BY <3>1 DEF Moment
  <2> QED
    BY <2>1, <2>2
<1> QED
  BY <1>1 DEF Moment

(* Only the ranks of a call take steps. *)
LEMMA SomeoneAwake ==
  ASSUME Inv, NEW r \in Rank, pc[r] # "idle"
  PROVE  Awake
BY DEF Inv, Asleep

(* What is left to show of such a step. *)
LEMMA StaysAwake ==
  ASSUME Frame, Awake, phase \notin Rollouts, InStep',
         \A q \in Rank : Deals(q)' /\ Gathers(q)' /\ (phase \in Updates => Counted(q)')
  PROVE  Awake'
<1>1. Sent' = Sent /\ phase' = phase /\ chunk' = chunk
  BY FrameFacts DEF Frame
<1>2. chunk' = [q \in Rank |-> Chunk(Sent, q)']
  BY <1>1 DEF Awake, Chunk
<1> QED
  BY <1>1, <1>2 DEF Awake

LEMMA BeginKeepsInv ==
  ASSUME Inv, NEW r \in Rank, Begin(r)
  PROVE  Inv'
<1>1. /\ phase \notin Rollouts /\ pc[r] = "start"
      /\ turn' = [turn EXCEPT ![r] = @ + 1]
      /\ next' = [next EXCEPT ![r] = 1]
      /\ grad' = [grad EXCEPT ![r] = <<>>]
      /\ pc' = [pc EXCEPT ![r] = IF opt.dynamic THEN "reduce" ELSE "forward"]
      /\ micro' = [micro EXCEPT ![r] =
                 IF opt.dynamic THEN <<>>
                 ELSE Split([i \in DOMAIN MiniBatchOf(r, turn[r] + 1) |-> i], MicroSize)]
      /\ Frame /\ agreed' = agreed /\ out' = out /\ seen' = seen
  BY DEF Begin, Frame
<1>2. Types /\ Driven /\ Awake
  BY <1>1, SomeoneAwake DEF Inv
<1>3. HasRows
  BY <1>1, <1>2, AwakeHasRows DEF Rollouts
<1>4. /\ turn \in [Rank -> Nat] /\ next \in [Rank -> Nat] /\ grad \in [Rank -> Seq(Nat)]
      /\ micro \in [Rank -> Seq(Seq(Nat))] /\ out \in [Rank -> Seq(Nat)]
      /\ chunk \in [Rank -> Seq(Nat)] /\ DOMAIN pc = Rank
  BY <1>2 DEF Types
<1>5. /\ turn'[r] = turn[r] + 1 /\ next'[r] = 1 /\ grad'[r] = <<>>
      /\ turn[r] \in Nat /\ turn'[r] \in Nat \ {0}
      /\ pc'[r] = IF opt.dynamic THEN "reduce" ELSE "forward"
      /\ micro'[r] = IF opt.dynamic THEN <<>>
                     ELSE Split([i \in DOMAIN MiniBatchOf(r, turn[r] + 1) |-> i], MicroSize)
      /\ out'[r] = out[r]
  BY <1>1, <1>4
<1>6. \A q \in Rank \ {r} : /\ pc'[q] = pc[q] /\ turn'[q] = turn[q] /\ next'[q] = next[q]
                            /\ micro'[q] = micro[q] /\ grad'[q] = grad[q] /\ out'[q] = out[q]
  BY <1>1, <1>4
<1> DEFINE n == MiniLen(turn[r] + 1)
           m == Split([i \in 1 .. n |-> i], MicroSize)
<1>7. n \in Nat \ {0} /\ MicroSize \in Nat \ {0}
  <2>1. n \in 1 .. Size /\ Size \in Nat \ {0} /\ MicroSize \in Nat \ {0}
    BY <1>5, WhichFacts, SizeFacts
  <2> QED
    BY <2>1
<1>8. DOMAIN MiniBatchOf(r, turn[r] + 1) = 1 .. n
  <2>1. MiniBatchOf(r, turn[r] + 1) \in Seq(Nat) /\ Len(MiniBatchOf(r, turn[r] + 1)) = n
    BY <1>3, <1>5, MiniFacts
  <2> QED
    BY <2>1
<1>9. micro'[r] = IF opt.dynamic THEN <<>> ELSE m
  BY <1>5, <1>8
<1>10. n = MiniLen(turn[r])'
  <2>1. Size' = Size /\ Parts' = Parts
    BY <1>1, FrameFacts
  <2> QED
    BY <1>5, <2>1 DEF MiniLen, Which
<1> HIDE DEF n
<1>11. m \in Seq(Seq(Nat)) /\ Len(m) = CeilDiv(n, MicroSize) /\ IsDealt(m, n)
  BY <1>7, SplitDeals
<1>12. CeilDiv(n, MicroSize) \in Nat \ {0}
  BY <1>7, CeilDivBounds
<1> HIDE DEF m
<1>13. micro'[r] \in Seq(Seq(Nat))
  BY <1>9, <1>11
<1>14. Types'
  <2>1. pc' \in [Rank -> {"idle", "start", "reduce", "rearrange", "forward", "step",
                          "restore", "done", "raised"}]
    BY <1>1, <1>2 DEF Types
  <2>2. turn' \in [Rank -> Nat] /\ next' \in [Rank -> Nat]
    BY <1>1, <1>4
  <2>3. grad' \in [Rank -> Seq(Nat)]
    BY <1>1, <1>4
  <2>4. micro' \in [Rank -> Seq(Seq(Nat))]
    <3>1. micro' = [q \in Rank |-> micro'[q]]
      BY <1>1, <1>4
    <3>2. \A q \in Rank : micro'[q] \in Seq(Seq(Nat))
      BY <1>4, <1>6, <1>13
    <3> QED
      BY <3>1, <3>2
  <2> QED
    BY <1>1, <1>2, <2>1, <2>2, <2>3, <2>4 DEF Types, Frame
<1>15. Driven'
  BY <1>1, <1>2, FrameFacts
<1>16. InStep'
  <2>1. PICK t \in 1 .. Turns : \E x \in {1} \cup {next[q] : q \in Rank} : Stage(t, x)
    BY <1>1, <1>2 DEF Awake, InStep
  <2>2. PICK x \in {1} \cup {next[q] : q \in Rank} : Stage(t, x)
    BY <2>1
  <2> DEFINE w == IF opt.dynamic THEN "reduce" ELSE "forward"
  <2>3. x = 1 /\ Moment({"start", w}, t, x) /\ turn[r] = t - 1
    BY <1>1, <2>2, PlaceOf
  <2>4. t \in Nat /\ w # "start" /\ w' = w
    BY <1>1, SizeFacts DEF Frame
  <2>5. turn'[r] = t
    BY <1>5, <2>3, <2>4
  <2> HIDE DEF w
  <2>6. Moment({"start", w}, t, 1)'
    <3>1. Moment({"start", w}, t, 1) /\ pc'[r] \in {"start", w} /\ pc'[r] # "start"
      BY <1>5, <2>3, <2>4 DEF w
    <3>2. ASSUME NEW q \in Rank
          PROVE  /\ pc'[q] \in {"start", w}
                 /\ turn'[q] = IF pc'[q] = "start" THEN t - 1 ELSE t
                 /\ pc'[q] # "start" => next'[q] = 1
      <4>1. CASE q = r
        BY <1>5, <2>5, <3>1, <4>1
      <4>2. CASE q # r
        <5>1. pc'[q] = pc[q] /\ turn'[q] = turn[q] /\ next'[q] = next[q]
          BY <1>6, <4>2
        <5> QED
          BY <3>1, <5>1 DEF Moment
      <4> QED
        BY <4>1, <4>2
    <3> QED
      BY <2>4, <3>2 DEF Moment
  <2>7. Stage(t, 1)'
    BY <2>6 DEF Stage, w
  <2>8. Turns' = Turns
    BY <1>1, FrameFacts
  <2> QED
    BY <2>7, <2>8 DEF InStep
<1>17. /\ opt' = opt /\ phase' = phase /\ MicroSize' = MicroSize
       /\ chunk' = chunk
  BY <1>1, FrameFacts DEF Frame
<1>18. ASSUME NEW q \in Rank
       PROVE  /\ Deals(q)' /\ Gathers(q)'
              /\ phase \in Updates => Counted(q)'
  <2>1. Deals(q) /\ Gathers(q) /\ (phase \in Updates => Counted(q))
    BY <1>1, <1>2 DEF Awake
  <2>2. CASE q # r
    BY <1>1, <1>6, <2>1, <2>2, Still
  <2>3. CASE q = r
    <3>1. Deals(r)'
      <4>1. CASE opt.dynamic
        <5>1. pc'[r] = "reduce"
          BY <1>5, <4>1
        <5> QED
          BY <1>17, <4>1, <5>1 DEF Deals, Together
      <4>2. CASE ~opt.dynamic
        <5>1. pc'[r] = "forward" /\ micro'[r] = m
          BY <1>5, <1>9, <4>2
        <5>2. Pieces(r)' = CeilDiv(n, MicroSize)
          BY <1>10, <1>17, <4>2 DEF Pieces
        <5>3. IsDealt(micro'[r], MiniLen(turn[r])') /\ Len(micro'[r]) = Pieces(r)'
          BY <1>10, <1>11, <5>1, <5>2
        <5>4. next'[r] \in 1 .. Len(micro'[r])
          BY <1>5, <1>11, <1>12, <5>1
        <5> QED
          BY <1>17, <4>2, <5>1, <5>3, <5>4 DEF Deals
      <4> QED
        BY <4>1, <4>2
    <3>2. Picked(r)' = <<>>
      <4>1. Ran(r)' = <<>>
        <5>1. FlattenSeq(SubSeq(micro'[r], 1, 0)) = <<>>
          BY <1>13, FlattenWhole
        <5> QED
          BY <1>5, <5>1 DEF Ran
      <4> QED
        BY <4>1 DEF Picked
    <3>3. Gathers(r)'
      <4>1. phase \in Computes => out'[r] = <<>>
        BY <1>1, <1>5, <2>1, <2>3 DEF Gathers
      <4>2. pc'[r] \in {"reduce", "forward"}
        BY <1>5
      <4> QED
        BY <1>5, <1>17, <3>2, <4>1, <4>2 DEF Gathers
    <3>4. phase \in Updates => Counted(r)'
      <4>1. DoneTurns(r)' = DoneTurns(r)
        BY <1>1, <1>5 DEF DoneTurns
      <4>2. Parts' = Parts
        BY <1>1, FrameFacts
      <4>3. ToSet(grad'[r]) = {}
        BY <1>5 DEF ToSet
      <4> QED
        BY <1>1, <1>17, <2>1, <2>3, <4>1, <4>2, <4>3 DEF Counted, Passes
    <3> QED
      BY <2>3, <3>1, <3>3, <3>4
  <2> QED
    BY <2>2, <2>3
<1>19. Awake'
  BY <1>1, <1>2, <1>16, <1>18, StaysAwake
<1> QED
  BY <1>14, <1>15, <1>19 DEF Inv

LEMMA AllReduceKeepsInv ==
  ASSUME Inv, AllReduce
  PROVE  Inv'
<1>1. /\ pc = [r \in Rank |-> "reduce"]
      /\ agreed' = Max({Count(r) : r \in Rank})
      /\ pc' = [r \in Rank |-> "rearrange"]
      /\ Frame /\ turn' = turn /\ micro' = micro /\ next' = next
      /\ out' = out /\ grad' = grad /\ seen' = seen
  BY DEF AllReduce, Frame
<1>2. 1 \in Rank
  BY SampleFacts, Constants
<1>3. Types /\ Driven /\ Awake
  <2>1. pc[1] # "idle"
    BY <1>1, <1>2
  <2> QED
    BY <1>2, <2>1, SomeoneAwake DEF Inv
<1>4. phase \notin Rollouts
  <2>1. pc[1] = "reduce"
    BY <1>1, <1>2
  <2> QED
    BY <1>2, <1>3, <2>1 DEF Awake
<1>5. HasRows
  BY <1>3, <1>4, AwakeHasRows DEF Rollouts
<1>6. PICK t \in 1 .. Turns : \E x \in {1} \cup {next[q] : q \in Rank} : Stage(t, x)
  BY <1>3, <1>4 DEF Awake, InStep
<1>7. PICK x \in {1} \cup {next[q] : q \in Rank} : Stage(t, x)
  BY <1>6
<1>8. t \in Nat \ {0}
  BY SizeFacts
<1>9. /\ x = 1 /\ opt.dynamic
      /\ \A q \in Rank : turn[q] = t /\ next[q] = 1
  <2>1. \A q \in Rank : pc[q] = "reduce"
    BY <1>1
  <2>2. x = 1 /\ opt.dynamic
    BY <1>2, <1>7, <2>1, PlaceOf
  <2>3. \A q \in Rank : turn[q] = t /\ next[q] = x
    BY <1>7, <2>1, PlaceOf
  <2> QED
    BY <2>2, <2>3
<1> DEFINE S == {Count(q) : q \in Rank}
<1>10. \A q \in Rank : Count(q) \in 1 .. MiniLen(t)
  BY <1>3, <1>5, <1>8, <1>9, LengthFacts
<1>11. MiniLen(t) \in Nat
  <2>1. MiniLen(t) \in 1 .. Size /\ Size \in Nat
    BY <1>8, WhichFacts, SizeFacts
  <2> QED
    BY <2>1
<1>12. agreed' \in 1 .. MiniLen(t) /\ \A q \in Rank : Count(q) <= agreed'
  <2> DEFINE g == [q \in Rank |-> Count(q)]
  <2>1. S = {g[q] : q \in Rank}
    OBVIOUS
  <2>2. IsFiniteSet(S)
    <3>1. IsFiniteSet(Rank)
      BY SampleFacts
    <3> HIDE DEF g
    <3>2. IsFiniteSet({g[q] : q \in Rank})
      BY <3>1, ImageOfFinite
    <3> QED
      BY <2>1, <3>2
  <2>3. S \in SUBSET Nat /\ S # {} /\ S \subseteq 1 .. MiniLen(t)
    BY <1>2, <1>10, <1>11
  <2>4. \A q \in Rank : Count(q) \in S
    OBVIOUS
  <2>5. agreed' = Max(S)
    BY <1>1
  <2> HIDE DEF S
  <2>6. Max(S) \in S /\ \A y \in S : y <= Max(S)
    BY <2>2, <2>3, MaxFacts
  <2> QED
    BY <2>3, <2>4, <2>5, <2>6
<1>13. Types'
  <2>1. pc' \in [Rank -> {"idle", "start", "reduce", "rearrange", "forward", "step",
                          "restore", "done", "raised"}]
    BY <1>1
  <2>2. agreed' \in Nat
    BY <1>11, <1>12
  <2> QED
    BY <1>1, <1>3, <2>1, <2>2 DEF Types, Frame
<1>14. Driven'
  BY <1>1, <1>3, FrameFacts
<1>15. \A q \in Rank : /\ pc[q] = "reduce" /\ pc'[q] = "rearrange"
                       /\ turn'[q] = turn[q] /\ next'[q] = 1
  BY <1>1, <1>9
<1>16. opt' = opt /\ phase' = phase /\ chunk' = chunk
       /\ Parts' = Parts /\ Turns' = Turns
  BY <1>1, FrameFacts DEF Frame
<1>17. InStep'
  <2>1. Moment({"rearrange", "forward"}, t, 1)'
    BY <1>9, <1>15 DEF Moment
  <2>2. Stage(t, 1)'
    BY <1>9, <1>16, <2>1 DEF Stage
  <2> QED
    BY <1>16, <2>2 DEF InStep
<1>18. ASSUME NEW q \in Rank
       PROVE  Deals(q)' /\ Gathers(q)' /\ (phase \in Updates => Counted(q)')
  <2>1. Deals(q) /\ Gathers(q) /\ (phase \in Updates => Counted(q))
    BY <1>3, <1>4 DEF Awake
  <2>2. Count(q)' = Count(q) /\ MiniLen(turn[q])' = MiniLen(turn[q])
    BY <1>1, <1>15, SameMini
  <2>3. Deals(q)'
    <3>1. Count(q)' <= agreed' /\ agreed' <= MiniLen(turn[q])'
      BY <1>9, <1>11, <1>12, <2>2
    <3> QED
      BY <1>9, <1>15, <1>16, <3>1 DEF Deals, Together
  <2>4. Gathers(q)'
    BY <1>1, <1>15, <1>16, <2>1 DEF Gathers
  <2>5. ASSUME phase \in Updates
        PROVE  Counted(q)'
    <3>1. DoneTurns(q)' = DoneTurns(q)
      BY <1>15 DEF DoneTurns
    <3> QED
      BY <1>1, <1>15, <1>16, <2>1, <2>5, <3>1 DEF Counted, Passes
  <2> QED
    BY <2>3, <2>4, <2>5
<1>19. Awake'
  BY <1>1, <1>3, <1>4, <1>17, <1>18, StaysAwake
<1> QED
  BY <1>13, <1>14, <1>19 DEF Inv

LEMMA GenerateKeepsInv ==
  ASSUME Inv, NEW r \in Rank, Generate(r)
  PROVE  Inv'
<1>1. /\ phase \in Rollouts /\ pc[r] = "start"
      /\ out' = [out EXCEPT ![r] = chunk[r]]
      /\ pc' = [pc EXCEPT ![r] = "done"]
      /\ Frame /\ agreed' = agreed /\ turn' = turn /\ micro' = micro
      /\ next' = next /\ grad' = grad /\ seen' = seen
  BY DEF Generate, Frame
<1>2. Types /\ Driven /\ Awake
  BY <1>1, SomeoneAwake DEF Inv
<1>3. Types'
  <2>1. pc' \in [Rank -> {"idle", "start", "reduce", "rearrange", "forward", "step",
                          "restore", "done", "raised"}]
    BY <1>1, <1>2 DEF Types
  <2>2. out' \in [Rank -> Seq(Nat)]
    BY <1>1, <1>2 DEF Types
  <2> QED
    BY <1>1, <1>2, <2>1, <2>2 DEF Types, Frame
<1>4. Driven'
  BY <1>1, <1>2, FrameFacts
<1>5. Sent' = Sent /\ phase' = phase /\ chunk' = chunk
  BY <1>1, FrameFacts DEF Frame
<1>6. chunk' = [q \in Rank |-> Chunk(Sent, q)']
  BY <1>2, <1>5 DEF Awake, Chunk
<1>7. ASSUME NEW q \in Rank
      PROVE  pc'[q] = "start" \/ (pc'[q] = "done" /\ out'[q] = chunk[q])
  <2>1. DOMAIN pc = Rank /\ DOMAIN out = Rank
    BY <1>2 DEF Types
  <2>2. CASE q = r
    BY <1>1, <2>1, <2>2
  <2>3. CASE q # r
    BY <1>1, <1>2, <2>1, <2>3 DEF Awake
  <2> QED
    BY <2>2, <2>3
<1>8. phase \notin Updates
  BY <1>1 DEF Rollouts, Updates
<1>9. Awake'
  BY <1>1, <1>2, <1>5, <1>6, <1>7, <1>8 DEF Awake
<1> QED
  BY <1>3, <1>4, <1>9 DEF Inv

(* Nothing has been run when next is 1. *)
LEMMA NothingRun ==
  ASSUME NEW m \in Seq(Seq(Nat))
  PROVE  FlattenSeq(SubSeq(m, 1, 1 - 1)) = <<>>
<1>1. FlattenSeq(SubSeq(m, 1, 0)) = <<>>
  BY FlattenWhole
<1> QED
  BY <1>1

LEMMA RearrangeKeepsInv ==
  ASSUME Inv, NEW r \in Rank, Rearrange(r)
  PROVE  Inv'
<1> DEFINE lens == SeqLens(r)
           n == MiniLen(turn[r])
<1>1. /\ pc[r] = "rearrange"
      /\ Frame /\ agreed' = agreed /\ turn' = turn /\ out' = out
      /\ next' = next /\ grad' = grad /\ seen' = seen
  BY DEF Rearrange, Frame
<1>2. Types /\ Driven /\ Awake
  BY <1>1, SomeoneAwake DEF Inv
<1>3. phase \notin Rollouts
  BY <1>1, <1>2 DEF Awake
<1>4. HasRows
  BY <1>2, <1>3, AwakeHasRows DEF Rollouts
<1>5. PICK t \in 1 .. Turns : \E x \in {1} \cup {next[q] : q \in Rank} : Stage(t, x)
  BY <1>2, <1>3 DEF Awake, InStep
<1>6. PICK x \in {1} \cup {next[q] : q \in Rank} : Stage(t, x)
  BY <1>5
<1>7. t \in Nat \ {0}
  BY SizeFacts
<1>8. /\ x = 1 /\ opt.dynamic /\ Moment({"rearrange", "forward"}, t, 1)
      /\ turn[r] = t /\ next[r] = 1
  BY <1>1, <1>6, PlaceOf
<1>9. /\ IsLengths(n, lens) /\ Count(r) \in 1 .. n
      /\ \A k \in Nat : Count(r) <= k => Tokens(lens, DOMAIN lens) <= k * MaxTokenLen
  BY <1>2, <1>4, <1>7, <1>8, LengthFacts
<1>10. /\ n \in Nat \ {0} /\ lens \in [1 .. n -> 1 .. MaxTokenLen] /\ MaxTokenLen \in Nat
       /\ agreed \in Nat
  BY <1>2, <1>9, Constants DEF IsLengths, Types
<1>11. Deals(r) /\ Gathers(r)
  BY <1>2, <1>3 DEF Awake
<1>12. Count(r) <= agreed /\ agreed <= n
  BY <1>1, <1>11 DEF Deals
<1>13. Len(lens) = n
  BY <1>10
<1>14. PICK parts \in Partitions(lens, agreed, FALSE) :
         /\ pc' = [pc EXCEPT ![r] = "forward"]
         /\ micro' = [micro EXCEPT ![r] = InOrder(lens, parts)]
  <2>1. ~(agreed > Len(lens))
    BY <1>10, <1>12, <1>13
  <2>2. /\ pc' = [pc EXCEPT ![r] = "forward"]
        /\ \E order \in {InOrder(lens, parts) : parts \in Partitions(lens, agreed, FALSE)} :
             micro' = [micro EXCEPT ![r] = order]
    BY <2>1 DEF Rearrange
  <2> QED
    BY <2>2
<1> DEFINE m == InOrder(lens, parts)
<1>15. IsDeal(n, lens, agreed, parts)
  <2>1. lens \in [1 .. n -> Nat]
    BY <1>10
  <2> QED
    BY <1>10, <2>1 DEF IsDeal
<1>16. /\ m \in Seq(Seq(Nat)) /\ Len(m) = agreed
       /\ IsDealt(m, n)
       /\ \A a \in 1 .. agreed : \E i \in 1 .. agreed : ToSet(m[a]) = parts[i]
  BY <1>15, InOrderDeals
<1>17. \A i \in 1 .. agreed : Tokens(lens, parts[i]) < MaxTokenLen + Longest(lens)
  <2>1. Tokens(lens, DOMAIN lens) <= agreed * MaxTokenLen
    BY <1>9, <1>10, <1>12
  <2> QED
    BY <1>9, <1>15, <2>1, PartsFit
<1> HIDE DEF m
<1>18. \A k \in DOMAIN m : Tokens(lens, ToSet(m[k])) < MaxTokenLen + Longest(lens)
  <2>1. DOMAIN m = 1 .. agreed
    BY <1>16
  <2> HIDE DEF lens
  <2> QED
    BY <1>16, <1>17, <2>1
<1>19. /\ DOMAIN pc = Rank /\ DOMAIN micro = Rank
       /\ \A q \in Rank : micro[q] \in Seq(Seq(Nat))
  BY <1>2 DEF Types
<1>20. pc'[r] = "forward" /\ micro'[r] = m
  BY <1>14, <1>19 DEF m
<1>21. \A q \in Rank \ {r} : pc'[q] = pc[q] /\ micro'[q] = micro[q]
  BY <1>14, <1>19
<1>22. Types'
  <2>1. pc' \in [Rank -> {"idle", "start", "reduce", "rearrange", "forward", "step",
                          "restore", "done", "raised"}]
    BY <1>2, <1>14 DEF Types
  <2>2. micro' \in [Rank -> Seq(Seq(Nat))]
    <3>1. DOMAIN micro' = Rank /\ micro' = [q \in Rank |-> micro'[q]]
      BY <1>14, <1>19
    <3>2. \A q \in Rank : micro'[q] \in Seq(Seq(Nat))
      BY <1>16, <1>19, <1>20, <1>21
    <3> QED
      BY <3>1, <3>2
  <2> QED
    BY <1>1, <1>2, <2>1, <2>2 DEF Types, Frame
<1>23. Driven'
  BY <1>1, <1>2, FrameFacts
<1>24. opt' = opt /\ phase' = phase /\ chunk' = chunk /\ Parts' = Parts /\ Turns' = Turns
  BY <1>1, FrameFacts DEF Frame
<1>25. InStep'
  <2>1. Moment({"rearrange", "forward"}, t, 1)'
    BY <1>1, <1>8, <1>20, <1>21, OneMoves
  <2>2. Stage(t, 1)'
    BY <1>8, <1>24, <2>1 DEF Stage
  <2> QED
    BY <1>24, <2>2 DEF InStep
<1>26. /\ SeqLens(r)' = lens /\ MiniLen(turn[r])' = n
  BY <1>1, SameMini
<1>27. Deals(r)'
  <2>1. Pieces(r)' = agreed
    BY <1>1, <1>8, <1>24 DEF Pieces
  <2>2. IsDealt(micro'[r], MiniLen(turn[r])') /\ Len(micro'[r]) = Pieces(r)'
    BY <1>16, <1>20, <1>26, <2>1
  <2>3. next'[r] \in 1 .. Len(micro'[r])
    BY <1>1, <1>8, <1>9, <1>10, <1>12, <1>16, <1>20
  <2>4. Fits(r)'
    BY <1>18, <1>20, <1>26 DEF Fits
  <2> QED
    BY <1>20, <2>2, <2>3, <2>4 DEF Deals
<1>28. Gathers(r)'
  <2>1. Ran(r)' = <<>>
    BY <1>1, <1>8, <1>16, <1>20, NothingRun DEF Ran
  <2>2. Picked(r)' = <<>>
    BY <2>1 DEF Picked
  <2> QED
    BY <1>1, <1>11, <1>20, <1>24, <2>2 DEF Gathers
<1>29. ASSUME NEW q \in Rank
       PROVE  Deals(q)' /\ Gathers(q)' /\ (phase \in Updates => Counted(q)')
  <2>1. Deals(q) /\ Gathers(q) /\ (phase \in Updates => Counted(q))
    BY <1>2, <1>3 DEF Awake
  <2>2. CASE q # r
    BY <1>1, <1>21, <2>1, <2>2, Still
  <2>3. CASE q = r
    <3>1. ASSUME phase \in Updates
          PROVE  Counted(r)'
      <4>1. DoneTurns(r)' = DoneTurns(r)
        BY <1>1, <1>20 DEF DoneTurns
      <4>2. grad'[r] = <<>>
        BY <1>1, <1>11, <3>1 DEF Gathers
      <4>3. ToSet(grad'[r]) = {}
        BY <4>2 DEF ToSet
      <4> QED
        BY <1>1, <1>24, <2>1, <2>3, <3>1, <4>1, <4>3 DEF Counted, Passes
    <3> QED
      BY <1>27, <1>28, <2>3, <3>1
  <2> QED
    BY <2>2, <2>3
<1>30. Awake'
  BY <1>1, <1>2, <1>3, <1>25, <1>29, StaysAwake
<1> QED
  BY <1>22, <1>23, <1>30 DEF Inv

LEMMA RestoreKeepsInv ==
  ASSUME Inv, NEW r \in Rank, Restore(r)
  PROVE  Inv'
<1>1. /\ pc[r] = "restore"
      /\ out' = [out EXCEPT ![r] = Restored(FlattenSeq(micro[r]), @)]
      /\ pc' = [pc EXCEPT ![r] = "done"]
      /\ Frame /\ agreed' = agreed /\ turn' = turn /\ micro' = micro
      /\ next' = next /\ grad' = grad /\ seen' = seen
  BY DEF Restore, Frame
<1>2. Types /\ Driven /\ Awake
  BY <1>1, SomeoneAwake DEF Inv
<1>3. phase \notin Rollouts
  BY <1>1, <1>2 DEF Awake
<1>4. HasRows
  BY <1>2, <1>3, AwakeHasRows DEF Rollouts
<1>5. PICK t \in 1 .. Turns : \E x \in {1} \cup {next[q] : q \in Rank} : Stage(t, x)
  BY <1>2, <1>3 DEF Awake, InStep
<1>6. PICK x \in {1} \cup {next[q] : q \in Rank} : Stage(t, x)
  BY <1>5
<1>7. t \in Nat \ {0}
  BY SizeFacts
<1>8. /\ phase \notin Updates /\ Moment({"restore", "done"}, t, x)
      /\ turn[r] = t /\ next[r] = x
  BY <1>1, <1>6, PlaceOf
<1>9. phase \in Computes
  BY <1>2, <1>3, <1>8 DEF Awake, Calls
<1>10. Deals(r) /\ Gathers(r)
  BY <1>2, <1>3 DEF Awake
<1>11. /\ DOMAIN pc = Rank /\ DOMAIN out = Rank /\ next[r] \in Nat
       /\ \A q \in Rank : out[q] \in Seq(Nat)
  BY <1>2 DEF Types
<1>12. pc'[r] = "done" /\ out'[r] = Restored(FlattenSeq(micro[r]), out[r])
  BY <1>1, <1>11
<1>13. \A q \in Rank \ {r} : pc'[q] = pc[q] /\ out'[q] = out[q]
  BY <1>1, <1>11
<1>14. out'[r] = chunk[r]
  <2> DEFINE d == chunk[r]
             m == micro[r]
             p == FlattenSeq(m)
  <2>1. MiniBatch(r) = d /\ MiniLen(turn[r]) = Q
    BY <1>4, <1>7, <1>8, MiniFacts, WhichFacts DEF MiniBatch
  <2>2. d \in Seq(Nat) /\ Len(d) = Q /\ Q \in Nat
    BY <1>4, SampleFacts DEF HasRows
  <2>3. IsDealt(m, Q) /\ next[r] = Len(m) + 1
    BY <1>1, <1>10, <2>1 DEF Deals, Together
  <2>4. m \in Seq(Seq(Nat)) /\ Len(m) \in Nat /\ next[r] - 1 = Len(m)
    <3>1. m \in Seq(Seq(Nat))
      BY <2>3 DEF IsDealt
    <3>2. Len(m) \in Nat
      BY <3>1
    <3> QED
      BY <2>3, <3>1, <3>2
  <2>5. Ran(r) = FlattenSeq(SubSeq(m, 1, Len(m)))
    BY <2>4 DEF Ran
  <2>6. Len(m) \in 0 .. Len(m)
    BY <2>4
  <2>7. Ran(r) = p /\ IsPermutation(p, Q)
    BY <2>2, <2>3, <2>5, <2>6, DealtPrefix
  <2>8. out[r] = [i \in DOMAIN p |-> d[p[i]]]
    BY <1>1, <1>9, <1>10, <2>1, <2>7 DEF Gathers, Picked
  <2> HIDE DEF p, d
  <2>9. Restored(p, [i \in DOMAIN p |-> d[p[i]]]) = d
    BY <2>2, <2>7, RestoredFacts
  <2> QED
    BY <1>12, <2>8, <2>9 DEF p, d
<1>15. Types'
  <2>1. pc' \in [Rank -> {"idle", "start", "reduce", "rearrange", "forward", "step",
                          "restore", "done", "raised"}]
    BY <1>1, <1>2 DEF Types
  <2>2. out' \in [Rank -> Seq(Nat)]
    <3>1. out' = [q \in Rank |-> out'[q]]
      BY <1>1, <1>11
    <3>2. \A q \in Rank : out'[q] \in Seq(Nat)
      BY <1>4, <1>11, <1>13, <1>14 DEF HasRows
    <3> QED
      BY <3>1, <3>2
  <2> QED
    BY <1>1, <1>2, <2>1, <2>2 DEF Types, Frame
<1>16. Driven'
  BY <1>1, <1>2, FrameFacts
<1>17. opt' = opt /\ phase' = phase /\ chunk' = chunk /\ Parts' = Parts /\ Turns' = Turns
  BY <1>1, FrameFacts DEF Frame
<1>18. InStep'
  <2>1. Moment({"restore", "done"}, t, x)'
    BY <1>1, <1>8, <1>12, <1>13, OneMoves
  <2>2. Stage(t, x)'
    BY <1>8, <1>17, <2>1 DEF Stage
  <2>3. x \in {1} \cup {next'[q] : q \in Rank}
    BY <1>1, <1>6
  <2> QED
    BY <1>17, <2>2, <2>3 DEF InStep
<1>19. ASSUME NEW q \in Rank
       PROVE  Deals(q)' /\ Gathers(q)' /\ (phase \in Updates => Counted(q)')
  <2>1. Deals(q) /\ Gathers(q)
    BY <1>2, <1>3 DEF Awake
  <2>2. CASE q # r
    BY <1>1, <1>8, <1>13, <2>1, <2>2, Still
  <2>3. CASE q = r
    <3>1. Deals(r)'
      BY <1>12 DEF Deals, Together
    <3>2. Gathers(r)'
      BY <1>8, <1>12, <1>14, <1>17 DEF Gathers
    <3> QED
      BY <1>8, <2>3, <3>1, <3>2
  <2> QED
    BY <2>2, <2>3
<1>20. Awake'
  BY <1>1, <1>2, <1>3, <1>18, <1>19, StaysAwake
<1> QED
  BY <1>15, <1>16, <1>20 DEF Inv

LEMMA StepKeepsInv ==
  ASSUME Inv, Step
  PROVE  Inv'
<1>1. /\ pc = [r \in Rank |-> "step"]
      /\ pc' = [r \in Rank |-> IF turn[r] < Rounds(r) THEN "start" ELSE "done"]
      /\ grad' = grad \/ grad' = [r \in Rank |-> <<>>]
      /\ Frame /\ agreed' = agreed /\ turn' = turn /\ micro' = micro
      /\ next' = next /\ out' = out /\ seen' = seen
  BY DEF Step, Frame
<1>2. 1 \in Rank /\ \A q \in Rank : pc[q] = "step"
  BY <1>1, SampleFacts, Constants
<1>3. Types /\ Driven /\ Awake
  <2>1. pc[1] # "idle"
    BY <1>2
  <2> QED
    BY <1>2, <2>1, SomeoneAwake DEF Inv
<1>4. phase \notin Rollouts
  <2>1. pc[1] = "step"
    BY <1>2
  <2> QED
    BY <1>2, <1>3, <2>1 DEF Awake
<1>5. HasRows
  BY <1>3, <1>4, AwakeHasRows DEF Rollouts
<1>6. PICK t \in 1 .. Turns : \E x \in {1} \cup {next[q] : q \in Rank} : Stage(t, x)
  BY <1>3, <1>4 DEF Awake, InStep
<1>7. PICK x \in {1} \cup {next[q] : q \in Rank} : Stage(t, x)
  BY <1>6
<1>8. t \in Nat \ {0} /\ Turns \in Nat
  BY SizeFacts
<1>9. phase \in Updates /\ \A q \in Rank : turn[q] = t /\ next[q] = x
  <2>1. phase \in Updates
    BY <1>2, <1>7, PlaceOf
  <2>2. \A q \in Rank : turn[q] = t /\ next[q] = x
    BY <1>2, <1>7, PlaceOf
  <2> QED
    BY <2>1, <2>2
<1>10. \A q \in Rank : /\ pc'[q] = IF t < Turns THEN "start" ELSE "done"
                       /\ turn'[q] = t /\ next'[q] = x
  <2>1. \A q \in Rank : Rounds(q) = Turns
    BY <1>5, MiniFacts
  <2> QED
    BY <1>1, <1>9, <2>1
<1>11. Types'
  <2>1. pc' \in [Rank -> {"idle", "start", "reduce", "rearrange", "forward", "step",
                          "restore", "done", "raised"}]
    BY <1>1
  <2>2. grad' \in [Rank -> Seq(Nat)]
    <3>1. grad \in [Rank -> Seq(Nat)] /\ <<>> \in Seq(Nat)
      BY <1>3 DEF Types
    <3>2. [q \in Rank |-> <<>>] \in [Rank -> Seq(Nat)]
      BY <3>1
    <3>3. CASE grad' = grad
      BY <3>1, <3>3
    <3>4. CASE grad' = [q \in Rank |-> <<>>]
      BY <3>2, <3>4
    <3> QED
      BY <1>1, <3>3, <3>4
  <2> QED
    BY <1>1, <1>3, <2>1, <2>2 DEF Types, Frame
<1>12. Driven'
  BY <1>1, <1>3, FrameFacts
<1>13. opt' = opt /\ phase' = phase /\ chunk' = chunk /\ Parts' = Parts /\ Turns' = Turns
  BY <1>1, FrameFacts DEF Frame
<1>14. InStep'
  <2>1. CASE t < Turns
    <3>1. t + 1 \in 1 .. Turns /\ (t + 1) - 1 = t
      BY <1>8, <2>1
    <3>2. Moment({"start", IF opt.dynamic THEN "reduce" ELSE "forward"}, t + 1, 1)'
      BY <1>10, <2>1, <3>1 DEF Moment
    <3>3. Stage(t + 1, 1)'
      BY <3>2 DEF Stage
    <3> QED
      BY <1>13, <3>1, <3>3 DEF InStep
  <2>2. CASE ~(t < Turns)
    <3>1. t = Turns
      BY <1>8, <2>2
    <3>2. Moment({"done"}, t, x)'
      BY <1>10, <2>2 DEF Moment
    <3>3. Stage(t, x)'
      BY <1>9, <1>13, <3>1, <3>2 DEF Stage
    <3>4. x \in {1} \cup {next'[q] : q \in Rank}
      BY <1>1, <1>7
    <3> QED
      BY <1>13, <3>3, <3>4 DEF InStep
  <2> QED
    BY <2>1, <2>2
<1>15. ASSUME NEW q \in Rank
       PROVE  Deals(q)' /\ Gathers(q)' /\ (phase \in Updates => Counted(q)')
  <2>1. Counted(q)
    BY <1>3, <1>9 DEF Awake
  <2>2. pc'[q] \in {"start", "done"} /\ pc[q] = "step" /\ turn'[q] = turn[q]
    BY <1>1, <1>2, <1>10
  <2>3. Deals(q)'
    BY <2>2 DEF Deals, Together
  <2>4. phase' \in Updates /\ phase' \notin Computes
    BY <1>9, <1>13 DEF Updates, Computes
  <2>5. Gathers(q)'
    BY <2>2, <2>4 DEF Gathers
  <2>6. DoneTurns(q)' = DoneTurns(q)
    BY <2>2 DEF DoneTurns
  <2>7. Counted(q)'
    BY <1>1, <1>13, <2>1, <2>2, <2>6 DEF Counted, Passes
  <2> QED
    BY <2>3, <2>5, <2>7
<1>16. Awake'
  BY <1>1, <1>3, <1>4, <1>14, <1>15, StaysAwake
<1> QED
  BY <1>11, <1>12, <1>16 DEF Inv

-----------------------------------------------------------------------------
(* A forward pass.                                                         *)

(* Looking up what two lists have, one after the other. *)
InRange(a, n) == a \in Seq(Nat) /\ \A i \in DOMAIN a : a[i] \in 1 .. n
Through(d, a) == [i \in DOMAIN a |-> d[a[i]]]
IsTable(d, n) == n \in Nat /\ d \in [1 .. n -> Nat]

LEMMA LookUp ==
  ASSUME NEW n, NEW d, IsTable(d, n),
         NEW a, InRange(a, n), NEW b, InRange(b, n)
  PROVE  /\ Through(d, a) \in Seq(Nat) /\ Through(d, b) \in Seq(Nat)
         /\ Through(d, a \o b) = Through(d, a) \o Through(d, b)
<1> DEFINE A == Through(d, a)
           B == Through(d, b)
           k == Len(a)
           l == Len(b)
           C == Through(d, a \o b)
<1>0. /\ a \in Seq(Nat) /\ \A i \in DOMAIN a : a[i] \in 1 .. n
      /\ b \in Seq(Nat) /\ \A i \in DOMAIN b : b[i] \in 1 .. n
      /\ d \in [1 .. n -> Nat]
  BY DEF InRange, IsTable
<1>1. k \in Nat /\ l \in Nat /\ DOMAIN a = 1 .. k /\ DOMAIN b = 1 .. l
  BY <1>0
<1>2. /\ DOMAIN (a \o b) = 1 .. k + l
      /\ \A i \in 1 .. k : (a \o b)[i] = a[i]
      /\ \A i \in k + 1 .. k + l : (a \o b)[i] = b[i - k]
  <2>1. DOMAIN (a \o b) = 1 .. k + l
    BY <1>0
  <2>2. \A i \in 1 .. k : (a \o b)[i] = a[i]
    BY <1>0
  <2>3. \A i \in k + 1 .. k + l : (a \o b)[i] = b[i - k]
    BY <1>0
  <2> QED
    BY <2>1, <2>2, <2>3
<1> HIDE DEF k, l
<1>3. A \in [1 .. k -> Nat] /\ B \in [1 .. l -> Nat]
  BY <1>0, <1>1 DEF Through
<1>4. A \in Seq(Nat) /\ B \in Seq(Nat) /\ Len(A) = k /\ Len(B) = l
  BY <1>1, <1>3
<1>5. /\ \A i \in 1 .. k : A[i] = d[a[i]]
      /\ \A i \in 1 .. l : B[i] = d[b[i]]
  BY <1>1 DEF Through
<1> HIDE DEF A, B
<1>6. /\ A \o B \in Seq(Nat) /\ Len(A \o B) = k + l /\ DOMAIN (A \o B) = 1 .. k + l
      /\ \A i \in 1 .. k : (A \o B)[i] = A[i]
      /\ \A i \in k + 1 .. k + l : (A \o B)[i] = B[i - k]
  <2>1. A \o B \in Seq(Nat)
    BY <1>4
  <2>2. Len(A \o B) = k + l
    BY <1>4, ConcatProperties
  <2>3. DOMAIN (A \o B) = 1 .. k + l
    BY <2>1, <2>2
  <2>4. \A i \in 1 .. k : (A \o B)[i] = A[i]
    BY <1>1, <1>4
  <2>5. \A i \in k + 1 .. k + l : (A \o B)[i] = B[i - k]
    <3>1. SUFFICES ASSUME NEW i \in k + 1 .. k + l
                   PROVE  (A \o B)[i] = B[i - k]
      OBVIOUS
    <3>2. i \in 1 .. Len(A) + Len(B) /\ ~(i <= Len(A))
      BY <1>1, <1>4
    <3> QED
      BY <1>4, <3>2, ConcatProperties
  <2> QED
    BY <2>1, <2>2, <2>3, <2>4, <2>5
<1>7. ASSUME NEW i \in 1 .. k + l
      PROVE  d[(a \o b)[i]] = (A \o B)[i]
  <2>1. CASE i \in 1 .. k
    BY <1>2, <1>5, <1>6, <2>1
  <2>2. CASE i \notin 1 .. k
    <3>1. i \in k + 1 .. k + l /\ i - k \in 1 .. l
      BY <1>1, <2>2
    <3>2. (a \o b)[i] = b[i - k]
      BY <1>2, <3>1
    <3>3. (A \o B)[i] = B[i - k]
      BY <1>6, <3>1
    <3>4. B[i - k] = d[b[i - k]]
      BY <1>5, <3>1
    <3> QED
      BY <3>2, <3>3, <3>4
  <2> QED
    BY <2>1, <2>2
<1>8. C = [i \in 1 .. k + l |-> (A \o B)[i]]
  BY <1>2, <1>7 DEF Through
<1>9. A \o B = [i \in 1 .. k + l |-> (A \o B)[i]]
  <2> DEFINE D == A \o B
  <2>1. D \in Seq(Nat) /\ DOMAIN D = 1 .. k + l
    BY <1>6
  <2> HIDE DEF D
  <2>2. D = [i \in 1 .. k + l |-> D[i]]
    BY <2>1
  <2> QED
    BY <2>2 DEF D
<1> QED
  BY <1>4, <1>8, <1>9 DEF A, B

(* What is picked with one micro-batch more. *)
LEMMA PickedNext ==
  ASSUME Types, HasRows, NEW r \in Rank, turn[r] # 0,
         IsDealt(micro[r], MiniLen(turn[r])), next[r] \in 1 .. Len(micro[r])
  PROVE  LET p == FlattenSeq(SubSeq(micro[r], 1, next[r]))
         IN  /\ Rows(r) \in Seq(Nat) /\ Picked(r) \in Seq(Nat)
             /\ Through(MiniBatch(r), p) = Picked(r) \o Rows(r)
             /\ \A s : s \in ToSet(Rows(r)) <=>
                  \E i \in DOMAIN micro[r][next[r]] : s = MiniBatch(r)[micro[r][next[r]][i]]
             /\ \A s : s \in ToSet(Picked(r)) <=>
                  \E a \in 1 .. next[r] - 1 : \E i \in DOMAIN micro[r][a] :
                    s = MiniBatch(r)[micro[r][a][i]]
<1> DEFINE m == micro[r]
           x == next[r]
           n == MiniLen(turn[r])
           d == MiniBatch(r)
           a == FlattenSeq(SubSeq(m, 1, x - 1))
           b == m[x]
           p == FlattenSeq(SubSeq(m, 1, x))
<1>1. d \in Seq(Nat) /\ Len(d) = n /\ DOMAIN d = 1 .. n
  BY LengthFacts
<1>2. n \in Nat /\ d \in [1 .. n -> Nat]
  <2>1. Len(d) \in Nat
    BY <1>1
  <2> HIDE DEF d
  <2> QED
    BY <1>1, <2>1
<1>3. m \in Seq(Seq(Nat)) /\ Len(m) \in Nat /\ x \in 1 .. Len(m) /\ DOMAIN m = 1 .. Len(m)
  <2>1. m \in Seq(Seq(Nat))
    BY DEF IsDealt
  <2> QED
    BY <2>1
<1>4. b \in Seq(Nat) /\ \A i \in DOMAIN b : b[i] \in 1 .. n
  <2>1. x \in DOMAIN m
    BY <1>3
  <2>2. b \in Seq(Nat)
    BY <1>3, <2>1
  <2> QED
    BY <2>1, <2>2 DEF IsDealt
<1>5. x - 1 \in 0 .. Len(m)
  BY <1>3
<1>6. /\ a \in Seq(Nat) /\ \A i \in DOMAIN a : a[i] \in 1 .. n
      /\ \A h \in 1 .. x - 1 : \A i \in DOMAIN m[h] : \E j \in DOMAIN a : a[j] = m[h][i]
      /\ \A j \in DOMAIN a : \E h \in 1 .. x - 1 : \E i \in DOMAIN m[h] : a[j] = m[h][i]
  <2> HIDE DEF m, n, x
  <2>0. IsDealt(m, n)
    BY DEF m, n
  <2>1. a \in Seq(Nat) /\ \A i \in DOMAIN a : a[i] \in 1 .. n
    BY <1>2, <1>5, <2>0, DealtPrefix
  <2>2. \A h \in 1 .. x - 1 : \A i \in DOMAIN m[h] : \E j \in DOMAIN a : a[j] = m[h][i]
    BY <1>2, <1>5, <2>0, DealtPrefix
  <2>3. \A j \in DOMAIN a : \E h \in 1 .. x - 1 : \E i \in DOMAIN m[h] : a[j] = m[h][i]
    BY <1>2, <1>5, <2>0, DealtPrefix
  <2> QED
    BY <2>1, <2>2, <2>3
<1>7. p = a \o b
  <2> HIDE DEF m, x
  <2> QED
    BY <1>3, FlattenLast
<1>8. Picked(r) = Through(d, a) /\ Rows(r) = Through(d, b)
  BY DEF Picked, Ran, Rows, Through
<1> HIDE DEF a, b, p, d, n, m, x
<1>9. /\ Picked(r) \in Seq(Nat) /\ Rows(r) \in Seq(Nat)
      /\ Through(d, p) = Picked(r) \o Rows(r)
  <2>1. InRange(a, n) /\ InRange(b, n) /\ IsTable(d, n)
    BY <1>2, <1>4, <1>6 DEF InRange, IsTable
  <2>2. /\ Through(d, a) \in Seq(Nat) /\ Through(d, b) \in Seq(Nat)
        /\ Through(d, a \o b) = Through(d, a) \o Through(d, b)
    BY <2>1, LookUp
  <2> QED
    BY <1>7, <1>8, <2>2
<1>10. ASSUME NEW s
       PROVE  s \in ToSet(Rows(r)) <=> \E i \in DOMAIN b : s = d[b[i]]
  BY <1>8 DEF ToSet, Through
<1>11. ASSUME NEW s
       PROVE  s \in ToSet(Picked(r)) <=>
                \E h \in 1 .. x - 1 : \E i \in DOMAIN m[h] : s = d[m[h][i]]
  <2>1. s \in ToSet(Picked(r)) <=> \E j \in DOMAIN a : s = d[a[j]]
    BY <1>8 DEF ToSet, Through
  <2>2. (\E j \in DOMAIN a : s = d[a[j]])
          <=> \E h \in 1 .. x - 1 : \E i \in DOMAIN m[h] : s = d[m[h][i]]
    BY <1>6
  <2> QED
    BY <2>1, <2>2
<1> QED
  <2>1. \A s : s \in ToSet(Rows(r)) <=> \E i \in DOMAIN b : s = d[b[i]]
    BY <1>10
  <2>2. \A s : s \in ToSet(Picked(r)) <=>
                \E h \in 1 .. x - 1 : \E i \in DOMAIN m[h] : s = d[m[h][i]]
    BY <1>11
  <2> QED
    BY <1>9, <2>1, <2>2 DEF p, d, b, m, x

(* The entries of two lists, one after the other. *)
LEMMA InBoth ==
  ASSUME NEW a \in Seq(Nat), NEW b \in Seq(Nat), NEW s
  PROVE  s \in ToSet(a \o b) <=> s \in ToSet(a) \/ s \in ToSet(b)
<1> DEFINE k == Len(a)
           l == Len(b)
<1>1. k \in Nat /\ l \in Nat /\ DOMAIN a = 1 .. k /\ DOMAIN b = 1 .. l
  OBVIOUS
<1>2. /\ a \o b \in Seq(Nat) /\ Len(a \o b) = k + l
      /\ \A i \in 1 .. k + l : (a \o b)[i] = IF i <= k THEN a[i] ELSE b[i - k]
  BY ConcatProperties
<1>3. DOMAIN (a \o b) = 1 .. k + l
  BY <1>2
<1> HIDE DEF k, l
<1>4. s \in ToSet(a \o b) <=> \E i \in 1 .. k + l : s = (a \o b)[i]
  BY <1>3 DEF ToSet
<1>5. s \in ToSet(a) <=> \E i \in 1 .. k : s = a[i]
  BY <1>1 DEF ToSet
<1>6. s \in ToSet(b) <=> \E i \in 1 .. l : s = b[i]
  BY <1>1 DEF ToSet
<1>7. ASSUME NEW i \in 1 .. k + l, s = (a \o b)[i]
      PROVE  (\E j \in 1 .. k : s = a[j]) \/ (\E j \in 1 .. l : s = b[j])
  <2>1. CASE i <= k
    BY <1>1, <1>2, <1>7, <2>1
  <2>2. CASE ~(i <= k)
    <3>1. i - k \in 1 .. l /\ s = b[i - k]
      BY <1>1, <1>2, <1>7, <2>2
    <3> QED
      BY <3>1
  <2> QED
    BY <2>1, <2>2
<1>8. ASSUME NEW i \in 1 .. k, s = a[i]
      PROVE  \E j \in 1 .. k + l : s = (a \o b)[j]
  <2>1. i \in 1 .. k + l /\ i <= k
    BY <1>1
  <2> QED
    BY <1>2, <1>8, <2>1
<1>9. ASSUME NEW i \in 1 .. l, s = b[i]
      PROVE  \E j \in 1 .. k + l : s = (a \o b)[j]
  <2>1. k + i \in 1 .. k + l /\ ~(k + i <= k) /\ (k + i) - k = i
    BY <1>1
  <2>2. (a \o b)[k + i] = b[i]
    BY <1>2, <2>1
  <2> QED
    BY <1>9, <2>1, <2>2
<1> QED
  BY <1>4, <1>5, <1>6, <1>7, <1>8, <1>9

(* The turns of a mini-batch come in turn. *)
LEMMA OneMorePass ==
  ASSUME NEW t \in Nat \ {0}, NEW b \in 1 .. Parts
  PROVE  /\ Passes(b, t - 1) \in Nat
         /\ Passes(b, t) = Passes(b, t - 1) + (IF b = Which(t) THEN 1 ELSE 0)
<1> DEFINE q == (t - 1) \div Parts
           i == (t - 1) % Parts
<1>1. Parts \in Nat \ {0}
  BY SizeFacts
<1>2. q \in Nat /\ i \in 0 .. Parts - 1 /\ t - 1 = q * Parts + i /\ q * Parts \in Nat
  <2>1. t - 1 \in Nat
    OBVIOUS
  <2>2. q \in Nat /\ i \in 0 .. Parts - 1 /\ t - 1 = q * Parts + i
    BY <1>1, <2>1, Division
  <2> HIDE DEF q, i
  <2> QED
    BY <1>1, <2>2
<1>3. Passes(b, t - 1) = q + (IF b <= i THEN 1 ELSE 0)
  BY DEF Passes
<1>4. Which(t) = i + 1
  BY DEF Which
<1> HIDE DEF q, i
<1>5. CASE i + 1 < Parts
  <2>1. t = q * Parts + (i + 1) /\ i + 1 \in 0 .. Parts - 1
    BY <1>1, <1>2, <1>5
  <2>2. t \div Parts = q /\ t % Parts = i + 1
    BY <1>1, <1>2, <2>1, DivisionIsUnique
  <2>3. Passes(b, t) = q + (IF b <= i + 1 THEN 1 ELSE 0)
    BY <2>2 DEF Passes
  <2> QED
    BY <1>1, <1>2, <1>3, <1>4, <2>3
<1>6. CASE ~(i + 1 < Parts)
  <2>1. i + 1 = Parts
    BY <1>1, <1>2, <1>6
  <2>2. (q + 1) * Parts = q * Parts + Parts
    BY <1>1, <1>2
  <2>3. t = (q + 1) * Parts + 0 /\ 0 \in 0 .. Parts - 1 /\ q + 1 \in Nat
    BY <1>1, <1>2, <2>1, <2>2
  <2>4. t \div Parts = q + 1 /\ t % Parts = 0
    BY <1>1, <2>3, DivisionIsUnique
  <2>5. Passes(b, t) = (q + 1) + (IF b <= 0 THEN 1 ELSE 0)
    BY <2>4 DEF Passes
  <2> QED
    BY <1>1, <1>2, <1>3, <1>4, <2>1, <2>5
<1> QED
  BY <1>1, <1>2, <1>5, <1>6

(* The mini-batch that the j-th row of a rank is in. *)
LEMMA InMini ==
  ASSUME HasRows, phase \in Updates, NEW r \in Rank, NEW j \in 1 .. Q,
         NEW t \in Nat \ {0}
  PROVE  /\ ((j - 1) \div Mini) + 1 \in 1 .. Parts
         /\ (\E i \in 1 .. MiniLen(t) : chunk[r][j] = MiniBatchOf(r, t)[i])
              <=> ((j - 1) \div Mini) + 1 = Which(t)
<1> DEFINE b == ((j - 1) \div Size) + 1
           i == ((j - 1) % Size) + 1
           w == Which(t)
<1>1. /\ Q \in Nat \ {0} /\ Size \in Nat \ {0} /\ Parts \in Nat \ {0} /\ Size = Mini
      /\ w \in 1 .. Parts /\ MiniLen(t) \in 1 .. Size
  BY SizeFacts, WhichFacts
<1>2. j \in 1 .. Parts * Size
  <2>1. Parts \in 1 .. Parts
    BY <1>1
  <2>2. Q <= Parts * Size /\ Parts * Size \in Nat
    BY <1>1, <2>1, Bounds DEF Parts
  <2> QED
    BY <1>1, <2>2
<1>3. b \in 1 .. Parts /\ i \in 1 .. Size /\ j = At(Size, b, i)
  BY <1>1, <1>2, AtMeetsAll
<1>4. \A h \in 1 .. MiniLen(t) : /\ MiniBatchOf(r, t)[h] = chunk[r][At(Size, w, h)]
                                 /\ At(Size, w, h) \in 1 .. Q
  BY MiniFacts, WhichFacts
<1>5. MiniLen(t) = IF w * Size < Q THEN Size ELSE Q - (w - 1) * Size
  BY DEF MiniLen
<1> HIDE DEF b, i, w
<1>6. ASSUME NEW h \in 1 .. MiniLen(t), chunk[r][j] = MiniBatchOf(r, t)[h]
      PROVE  b = w
  <2>1. j = At(Size, w, h)
    BY <1>4, <1>6, SMTT(30) DEF HasRows
  <2>2. h \in 1 .. Size /\ b \in Nat \ {0} /\ w \in Nat \ {0}
    BY <1>1, <1>3
  <2>3. At(Size, b, i) = At(Size, w, h)
    BY <1>3, <2>1
  <2>4. Size \in Nat \ {0} /\ i \in 1 .. Size
    BY <1>1, <1>3
  <2> HIDE DEF Size
  <2>5. b = w /\ i = h
    BY <2>2, <2>3, <2>4, AtIsUnique
  <2> QED
    BY <2>5
<1>7. ASSUME b = w
      PROVE  \E h \in 1 .. MiniLen(t) : chunk[r][j] = MiniBatchOf(r, t)[h]
  <2>1. (w - 1) * Size \in Nat /\ j = (w - 1) * Size + i
    BY <1>1, <1>3, <1>7 DEF At
  <2>2. i \in 1 .. MiniLen(t)
    BY <1>1, <1>3, <1>5, <2>1
  <2>3. MiniBatchOf(r, t)[i] = chunk[r][j]
    BY <1>3, <1>4, <1>7, <2>2
  <2> QED
    BY <2>2, <2>3
<1> QED
  BY <1>1, <1>3, <1>6, <1>7 DEF b, w

(* A row is that of one rank. *)
LEMMA RowsApart ==
  ASSUME HasRows, NEW q \in Rank, NEW r \in Rank, NEW j \in 1 .. Q,
         NEW t \in Nat \ {0}, NEW i \in 1 .. MiniLen(t),
         chunk[r][j] = MiniBatchOf(q, t)[i]
  PROVE  q = r
<1>1. /\ MiniBatchOf(q, t)[i] = chunk[q][At(Size, Which(t), i)]
      /\ At(Size, Which(t), i) \in 1 .. Q
  BY MiniFacts, WhichFacts
<1> QED
  BY <1>1 DEF HasRows

(* A rank runs a row once, and with the last micro-batch all of them. *)
LEMMA RunOnce ==
  ASSUME Types, HasRows, NEW r \in Rank, turn[r] # 0,
         IsDealt(micro[r], MiniLen(turn[r])), next[r] \in 1 .. Len(micro[r]), NEW s
  PROVE  /\ ~(s \in ToSet(Rows(r)) /\ s \in ToSet(Picked(r)))
         /\ s \in ToSet(Rows(r)) =>
              \E i \in 1 .. MiniLen(turn[r]) : s = MiniBatch(r)[i]
         /\ next[r] = Len(micro[r]) =>
              (s \in ToSet(Rows(r)) \/ s \in ToSet(Picked(r))
                 <=> \E i \in 1 .. MiniLen(turn[r]) : s = MiniBatch(r)[i])
<1> DEFINE m == micro[r]
           x == next[r]
           n == MiniLen(turn[r])
           d == MiniBatch(r)
<1>1. IsDealt(m, n) /\ x \in 1 .. Len(m) /\ m \in Seq(Seq(Nat)) /\ DOMAIN m = 1 .. Len(m)
      /\ Len(m) \in Nat
  BY DEF IsDealt
<1>2. s \in ToSet(Rows(r)) <=> \E i \in DOMAIN m[x] : s = d[m[x][i]]
  BY PickedNext
<1>3. s \in ToSet(Picked(r)) <=> \E a \in 1 .. x - 1 : \E i \in DOMAIN m[a] : s = d[m[a][i]]
  BY PickedNext
<1>4. \A i, j \in 1 .. n : d[i] = d[j] => i = j
  BY MiniRows DEF MiniBatch, Types
<1> HIDE DEF m, x, n, d
<1>5. \A a \in 1 .. x : a \in DOMAIN m /\ \A i \in DOMAIN m[a] : m[a][i] \in 1 .. n
  <2>1. \A a \in 1 .. x : a \in DOMAIN m
    BY <1>1
  <2> QED
    BY <1>1, <2>1 DEF IsDealt
<1>6. x \in 1 .. x /\ \A a \in 1 .. x - 1 : a \in 1 .. x /\ a # x
  BY <1>1
<1>7. ASSUME s \in ToSet(Rows(r)), s \in ToSet(Picked(r))
      PROVE  FALSE
  <2>1. PICK i \in DOMAIN m[x] : s = d[m[x][i]]
    BY <1>2, <1>7
  <2>2. PICK a \in 1 .. x - 1 : \E h \in DOMAIN m[a] : s = d[m[a][h]]
    BY <1>3, <1>7
  <2>3. PICK h \in DOMAIN m[a] : s = d[m[a][h]]
    BY <2>2
  <2>4. m[x][i] = m[a][h]
    BY <1>4, <1>5, <1>6, <2>1, <2>3, ZenonT(40)
  <2>5. x \in DOMAIN m /\ a \in DOMAIN m /\ a # x
    BY <1>5, <1>6
  <2> QED
    BY <1>1, <2>4, <2>5 DEF IsDealt
<1>8. s \in ToSet(Rows(r)) => \E i \in 1 .. n : s = d[i]
  BY <1>2, <1>5, <1>6
<1>9. s \in ToSet(Picked(r)) => \E i \in 1 .. n : s = d[i]
  BY <1>3, <1>5, <1>6
<1>10. ASSUME x = Len(m), NEW e \in 1 .. n, s = d[e]
       PROVE  s \in ToSet(Rows(r)) \/ s \in ToSet(Picked(r))
  <2>1. PICK a \in DOMAIN m : \E i \in DOMAIN m[a] : m[a][i] = e
    BY <1>1 DEF IsDealt
  <2>2. PICK i \in DOMAIN m[a] : m[a][i] = e
    BY <2>1
  <2>3. a = x \/ a \in 1 .. x - 1
    BY <1>1, <1>10
  <2> QED
    BY <1>2, <1>3, <1>10, <2>2, <2>3
<1> QED
  BY <1>7, <1>8, <1>9, <1>10 DEF m, x, n, d

LEMMA ForwardKeepsInv ==
  ASSUME Inv, Forward
  PROVE  Inv'
<1>1. /\ pc = [r \in Rank |-> "forward"]
      /\ next' = [r \in Rank |-> next[r] + 1]
      /\ pc' = [r \in Rank |-> IF next[r] < Len(micro[r]) THEN "forward"
                               ELSE IF phase \in Updates THEN "step" ELSE "restore"]
      /\ phase \in Updates =>
           /\ grad' = [r \in Rank |-> grad[r] \o Rows(r)]
           /\ seen' = [s \in Sample |-> seen[s] +
                         Cardinality({r \in Rank : s \in ToSet(Rows(r))})]
           /\ out' = out
      /\ phase \notin Updates =>
           /\ out' = [r \in Rank |-> out[r] \o Rows(r)]
           /\ grad' = grad /\ seen' = seen
      /\ Frame /\ agreed' = agreed /\ turn' = turn /\ micro' = micro
  BY DEF Forward, Frame
<1>2. 1 \in Rank /\ \A q \in Rank : pc[q] = "forward"
  BY <1>1, SampleFacts, Constants
<1>3. Types /\ Driven /\ Awake
  <2>1. pc[1] # "idle"
    BY <1>2
  <2> QED
    BY <1>2, <2>1, SomeoneAwake DEF Inv
<1>4. phase \notin Rollouts
  <2>1. pc[1] = "forward"
    BY <1>2
  <2> QED
    BY <1>2, <1>3, <2>1 DEF Awake
<1>5. HasRows
  BY <1>3, <1>4, AwakeHasRows DEF Rollouts
<1>6. PICK t \in 1 .. Turns : \E x \in {1} \cup {next[q] : q \in Rank} : Stage(t, x)
  BY <1>3, <1>4 DEF Awake, InStep
<1>7. PICK x \in {1} \cup {next[q] : q \in Rank} : Stage(t, x)
  BY <1>6
<1>8. t \in Nat \ {0} /\ Turns \in Nat
  BY SizeFacts
<1>9. \A q \in Rank : turn[q] = t /\ next[q] = x
  BY <1>2, <1>7, PlaceOf
<1>10. \A q \in Rank : Deals(q) /\ Gathers(q) /\ (phase \in Updates => Counted(q))
  BY <1>3, <1>4 DEF Awake
<1> DEFINE n == MiniLen(t)
           l == Len(micro[1])
<1>11. \A q \in Rank : IsDealt(micro[q], n) /\ Len(micro[q]) = Pieces(q) /\ x \in 1 .. Len(micro[q])
  BY <1>2, <1>9, <1>10 DEF Deals, Together
<1>12. \A q \in Rank : Pieces(q) = IF opt.dynamic THEN agreed ELSE CeilDiv(n, MicroSize)
  BY <1>9 DEF Pieces
<1>13. \A q \in Rank : Len(micro[q]) = l
  BY <1>2, <1>11, <1>12
<1>14. l \in Nat /\ x \in 1 .. l
  <2>1. micro[1] \in Seq(Seq(Nat))
    BY <1>2, <1>11 DEF IsDealt
  <2> QED
    BY <1>2, <1>11, <2>1
<1> HIDE DEF n, l
<1>15. \A q \in Rank : /\ pc'[q] = IF x < l THEN "forward"
                                   ELSE IF phase \in Updates THEN "step" ELSE "restore"
                       /\ turn'[q] = t /\ next'[q] = x + 1
  BY <1>1, <1>9, <1>13
<1>16. ASSUME NEW q \in Rank
       PROVE  /\ Rows(q) \in Seq(Nat) /\ Picked(q) \in Seq(Nat)
              /\ Through(MiniBatch(q), FlattenSeq(SubSeq(micro[q], 1, x))) = Picked(q) \o Rows(q)
  <2>1. /\ turn[q] # 0 /\ IsDealt(micro[q], MiniLen(turn[q]))
        /\ next[q] \in 1 .. Len(micro[q]) /\ next[q] = x
    BY <1>8, <1>9, <1>11 DEF n
  <2>2. /\ Rows(q) \in Seq(Nat) /\ Picked(q) \in Seq(Nat)
        /\ Through(MiniBatch(q), FlattenSeq(SubSeq(micro[q], 1, next[q]))) = Picked(q) \o Rows(q)
    BY <1>3, <1>5, <2>1, PickedNext
  <2> QED
    BY <2>1, <2>2
<1>17. opt' = opt /\ phase' = phase /\ chunk' = chunk /\ Parts' = Parts /\ Turns' = Turns
       /\ MicroSize' = MicroSize
  BY <1>1, FrameFacts DEF Frame
<1>18. ASSUME NEW s \in Sample
       PROVE  Cardinality({r \in Rank : s \in ToSet(Rows(r))}) \in Nat
  BY SampleFacts, FS_Subset, FS_CardinalityType
<1>19. Types'
  <2>1. pc' \in [Rank -> {"idle", "start", "reduce", "rearrange", "forward", "step",
                          "restore", "done", "raised"}]
    BY <1>1
  <2>2. next' \in [Rank -> Nat]
    <3>1. \A q \in Rank : next[q] \in Nat
      BY <1>3 DEF Types
    <3>2. \A q \in Rank : next[q] + 1 \in Nat
      BY <3>1
    <3> QED
      BY <1>1, <3>2
  <2>3. grad' \in [Rank -> Seq(Nat)]
    <3>1. CASE phase \in Updates
      <4>1. \A q \in Rank : grad[q] \in Seq(Nat)
        BY <1>3 DEF Types
      <4>2. \A q \in Rank : grad[q] \o Rows(q) \in Seq(Nat)
        BY <1>16, <4>1, ConcatProperties
      <4> QED
        BY <1>1, <3>1, <4>2
    <3>2. CASE phase \notin Updates
      BY <1>1, <1>3, <3>2 DEF Types
    <3> QED
      BY <3>1, <3>2
  <2>4. out' \in [Rank -> Seq(Nat)]
    <3>1. CASE phase \notin Updates
      <4>1. \A q \in Rank : out[q] \in Seq(Nat)
        BY <1>3 DEF Types
      <4>2. \A q \in Rank : out[q] \o Rows(q) \in Seq(Nat)
        BY <1>16, <4>1, ConcatProperties
      <4> QED
        BY <1>1, <3>1, <4>2
    <3>2. CASE phase \in Updates
      BY <1>1, <1>3, <3>2 DEF Types
    <3> QED
      BY <3>1, <3>2
  <2>5. seen' \in [Sample -> Nat]
    <3>1. CASE phase \in Updates
      <4>1. \A s \in Sample : seen[s] \in Nat
        BY <1>3 DEF Types
      <4>2. \A s \in Sample : seen[s] + Cardinality({r \in Rank : s \in ToSet(Rows(r))}) \in Nat
        BY <1>18, <4>1
      <4> QED
        BY <1>1, <3>1, <4>2
    <3>2. CASE phase \notin Updates
      BY <1>1, <1>3, <3>2 DEF Types
    <3> QED
      BY <3>1, <3>2
  <2> QED
    BY <1>1, <1>3, <2>1, <2>2, <2>3, <2>4, <2>5 DEF Types, Frame
<1>20. Driven'
  BY <1>1, <1>3, FrameFacts
<1>21. InStep'
  <2>1. x + 1 \in {1} \cup {next'[q] : q \in Rank}
    BY <1>2, <1>15
  <2>2. Stage(t, x + 1)'
    <3>1. CASE x < l
      <4>1. Moment({"forward"}, t, x + 1)'
        BY <1>15, <3>1 DEF Moment
      <4> QED
        BY <4>1 DEF Stage
    <3>2. CASE ~(x < l) /\ phase \in Updates
      <4>1. Moment({"step"}, t, x + 1)'
        BY <1>15, <3>2 DEF Moment
      <4> QED
        BY <1>17, <3>2, <4>1 DEF Stage
    <3>3. CASE ~(x < l) /\ phase \notin Updates
      <4>1. Moment({"restore", "done"}, t, x + 1)'
        BY <1>15, <3>3 DEF Moment
      <4> QED
        BY <1>17, <3>3, <4>1 DEF Stage
    <3> QED
      BY <3>1, <3>2, <3>3
  <2> QED
    BY <1>17, <2>1, <2>2 DEF InStep
<1>22. ASSUME NEW q \in Rank
       PROVE  Deals(q)' /\ Gathers(q)' /\ (phase \in Updates => Counted(q)')
  <2>1. Deals(q) /\ Gathers(q) /\ (phase \in Updates => Counted(q))
    BY <1>10
  <2>2. /\ MiniBatch(q)' = MiniBatch(q) /\ SeqLens(q)' = SeqLens(q)
        /\ MiniLen(turn[q])' = MiniLen(turn[q])
    BY <1>1, SameMini
  <2>3. Pieces(q)' = Pieces(q)
    BY <1>1, <1>17, <2>2 DEF Pieces
  <2>4. Deals(q)'
    <3>1. IsDealt(micro'[q], MiniLen(turn[q])') /\ Len(micro'[q]) = Pieces(q)'
      BY <1>1, <1>9, <1>11, <2>2, <2>3 DEF n
    <3>2. pc'[q] = "forward" => next'[q] \in 1 .. Len(micro'[q])
      <4>1. Len(micro'[q]) = l
        BY <1>1, <1>13
      <4> QED
        BY <1>14, <1>15, <4>1
    <3>3. pc'[q] \in {"step", "restore"} => next'[q] = Len(micro'[q]) + 1
      <4>1. Len(micro'[q]) = l
        BY <1>1, <1>13
      <4> QED
        BY <1>14, <1>15, <4>1
    <3>4. opt.dynamic => Fits(q)
      BY <1>2, <2>1 DEF Deals
    <3>5. opt'.dynamic => Fits(q)'
      BY <1>1, <1>17, <2>2, <3>4 DEF Fits
    <3>6. pc'[q] \notin {"reduce", "rearrange"}
      BY <1>15
    <3> QED
      BY <3>1, <3>2, <3>3, <3>5, <3>6 DEF Deals
  <2>5. Picked(q)' = Picked(q) \o Rows(q)
    <3>1. next'[q] - 1 = x
      BY <1>14, <1>15
    <3>2. Ran(q)' = FlattenSeq(SubSeq(micro[q], 1, x))
      BY <1>1, <3>1 DEF Ran
    <3>3. Picked(q)' = Through(MiniBatch(q), FlattenSeq(SubSeq(micro[q], 1, x)))
      BY <2>2, <3>2 DEF Picked, Through
    <3> QED
      BY <1>16, <3>3
  <2>6. Gathers(q)'
    <3>1. phase \in Updates => grad[q] = Picked(q)
      BY <1>2, <2>1 DEF Gathers
    <3>2. phase \in Updates => grad'[q] = Picked(q)'
      BY <1>1, <2>5, <3>1
    <3>3. phase \in Computes => phase \notin Updates /\ out[q] = Picked(q)
      BY <1>2, <2>1 DEF Gathers, Computes, Updates
    <3>4. phase \in Computes => out'[q] = Picked(q)'
      BY <1>1, <2>5, <3>3
    <3>5. pc'[q] \in {"forward", "step", "restore"}
      BY <1>15
    <3> QED
      BY <1>17, <3>2, <3>4, <3>5 DEF Gathers
  <2>7. ASSUME phase \in Updates
        PROVE  Counted(q)'
    <3>1. Counted(q)
      BY <2>1, <2>7
    <3>2. grad[q] = Picked(q) /\ grad'[q] = Picked(q) \o Rows(q)
      <4>1. grad[q] = Picked(q)
        BY <1>2, <2>1, <2>7 DEF Gathers
      <4> QED
        BY <1>1, <2>7, <4>1
    <3>3. ASSUME NEW j \in 1 .. Q
          PROVE  seen'[chunk'[q][j]] = Passes(((j - 1) \div Mini) + 1, DoneTurns(q))'
                   + (IF pc'[q] = "forward" /\ chunk'[q][j] \in ToSet(grad'[q]) THEN 1 ELSE 0)
      <4> DEFINE s == chunk[q][j]
                 b == ((j - 1) \div Mini) + 1
                 new == s \in ToSet(Rows(q))
                 old == s \in ToSet(Picked(q))
      <4>1. s \in Sample
        BY <1>5 DEF HasRows
      <4>2. b \in 1 .. Parts
            /\ ((\E i \in 1 .. MiniLen(t) : s = MiniBatchOf(q, t)[i]) <=> b = Which(t))
        BY <1>5, <1>8, <2>7, InMini
      <4>3. MiniBatch(q) = MiniBatchOf(q, t)
        BY <1>9 DEF MiniBatch
      <4>4. \A r \in Rank : turn[r] # 0 /\ IsDealt(micro[r], MiniLen(turn[r]))
                            /\ next[r] \in 1 .. Len(micro[r])
        BY <1>8, <1>9, <1>11 DEF n
      <4> HIDE DEF s, b
      <4>5. /\ ~(new /\ old)
            /\ x = l => (new \/ old <=> b = Which(t))
        <5>1. ~(new /\ old)
          BY <1>3, <1>5, <4>4, RunOnce
        <5>2. ASSUME x = l
              PROVE  new \/ old <=> b = Which(t)
          <6>1. next[q] = Len(micro[q])
            BY <1>9, <1>13, <5>2
          <6>2. new \/ old <=> \E i \in 1 .. MiniLen(turn[q]) : s = MiniBatch(q)[i]
            BY <1>3, <1>5, <4>4, <6>1, RunOnce
          <6> QED
            BY <1>9, <4>2, <4>3, <6>2
        <5> QED
          BY <5>1, <5>2
      <4>6. \A r \in Rank : s \in ToSet(Rows(r)) => r = q
        <5>1. SUFFICES ASSUME NEW r \in Rank, s \in ToSet(Rows(r))
                       PROVE  r = q
          OBVIOUS
        <5>2. \E i \in 1 .. MiniLen(turn[r]) : s = MiniBatch(r)[i]
          BY <1>3, <1>5, <4>4, <5>1, RunOnce
        <5>3. PICK i \in 1 .. MiniLen(t) : s = MiniBatchOf(r, t)[i]
          BY <1>9, <5>2 DEF MiniBatch
        <5> QED
          BY <1>5, <1>8, <5>3, RowsApart DEF s
      <4>7. Cardinality({r \in Rank : s \in ToSet(Rows(r))}) = IF new THEN 1 ELSE 0
        <5>1. CASE new
          <6>1. {r \in Rank : s \in ToSet(Rows(r))} = {q}
            BY <4>6, <5>1
          <6> QED
            BY <5>1, <6>1, FS_Singleton
        <5>2. CASE ~new
          <6>1. {r \in Rank : s \in ToSet(Rows(r))} = {}
            BY <4>6, <5>2
          <6> QED
            BY <5>2, <6>1, FS_EmptySet
        <5> QED
          BY <5>1, <5>2
      <4>8. seen'[s] = seen[s] + (IF new THEN 1 ELSE 0)
        BY <1>1, <2>7, <4>1, <4>7
      <4>9. seen[s] = Passes(b, t - 1) + (IF old THEN 1 ELSE 0)
        <5>1. DoneTurns(q) = t - 1
          BY <1>2, <1>9 DEF DoneTurns
        <5> QED
          BY <1>2, <3>1, <3>2, <5>1 DEF Counted, s, b
      <4>10. s \in ToSet(grad'[q]) <=> new \/ old
        BY <1>16, <3>2, InBoth
      <4>11. /\ Passes(b, t - 1) \in Nat
             /\ Passes(b, t) = Passes(b, t - 1) + (IF b = Which(t) THEN 1 ELSE 0)
        BY <1>8, <4>2, OneMorePass
      <4>12. \A e : Passes(b, e)' = Passes(b, e)
        BY <1>17 DEF Passes, b
      <4>13. chunk'[q][j] = s
        BY <1>17 DEF s
      <4>14. CASE x < l
        <5>1. pc'[q] = "forward" /\ DoneTurns(q)' = t - 1
          BY <1>15, <4>14 DEF DoneTurns
        <5>2. Passes(b, DoneTurns(q))' = Passes(b, t - 1)
          BY <1>17, <5>1 DEF Passes, b
        <5> HIDE DEF new, old
        <5>3. seen'[s] = Passes(b, t - 1) + (IF new \/ old THEN 1 ELSE 0)
          BY <4>5, <4>8, <4>9, <4>11
        <5> QED
          BY <4>10, <4>13, <5>1, <5>2, <5>3 DEF b
      <4>15. CASE ~(x < l)
        <5>1. x = l
          BY <1>14, <4>15
        <5>2. pc'[q] = "step" /\ DoneTurns(q)' = t
          BY <1>15, <2>7, <4>15 DEF DoneTurns
        <5>3. Passes(b, DoneTurns(q))' = Passes(b, t)
          BY <1>17, <5>2 DEF Passes, b
        <5> HIDE DEF new, old
        <5>4. seen'[s] = Passes(b, t)
          BY <4>5, <4>8, <4>9, <4>11, <5>1
        <5>5. Passes(b, t) \in Nat
          BY <4>11
        <5> QED
          BY <4>13, <5>2, <5>3, <5>4, <5>5 DEF b
      <4> QED
        BY <4>14, <4>15
    <3> QED
      BY <3>3 DEF Counted
  <2> QED
    BY <2>4, <2>6, <2>7
<1>23. Awake'
  BY <1>1, <1>3, <1>4, <1>21, <1>22, StaysAwake
<1> QED
  BY <1>19, <1>20, <1>23 DEF Inv

-----------------------------------------------------------------------------
(* The driver.                                                             *)

LEMMA DriverRests ==
  ASSUME Types, opt' = opt, len' = len, chunk' = chunk, out' = out, grad' = grad,
         micro' = micro, turn' = turn, next' = next, agreed' = agreed, seen' = seen,
         pc' = [r \in Rank |-> "idle"], DOMAIN col' = Columns,
         phase' \in Calls \cup {"join", "balance", "reward", "advantage", "end", "raised"},
         Driven'
  PROVE  Inv'
<1>1. pc' \in [Rank -> {"idle", "start", "reduce", "rearrange", "forward", "step",
                        "restore", "done", "raised"}]
  OBVIOUS
<1>2. Types'
  BY <1>1 DEF Types
<1>3. Asleep'
  BY DEF Asleep
<1> QED
  BY <1>2, <1>3 DEF Inv

(* When the ranks are done with a call, what they return are the rows they *)
(* were sent, in the order they were sent in.                              *)
LEMMA CallIsOver ==
  ASSUME Inv, phase \in Calls, Finished
  PROVE  /\ Types /\ Driven
         /\ phase \notin Updates => Result = Sent
         /\ phase # "validate" => IsOrder(Sent)
<1>1. 1 \in Rank /\ \A q \in Rank : pc[q] = "done"
  BY SampleFacts, Constants DEF Finished
<1>2. Types /\ Driven /\ Awake
  <2>1. pc[1] # "idle"
    BY <1>1
  <2> QED
    BY <1>1, <2>1, SomeoneAwake DEF Inv
<1>3. Sent \in Seq(Nat) /\ (phase # "validate" => IsOrder(Sent))
  BY <1>2, SentFacts
<1>4. PICK q \in Nat \ {0} : Len(Sent) = DP * q
  BY <1>2, SentFacts
<1>5. ASSUME phase \notin Updates
      PROVE  Result = Sent
  <2>1. \A r \in Rank : out[r] = chunk[r]
    <3>1. CASE phase \in Rollouts
      <4>1. \A r \in Rank : pc[r] # "start"
        BY <1>1
      <4> QED
        BY <1>2, <3>1, <4>1 DEF Awake
    <3>2. CASE phase \notin Rollouts
      <4>1. phase \in Computes
        BY <1>5, <3>2 DEF Calls
      <4> QED
        BY <1>1, <1>2, <3>2, <4>1 DEF Awake, Gathers
    <3> QED
      BY <3>1, <3>2
  <2>2. out \in [Rank -> Seq(Nat)] /\ chunk = [r \in Rank |-> Chunk(Sent, r)]
    BY <1>2 DEF Types, Awake
  <2>3. out = [r \in Rank |-> Chunk(Sent, r)]
    BY <2>1, <2>2
  <2>4. out = Split(Sent, q)
    BY <1>3, <1>4, <2>3, Chunks
  <2> QED
    BY <1>3, <2>4, SplitAndBack DEF Result
<1> QED
  BY <1>2, <1>3, <1>5

LEMMA CollectValidationKeepsInv ==
  ASSUME Inv, CollectValidation
  PROVE  Inv'
<1>1. phase = "validate" /\ phase \in Calls /\ Finished /\ phase \notin Updates
  BY DEF CollectValidation, Calls, Rollouts, Updates
<1>2. Types /\ Driven /\ Result = Sent
  BY <1>1, CallIsOver
<1>3. val' = ValBatch
  <2>1. Sent = Padded(ValBatch)
    BY <1>1 DEF Sent
  <2> QED
    BY <1>2, <2>1, Padding DEF CollectValidation
<1>4. phase' = "generate"
  BY <1>1, AfterFacts DEF CollectValidation
<1>5. Driven'
  BY <1>1, <1>2, <1>3, <1>4 DEF CollectValidation, Driven, Early, Unjoined, Rewarded, Columns
<1> QED
  BY <1>2, <1>4, <1>5, DriverRests
     DEF CollectValidation, Finished, Types, Calls, Rollouts

(* A column that is joined as it came, in the order of the responses. *)
LEMMA JoinedFollows ==
  ASSUME Types, NEW c \in Columns, c \notin {"uid", "advantages"},
         NEW R, IsOrder(R), col' = [col EXCEPT ![c] = R], col'["responses"] = R
  PROVE  Follows(c)'
<1>1. col'[c] = R
  BY DEF Types
<1>2. \A s : Entry(c, s)' = s
  BY DEF Entry
<1>3. R = [i \in Sample |-> R[i]]
  BY DEF IsOrder
<1>4. [i \in Sample |-> Entry(c, col["responses"][i])]' = [i \in Sample |-> R[i]]
  BY <1>2
<1> QED
  BY <1>1, <1>3, <1>4 DEF Follows

LEMMA CollectAnswersKeepsInv ==
  ASSUME Inv, CollectAnswers
  PROVE  Inv'
<1>1. phase = "generate" /\ phase \in Calls /\ Finished /\ phase \notin Updates
  BY DEF CollectAnswers, Calls, Rollouts, Updates
<1>2. Types /\ Driven /\ Result = Sent
  BY <1>1, CallIsOver
<1>3. col' = [col EXCEPT !["responses"] = GenBatch]
  <2>1. Sent = GenBatch
    BY <1>1 DEF Sent
  <2> QED
    BY <1>2, <2>1 DEF CollectAnswers
<1>4. phase' = IF opt.remax THEN "baseline" ELSE "join"
  BY <1>1, AfterFacts DEF CollectAnswers
<1>5. DOMAIN col = Columns /\ \A c \in Columns : col[c] = <<>>
  BY <1>1, <1>2 DEF Types, Driven, Early
<1>6. /\ col'["responses"] = GenBatch /\ DOMAIN col' = Columns
      /\ \A c \in Columns \ {"responses"} : col'[c] = <<>>
  BY <1>3, <1>5 DEF Columns
<1>7. IsOrder(col'["responses"]) /\ \A c \in Columns : Follows(c)'
  <2>1. IsOrder(GenBatch)
    BY GenBatchIsOrder
  <2>2. Follows("responses")'
    BY <1>2, <1>3, <1>6, <2>1, JoinedFollows DEF Columns
  <2>3. \A c \in Columns \ {"responses"} : Follows(c)'
    BY <1>6 DEF Follows
  <2> QED
    BY <1>6, <2>1, <2>2, <2>3
<1>8. col'["advantages"] = <<>> /\ col'["uid"] = <<>>
  BY <1>6 DEF Columns
<1>9. opt' = opt /\ val' = val /\ val = ValBatch
  BY <1>1, <1>2 DEF CollectAnswers, Driven
<1>10. phase' \in {"baseline", "join"} /\ (phase' = "baseline" => opt'.remax)
  BY <1>4, <1>9
<1>11. Driven'
  BY <1>6, <1>7, <1>8, <1>9, <1>10 DEF Driven, Early, Unjoined, Rewarded
<1> QED
  BY <1>2, <1>6, <1>10, <1>11, DriverRests
     DEF CollectAnswers, Finished, Calls, Rollouts

LEMMA CollectBaselineKeepsInv ==
  ASSUME Inv, CollectBaseline
  PROVE  Inv'
<1>1. phase = "baseline" /\ phase \in Calls /\ Finished /\ phase \notin Updates
  BY DEF CollectBaseline, Calls, Rollouts, Updates
<1>2. Types /\ Driven /\ Result = Sent
  BY <1>1, CallIsOver
<1>3. Len(Result) = Prompts * N
  <2>1. Sent = GenBatch
    BY <1>1 DEF Sent
  <2> QED
    BY <1>2, <2>1, GenBatchIsOrder, OrderType
<1>4. opt.remax
  BY <1>1, <1>2 DEF Driven
<1>5. phase' = "join" \/ (phase' = "raised" /\ N > 1)
  <2>1. CASE Len(Result) = Prompts
    BY <1>1, <1>4, <2>1, AfterFacts DEF CollectBaseline
  <2>2. CASE Len(Result) # Prompts
    <3>1. N # 1
      BY <1>3, <2>2, Constants
    <3>2. N > 1
      BY <3>1, Constants
    <3> QED
      BY <2>2, <3>2 DEF CollectBaseline
  <2> QED
    BY <2>1, <2>2
<1>6. opt' = opt /\ col' = col /\ val' = val
  BY DEF CollectBaseline
<1>7. \A c : Follows(c)' <=> Follows(c)
  BY <1>6 DEF Follows, Entry
<1>8. Driven'
  BY <1>1, <1>2, <1>4, <1>5, <1>6, <1>7 DEF Driven, Early, Unjoined, Rewarded
<1> QED
  BY <1>2, <1>5, <1>6, <1>8, DriverRests
     DEF CollectBaseline, Finished, Types

LEMMA CollectColumnKeepsInv ==
  ASSUME Inv, CollectColumn
  PROVE  Inv'
<1>1. phase \in Computes /\ phase \in Calls /\ Finished /\ phase \notin Updates
      /\ phase \notin Rollouts
  BY DEF CollectColumn, Calls, Computes, Updates, Rollouts
<1> DEFINE R == col["responses"]
<1>2. Types /\ Driven /\ Result = Sent
  BY <1>1, CallIsOver
<1>3. Result = R
  <2>1. Sent = R
    BY <1>1, <1>2, SentFacts
  <2> QED
    BY <1>2, <2>1
<1>4. col' = [col EXCEPT ![phase] = R] /\ phase' = After(phase)
  BY <1>3 DEF CollectColumn
<1>5. /\ phase = "compute_rm_score" => phase' = "reward"
      /\ phase = "compute_log_prob" => phase' = "compute_ref_log_prob"
      /\ phase = "compute_ref_log_prob" => phase' = "compute_values"
      /\ phase = "compute_values" => phase' = "advantage"
  BY <1>4, AfterFacts
<1>6. /\ DOMAIN col = Columns /\ phase \in Columns
      /\ phase \notin {"uid", "advantages", "responses"}
  BY <1>1, <1>2 DEF Types, Columns, Computes
<1>7. /\ DOMAIN col' = Columns /\ col'["responses"] = R
      /\ \A c \in Columns \ {phase} : col'[c] = col[c]
  BY <1>4, <1>6 DEF Columns
<1>8. IsOrder(R) /\ \A c \in Columns : Follows(c)
  BY <1>1, <1>2 DEF Driven, Early, Computes
<1>9. \A c \in Columns : Follows(c)'
  <2> SUFFICES ASSUME NEW c \in Columns PROVE Follows(c)'
    OBVIOUS
  <2>1. CASE c = phase
    <3>1. c \notin {"uid", "advantages"} /\ col' = [col EXCEPT ![c] = R]
      BY <1>4, <1>6, <2>1
    <3> HIDE DEF R
    <3> QED
      BY <1>2, <1>7, <1>8, <3>1, JoinedFollows
  <2>2. CASE c # phase
    <3>1. col'[c] = col[c] /\ col'["responses"] = col["responses"]
      BY <1>7, <2>2
    <3> QED
      BY <1>8, <3>1 DEF Follows, Entry
  <2> QED
    BY <2>1, <2>2
<1>10. col'["uid"] = col["uid"] /\ col'["advantages"] = col["advantages"]
  BY <1>6, <1>7 DEF Columns
<1>11. opt' = opt /\ val' = val /\ reward' = reward
  BY DEF CollectColumn
<1>12. phase \in Rewarded \cup {"compute_rm_score"} /\ phase \notin Unjoined \cup {"raised"}
  BY <1>1 DEF Computes, Rewarded, Unjoined, Early
<1>13. phase' \in {"reward", "compute_ref_log_prob", "compute_values", "advantage"}
       /\ (phase' \in Rewarded => phase \in Rewarded)
  BY <1>1, <1>5 DEF Computes, Rewarded
<1>14. Driven'
  <2>1. phase' \notin Early /\ phase' \notin {"baseline", "join", "raised", "validate"}
        /\ phase' \notin Unjoined
    BY <1>13 DEF Early, Unjoined
  <2>2. col["uid"] # <<>> /\ val = ValBatch /\ (phase \in Rewarded => reward = R)
    BY <1>2, <1>12 DEF Driven, Unjoined, Early
  <2> HIDE DEF Early, Unjoined, Rewarded
  <2> QED
    BY <1>7, <1>8, <1>9, <1>10, <1>11, <1>13, <2>1, <2>2 DEF Driven
<1>15. phase' \in Calls \cup {"join", "balance", "reward", "advantage", "end", "raised"}
  BY <1>13 DEF Calls, Computes
<1> QED
  BY <1>2, <1>7, <1>14, <1>15, DriverRests DEF CollectColumn, Finished

LEMMA CollectMetricsKeepsInv ==
  ASSUME Inv, CollectMetrics
  PROVE  Inv'
<1>1. phase \in Updates /\ phase \in Calls /\ Finished
  BY DEF CollectMetrics, Calls, Updates
<1>2. Types /\ Driven
  BY <1>1, CallIsOver
<1>3. phase' \in {"update_actor", "end"}
  BY <1>1, AfterFacts DEF CollectMetrics, Updates
<1>4. opt' = opt /\ val' = val /\ reward' = reward /\ col' = col
  BY DEF CollectMetrics
<1>5. \A c : Follows(c)' <=> Follows(c)
  BY <1>4 DEF Follows, Entry
<1>6. Driven'
  BY <1>1, <1>2, <1>3, <1>4, <1>5 DEF Driven, Early, Unjoined, Rewarded, Updates
<1>7. phase' \in Calls \cup {"join", "balance", "reward", "advantage", "end", "raised"}
  BY <1>3 DEF Calls, Updates
<1> QED
  BY <1>2, <1>4, <1>6, <1>7, DriverRests DEF CollectMetrics, Finished, Types

(* Between two calls the ranks have nothing to do. *)
LEMMA BetweenCalls ==
  ASSUME Inv, phase \notin Calls
  PROVE  Types /\ Driven /\ pc = [r \in Rank |-> "idle"]
BY DEF Inv, Awake, Asleep

LEMMA JoinKeepsInv ==
  ASSUME Inv, Join
  PROVE  Inv'
<1>1. phase = "join" /\ phase \notin Calls
  BY DEF Join, Calls, Rollouts, Computes, Updates
<1>2. Types /\ Driven /\ pc = [r \in Rank |-> "idle"]
  BY <1>1, BetweenCalls
<1>3. /\ col["responses"] = GenBatch /\ IsOrder(GenBatch) /\ val = ValBatch
      /\ col["advantages"] = <<>> /\ \A c \in Columns : Follows(c)
  BY <1>1, <1>2 DEF Driven, Early, Unjoined
<1>4. /\ opt' = opt /\ val' = val /\ reward' = reward
      /\ col' = [col EXCEPT !["uid"] = Repeated]
  BY DEF Join
<1>5. DOMAIN col = Columns
  BY <1>2 DEF Types
<1>6. /\ DOMAIN col' = Columns /\ col'["uid"] = Repeated
      /\ \A c \in Columns \ {"uid"} : col'[c] = col[c]
  BY <1>4, <1>5 DEF Columns
<1>7. Len(Repeated) = Len(col["responses"]) /\ Repeated # <<>>
  <2>1. Len(GenBatch) = Prompts * N
    BY <1>3, OrderType
  <2> DEFINE m == Prompts * N
  <2>2. m \in Nat \ {0} /\ Sample = 1 .. m
    BY SampleFacts
  <2>3. Repeated = [i \in 1 .. m |-> PromptOf(i)]
    BY <2>2 DEF Repeated
  <2> HIDE DEF m
  <2>4. Len(Repeated) = m
    BY <2>2, <2>3
  <2>5. Repeated # <<>>
    <3>1. Len(Repeated) # 0
      BY <2>2, <2>4
    <3> QED
      BY <3>1
  <2> QED
    BY <1>3, <2>1, <2>4, <2>5 DEF m
<1>8. phase' = "balance"
  BY <1>1, <1>7, AfterFacts DEF Join
<1>9. ASSUME NEW c \in Columns
      PROVE  Follows(c)'
  <2>1. col'["responses"] = GenBatch
    BY <1>3, <1>6 DEF Columns
  <2>2. CASE c = "uid"
    <3>1. \A i \in Sample : GenBatch[i] = i
      BY DEF GenBatch
    <3>2. \A i \in Sample : Entry("uid", GenBatch[i])' = PromptOf(i)
      BY <3>1 DEF Entry
    <3>3. [i \in Sample |-> Entry(c, col["responses"][i])]' = [i \in Sample |-> PromptOf(i)]
      BY <2>1, <2>2, <3>2
    <3> QED
      BY <1>6, <2>2, <3>3 DEF Follows, Repeated
  <2>3. CASE c # "uid"
    <3>1. col'[c] = col[c] /\ col'["responses"] = col["responses"] /\ Follows(c)
      BY <1>3, <1>6, <2>1, <2>3
    <3> QED
      BY <3>1 DEF Follows, Entry
  <2> QED
    BY <2>2, <2>3
<1>10. col'["responses"] = GenBatch /\ col'["advantages"] = <<>>
  BY <1>3, <1>6 DEF Columns
<1>11. Driven'
  BY <1>3, <1>4, <1>6, <1>7, <1>8, <1>9, <1>10 DEF Driven, Early, Unjoined, Rewarded
<1> QED
  BY <1>2, <1>6, <1>8, <1>11, DriverRests DEF Join, rankVars

(* When an order is taken in another order, the columns follow. *)
LEMMA BalanceKeepsInv ==
  ASSUME Inv, Balance
  PROVE  Inv'
<1> DEFINE R == col["responses"]
<1>1. phase = "balance" /\ phase \notin Calls
  BY DEF Balance, Calls, Rollouts, Computes, Updates
<1>2. Types /\ Driven /\ pc = [r \in Rank |-> "idle"]
  BY <1>1, BetweenCalls
<1>3. /\ IsOrder(R) /\ val = ValBatch /\ col["uid"] # <<>>
      /\ \A c \in Columns : Follows(c)
  BY <1>1, <1>2 DEF Driven, Early, Unjoined
<1>4. opt' = opt /\ val' = val /\ reward' = reward
  BY DEF Balance
<1>5. phase' = "compute_rm_score"
  BY <1>1, AfterFacts DEF Balance
<1>6. DOMAIN col = Columns
  BY <1>2 DEF Types
<1>7. /\ IsOrder(col'["responses"]) /\ DOMAIN col' = Columns
      /\ \A c \in Columns : Follows(c)'
      /\ col'["uid"] # <<>>
  <2>1. CASE ~opt.balance
    <3>1. col' = col
      BY <2>1 DEF Balance
    <3>2. \A c : Follows(c)' <=> Follows(c)
      BY <3>1 DEF Follows, Entry
    <3> QED
      BY <1>3, <1>6, <3>1, <3>2
  <2>2. CASE opt.balance
    <3> DEFINE l == [i \in Sample |-> len[R[i]]]
    <3>1. PICK parts \in Partitions(l, DP, TRUE) : col' = Reordered(Order(parts))
      BY <2>2 DEF Balance
    <3> DEFINE o == Order(parts)
    <3>2. IsOrder(o)
      <4>1. DOMAIN l = Sample
        OBVIOUS
      <4> HIDE DEF l
      <4> QED
        BY <3>1, <4>1, OrderIsOrder
    <3> HIDE DEF o
    <3>3. DOMAIN o = Sample /\ \A i \in Sample : o[i] \in Sample
      BY <3>2, OrderType
    <3>4. \A c \in Columns :
            col'[c] = IF col[c] = <<>> THEN <<>> ELSE [i \in Sample |-> col[c][o[i]]]
      BY <3>1, <3>3 DEF Reordered, o
    <3>5. DOMAIN col' = Columns
      BY <3>1 DEF Reordered
    <3>6. 1 \in Sample /\ R # <<>>
      <4>1. 1 \in Sample /\ DOMAIN R = Sample
        BY <1>3, SampleFacts, OrderType
      <4> QED
        BY <4>1
    <3>7. col'["responses"] = [i \in Sample |-> R[o[i]]]
      BY <3>4, <3>6 DEF Columns
    <3>8. IsOrder(col'["responses"])
      BY <1>3, <3>2, <3>3, <3>7 DEF IsOrder
    <3>9. ASSUME NEW c \in Columns
          PROVE  Follows(c)'
      <4>1. CASE col[c] = <<>>
        BY <3>4, <4>1 DEF Follows
      <4>2. CASE col[c] # <<>>
        <5>1. col[c] = [i \in Sample |-> Entry(c, R[i])]
          BY <1>3, <4>2 DEF Follows
        <5>2. col'[c] = [i \in Sample |-> col[c][o[i]]]
          BY <3>4, <4>2
        <5>3. \A i \in Sample : col[c][o[i]] = Entry(c, R[o[i]])
          BY <3>3, <5>1
        <5>4. \A s : Entry(c, s)' = Entry(c, s)
          BY DEF Entry
        <5>5. [i \in Sample |-> Entry(c, col["responses"][i])]'
                = [i \in Sample |-> Entry(c, R[o[i]])]
          BY <3>7, <5>4
        <5> QED
          BY <5>2, <5>3, <5>5 DEF Follows
      <4> QED
        BY <4>1, <4>2
    <3>10. col'["uid"] # <<>>
      <4>1. col'["uid"] = [i \in Sample |-> col["uid"][o[i]]]
        BY <1>3, <3>4 DEF Columns
      <4>2. DOMAIN col'["uid"] = Sample
        BY <4>1
      <4> QED
        BY <3>6, <4>2
    <3> QED
      BY <3>5, <3>8, <3>9, <3>10
  <2> QED
    BY <2>1, <2>2
<1>8. Driven'
  BY <1>3, <1>4, <1>5, <1>7 DEF Driven, Early, Unjoined, Rewarded
<1>9. phase' \in Calls
  BY <1>5 DEF Calls, Computes
<1> QED
  BY <1>2, <1>7, <1>8, <1>9, DriverRests DEF Balance, rankVars

LEMMA RewardKeepsInv ==
  ASSUME Inv, Reward
  PROVE  Inv'
<1>1. phase = "reward" /\ phase \notin Calls
  BY DEF Reward, Calls, Rollouts, Computes, Updates
<1>2. Types /\ Driven /\ pc = [r \in Rank |-> "idle"]
  BY <1>1, BetweenCalls
<1>3. /\ opt' = opt /\ val' = val /\ col' = col /\ reward' = col["responses"]
      /\ phase' = "compute_log_prob"
  BY <1>1, AfterFacts DEF Reward
<1>4. \A c : Follows(c)' <=> Follows(c)
  BY <1>3 DEF Follows, Entry
<1>5. Driven'
  BY <1>1, <1>2, <1>3, <1>4 DEF Driven, Early, Unjoined, Rewarded
<1>6. phase' \in Calls
  BY <1>3 DEF Calls, Computes
<1> QED
  BY <1>2, <1>3, <1>5, <1>6, DriverRests DEF Reward, rankVars, Types

LEMMA AdvantageKeepsInv ==
  ASSUME Inv, Advantage
  PROVE  Inv'
<1> DEFINE R == col["responses"]
           A == [i \in DOMAIN reward |->
                   {reward[j] : j \in {h \in DOMAIN reward : col["uid"][h] = col["uid"][i]}}]
<1>1. phase = "advantage" /\ phase \notin Calls
  BY DEF Advantage, Calls, Rollouts, Computes, Updates
<1>2. Types /\ Driven /\ pc = [r \in Rank |-> "idle"]
  BY <1>1, BetweenCalls
<1>3. /\ IsOrder(R) /\ val = ValBatch /\ col["uid"] # <<>> /\ reward = R
      /\ \A c \in Columns : Follows(c)
  BY <1>1, <1>2 DEF Driven, Early, Unjoined, Rewarded
<1>4. /\ opt' = opt /\ val' = val /\ reward' = reward
      /\ col' = [col EXCEPT !["scores"] = reward, !["advantages"] = A]
      /\ phase' = "update_critic"
  BY <1>1, AfterFacts DEF Advantage
<1>5. DOMAIN col = Columns
  BY <1>2 DEF Types
<1>6. DOMAIN R = Sample /\ \A i \in Sample : R[i] \in Sample
  BY <1>3, OrderType
<1>7. A = [i \in Sample |-> {t \in Sample : PromptOf(t) = PromptOf(R[i])}]
  <2>1. \A i \in Sample : col["uid"][i] = PromptOf(R[i])
    <3>1. Follows("uid")
      BY <1>3 DEF Columns
    <3>2. col["uid"] = [i \in Sample |-> Entry("uid", R[i])]
      BY <1>3, <3>1 DEF Follows
    <3>3. \A s : Entry("uid", s) = PromptOf(s)
      BY DEF Entry
    <3> QED
      BY <3>2, <3>3
  <2>2. \A i \in Sample :
          {R[j] : j \in {h \in Sample : col["uid"][h] = col["uid"][i]}}
            = {t \in Sample : PromptOf(t) = PromptOf(R[i])}
    <3> TAKE i \in Sample
    <3> DEFINE S == {R[j] : j \in {h \in Sample : col["uid"][h] = col["uid"][i]}}
               T == {t \in Sample : PromptOf(t) = PromptOf(R[i])}
    <3>1. ASSUME NEW t \in S
          PROVE  t \in T
      <4>1. PICK j \in {h \in Sample : col["uid"][h] = col["uid"][i]} : t = R[j]
        BY <3>1
      <4> QED
        BY <1>6, <2>1, <4>1
    <3>2. ASSUME NEW t \in T
          PROVE  t \in S
      <4>1. t \in Sample /\ PromptOf(t) = PromptOf(R[i])
        BY <3>2
      <4>2. PICK j \in Sample : R[j] = t
        BY <1>3, <4>1, OrderIsOnto
      <4>3. j \in {h \in Sample : col["uid"][h] = col["uid"][i]}
        BY <2>1, <4>1, <4>2
      <4> QED
        BY <4>2, <4>3
    <3> QED
      BY <3>1, <3>2
  <2>3. A = [i \in Sample |-> {R[j] : j \in {h \in Sample : col["uid"][h] = col["uid"][i]}}]
    BY <1>3, <1>6
  <2> QED
    BY <2>2, <2>3
<1> HIDE DEF A
<1>8. /\ DOMAIN col' = Columns /\ col'["scores"] = R /\ col'["advantages"] = A
      /\ \A c \in Columns \ {"scores", "advantages"} : col'[c] = col[c]
  BY <1>3, <1>4, <1>5 DEF Columns
<1>9. col'["responses"] = R /\ col'["uid"] = col["uid"]
  BY <1>8 DEF Columns
<1>10. ASSUME NEW c \in Columns
       PROVE  Follows(c)'
  <2>1. CASE c = "scores"
    <3>1. \A s : Entry(c, s)' = s
      BY <2>1 DEF Entry
    <3>2. R = [i \in Sample |-> R[i]]
      BY <1>3 DEF IsOrder
    <3>3. [i \in Sample |-> Entry(c, col["responses"][i])]' = [i \in Sample |-> R[i]]
      BY <1>9, <3>1
    <3> QED
      BY <1>8, <2>1, <3>2, <3>3 DEF Follows
  <2>2. CASE c = "advantages"
    <3>1. \A s : Entry(c, s)' = {t \in Sample : PromptOf(t) = PromptOf(s)}
      BY <2>2 DEF Entry
    <3>2. [i \in Sample |-> Entry(c, col["responses"][i])]' = A
      BY <1>7, <1>9, <3>1
    <3> QED
      BY <1>8, <2>2, <3>2 DEF Follows
  <2>3. CASE c \notin {"scores", "advantages"}
    <3>1. col'[c] = col[c] /\ col'["responses"] = col["responses"] /\ Follows(c)
      BY <1>3, <1>8, <1>9, <2>3
    <3> QED
      BY <3>1 DEF Follows, Entry
  <2> QED
    BY <2>1, <2>2, <2>3
<1>11. Driven'
  BY <1>3, <1>4, <1>8, <1>9, <1>10 DEF Driven, Early, Unjoined, Rewarded
<1>12. phase' \in Calls
  BY <1>4 DEF Calls, Updates
<1> QED
  BY <1>2, <1>8, <1>11, <1>12, DriverRests DEF Advantage, rankVars

LEMMA DispatchKeepsInv ==
  ASSUME Inv, Dispatch
  PROVE  Inv'
<1>1. phase \in Calls /\ pc = [r \in Rank |-> "idle"]
  BY DEF Dispatch
<1>2. Types /\ Driven
  BY DEF Inv
<1>3. Sent \in Seq(Nat) /\ (phase # "validate" => IsOrder(Sent))
  BY <1>1, <1>2, SentFacts
<1>4. PICK q \in Nat \ {0} : Len(Sent) = DP * q
  BY <1>1, <1>2, SentFacts
<1>5. /\ Len(Sent) % DP = 0
      /\ \A r \in Rank : /\ Chunk(Sent, r) \in Seq(Nat) /\ Len(Chunk(Sent, r)) = q
                         /\ \A j \in 1 .. q : /\ At(q, r, j) \in 1 .. Len(Sent)
                                              /\ Chunk(Sent, r)[j] = Sent[At(q, r, j)]
  BY <1>3, <1>4, Chunks
<1>6. /\ pc' = [r \in Rank |-> "start"]
      /\ chunk' = [r \in Rank |-> Chunk(Sent, r)]
      /\ turn' = [r \in Rank |-> 0] /\ out' = [r \in Rank |-> <<>>]
      /\ seen' = [s \in Sample |-> 0]
      /\ opt' = opt /\ len' = len /\ phase' = phase /\ col' = col /\ reward' = reward
      /\ val' = val /\ agreed' = agreed /\ micro' = micro /\ next' = next /\ grad' = grad
  BY <1>5 DEF Dispatch
<1>7. Types'
  <2>1. pc' \in [Rank -> {"idle", "start", "reduce", "rearrange", "forward", "step",
                          "restore", "done", "raised"}]
    BY <1>6
  <2>2. chunk' \in [Rank -> Seq(Nat)]
    BY <1>5, <1>6
  <2>3. out' \in [Rank -> Seq(Nat)]
    <3>1. <<>> \in Seq(Nat)
      OBVIOUS
    <3> QED
      BY <1>6, <3>1
  <2>4. turn' \in [Rank -> Nat] /\ seen' \in [Sample -> Nat]
    BY <1>6
  <2> QED
    BY <1>2, <1>6, <2>1, <2>2, <2>3, <2>4 DEF Types
<1>8. Driven'
  BY <1>2, <1>6 DEF Driven, Follows, Entry
<1>9. Sent' = Sent
  BY <1>6 DEF Sent
<1>10. chunk' = [r \in Rank |-> Chunk(Sent, r)']
  BY <1>6, <1>9 DEF Chunk
<1>11. InStep'
  <2>1. Moment({"start", IF opt.dynamic THEN "reduce" ELSE "forward"}, 1, 1)'
    BY <1>6 DEF Moment
  <2>2. Stage(1, 1)'
    BY <2>1 DEF Stage
  <2>3. Turns' = Turns /\ Turns \in Nat \ {0}
    BY <1>6, SizeFacts DEF Turns, Parts, Size
  <2>4. 1 \in 1 .. Turns
    BY <2>3
  <2> QED
    BY <2>2, <2>3, <2>4 DEF InStep
<1>12. ASSUME NEW r \in Rank
       PROVE  /\ Deals(r)' /\ (phase \notin Rollouts => Gathers(r)')
              /\ phase \in Updates => Counted(r)'
  <2>1. pc'[r] = "start" /\ turn'[r] = 0 /\ out'[r] = <<>>
    BY <1>6
  <2>2. Deals(r)'
    BY <2>1 DEF Deals, Together
  <2>3. Gathers(r)'
    BY <2>1 DEF Gathers
  <2>4. ASSUME phase \in Updates
        PROVE  Counted(r)'
    <3>1. phase # "validate"
      BY <2>4 DEF Updates
    <3>2. Len(Sent) = DP * Q /\ DOMAIN Sent = Sample /\ \A i \in Sample : Sent[i] \in Sample
      BY <1>3, <3>1, OrderType
    <3>3. Chunk(Sent, r)[1] = Chunk(Sent, r)[1] /\ Q \in Nat \ {0}
      BY SampleFacts
    <3>4. \A j \in 1 .. Q : /\ At(Q, r, j) \in 1 .. Len(Sent)
                            /\ Chunk(Sent, r)[j] = Sent[At(Q, r, j)]
      BY <1>3, <3>2, <3>3, Chunks
    <3>5. Sample = 1 .. Len(Sent)
      BY <3>2, SampleFacts
    <3>6. \A j \in 1 .. Q : chunk'[r][j] \in Sample
      BY <1>6, <3>2, <3>4, <3>5
    <3>7. Parts \in Nat \ {0} /\ Parts' = Parts
      BY <1>6, SizeFacts DEF Parts, Size
    <3>8. 0 \div Parts = 0 /\ 0 % Parts = 0
      BY <3>7
    <3>9. DoneTurns(r)' = 0
      BY <2>1 DEF DoneTurns
    <3>10. \A j \in 1 .. Q : Passes(((j - 1) \div Mini) + 1, DoneTurns(r))' = 0
      <4> TAKE j \in 1 .. Q
      <4> DEFINE b == ((j - 1) \div Mini) + 1
      <4>1. j - 1 \in Nat /\ Mini \in Nat \ {0}
        BY <3>3, Constants
      <4>2. (j - 1) \div Mini \in Nat
        BY <4>1, Division
      <4>3. ~(b <= 0)
        BY <4>2
      <4> QED
        BY <3>7, <3>8, <3>9, <4>3 DEF Passes
    <3>11. \A j \in 1 .. Q : seen'[chunk'[r][j]] = 0
      BY <1>6, <3>6
    <3> QED
      BY <2>1, <3>10, <3>11 DEF Counted
  <2> QED
    BY <2>2, <2>3, <2>4
<1>13. Awake'
  <2>1. \A r \in Rank : pc'[r] = "start"
    BY <1>6
  <2> QED
    BY <1>1, <1>6, <1>9, <1>10, <1>11, <1>12, <2>1 DEF Awake
<1> QED
  BY <1>7, <1>8, <1>13 DEF Inv

-----------------------------------------------------------------------------
(* The invariant.                                                          *)

LEMMA InitInv == Init => Inv
<1> SUFFICES ASSUME Init PROVE Inv
  OBVIOUS
<1>1. /\ opt \in [dynamic : BOOLEAN, balance : BOOLEAN, remax : BOOLEAN]
      /\ len \in [Sample -> Lens]
      /\ phase = "validate" /\ col = [c \in Columns |-> <<>>]
      /\ pc = [r \in Rank |-> "idle"]
      /\ chunk = [r \in Rank |-> <<>>] /\ turn = [r \in Rank |-> 0]
      /\ agreed = 0
      /\ micro = [r \in Rank |-> <<>>] /\ next = [r \in Rank |-> 1]
      /\ out = [r \in Rank |-> <<>>] /\ grad = [r \in Rank |-> <<>>]
      /\ seen = [s \in Sample |-> 0]
  BY DEF Init
<1>2. Types
  <2>1. <<>> \in Seq(Nat) /\ <<>> \in Seq(Seq(Nat))
    OBVIOUS
  <2>2. pc \in [Rank -> {"idle", "start", "reduce", "rearrange", "forward", "step",
                         "restore", "done", "raised"}]
    BY <1>1
  <2>3. /\ chunk \in [Rank -> Seq(Nat)] /\ out \in [Rank -> Seq(Nat)]
        /\ grad \in [Rank -> Seq(Nat)]
    BY <1>1, <2>1
  <2>4. micro \in [Rank -> Seq(Seq(Nat))]
    BY <1>1, <2>1
  <2>5. turn \in [Rank -> Nat] /\ next \in [Rank -> Nat] /\ agreed \in Nat
        /\ seen \in [Sample -> Nat]
    BY <1>1
  <2>6. phase \in Calls
    BY <1>1 DEF Calls, Rollouts
  <2> QED
    BY <1>1, <2>2, <2>3, <2>4, <2>5, <2>6 DEF Types
<1>3. \A c \in Columns : col[c] = <<>>
  BY <1>1
<1>4. Driven
  BY <1>1, <1>3 DEF Driven, Early, Unjoined, Rewarded, Columns
<1>5. Asleep
  BY <1>1 DEF Asleep
<1> QED
  BY <1>2, <1>4, <1>5 DEF Inv

LEMMA IdleKeepsInv ==
  ASSUME Inv, UNCHANGED vars
  PROVE  Inv'
<1>1. /\ Frame /\ agreed' = agreed /\ turn' = turn /\ micro' = micro /\ pc' = pc
      /\ next' = next /\ out' = out /\ grad' = grad /\ seen' = seen
  BY DEF vars, rankVars, Frame
<1>2. Types'
  BY <1>1 DEF Inv, Types, Frame
<1>3. Driven'
  BY <1>1, FrameFacts DEF Inv
<1>4. CASE Asleep
  BY <1>1, <1>2, <1>3, <1>4 DEF Inv, Asleep
<1>5. CASE Awake
  <2>1. phase' = phase /\ chunk' = chunk /\ opt' = opt /\ Sent' = Sent /\ Turns' = Turns
    BY <1>1, FrameFacts DEF Frame
  <2>2. chunk' = [q \in Rank |-> Chunk(Sent, q)']
    BY <1>5, <2>1 DEF Awake, Chunk
  <2>3. CASE phase \in Rollouts
    <3>1. phase \notin Updates
      BY <2>3 DEF Rollouts, Updates
    <3>2. Awake'
      BY <1>1, <1>5, <2>1, <2>2, <2>3, <3>1 DEF Awake
    <3> QED
      BY <1>2, <1>3, <3>2 DEF Inv
  <2>4. CASE phase \notin Rollouts
    <3>1. InStep'
      <4>1. PICK t \in 1 .. Turns : \E x \in {1} \cup {next[q] : q \in Rank} : Stage(t, x)
        BY <1>5, <2>4 DEF Awake, InStep
      <4>2. PICK x \in {1} \cup {next[q] : q \in Rank} : Stage(t, x)
        BY <4>1
      <4>3. \A S : Moment(S, t, x)' <=> Moment(S, t, x)
        BY <1>1 DEF Moment
      <4>4. Stage(t, x)'
        BY <2>1, <4>2, <4>3 DEF Stage
      <4>5. x \in {1} \cup {next'[q] : q \in Rank}
        BY <1>1, <4>2
      <4> QED
        BY <2>1, <4>4, <4>5 DEF InStep
    <3>2. \A q \in Rank : Deals(q)' /\ Gathers(q)' /\ (phase \in Updates => Counted(q)')
      <4> TAKE q \in Rank
      <4>1. Deals(q) /\ Gathers(q) /\ (phase \in Updates => Counted(q))
        BY <1>5, <2>4 DEF Awake
      <4> QED
        BY <1>1, <4>1, Still
    <3>3. Awake'
      BY <1>1, <1>5, <2>4, <3>1, <3>2, StaysAwake
    <3> QED
      BY <1>2, <1>3, <3>3 DEF Inv
  <2> QED
    BY <2>3, <2>4
<1> QED
  BY <1>4, <1>5 DEF Inv

LEMMA NextKeepsInv ==
  ASSUME Inv, [Next]_vars
  PROVE  Inv'
<1>1. CASE Driver
  BY <1>1, DispatchKeepsInv, CollectValidationKeepsInv, CollectAnswersKeepsInv,
     CollectBaselineKeepsInv, CollectColumnKeepsInv, CollectMetricsKeepsInv,
     JoinKeepsInv, BalanceKeepsInv, RewardKeepsInv, AdvantageKeepsInv DEF Driver
<1>2. CASE Collective
  BY <1>2, AllReduceKeepsInv, ForwardKeepsInv, StepKeepsInv DEF Collective
<1>3. ASSUME NEW r \in Rank, RankStep(r)
      PROVE  Inv'
  BY <1>3, GenerateKeepsInv, BeginKeepsInv, RearrangeKeepsInv, RestoreKeepsInv DEF RankStep
<1>4. CASE Over
  BY <1>4, IdleKeepsInv DEF Over
<1>5. CASE UNCHANGED vars
  BY <1>5, IdleKeepsInv
<1> QED
  BY <1>1, <1>2, <1>3, <1>4, <1>5 DEF Next

THEOREM Invariant == Spec => []Inv
<1>1. Init => Inv
  BY InitInv
<1>2. Inv /\ [Next]_vars => Inv'
  BY NextKeepsInv
<1> QED
  BY <1>1, <1>2, PTL DEF Spec

-----------------------------------------------------------------------------
(* What follows from it.                                                   *)

(* The place of a rank that takes part in a call other than a rollout. *)
LEMMA InACall ==
  ASSUME Inv, NEW r \in Rank, pc[r] \notin {"idle", "start", "done"}
  PROVE  /\ Types /\ Driven /\ Awake /\ phase \in Calls /\ phase \notin Rollouts /\ HasRows
         /\ Deals(r) /\ Gathers(r)
         /\ \E t \in Nat \ {0} : \E x : Stage(t, x)
<1>1. Types /\ Driven /\ Awake
  BY SomeoneAwake DEF Inv
<1>2. phase \in Calls /\ phase \notin Rollouts
  BY <1>1 DEF Awake
<1>3. HasRows
  BY <1>1, <1>2, AwakeHasRows DEF Rollouts
<1>4. Deals(r) /\ Gathers(r) /\ InStep
  BY <1>1, <1>2 DEF Awake
<1>5. PICK t \in 1 .. Turns : \E x \in {1} \cup {next[q] : q \in Rank} : Stage(t, x)
  BY <1>4 DEF InStep
<1>6. PICK x \in {1} \cup {next[q] : q \in Rank} : Stage(t, x)
  BY <1>5
<1>7. t \in Nat \ {0}
  BY SizeFacts
<1>8. \E u \in Nat \ {0} : \E y : Stage(u, y)
  BY <1>6, <1>7
<1> QED
  BY <1>1, <1>2, <1>3, <1>4, <1>8

(* The variables keep their types, whatever DP, the batch and its micro-   *)
(* batches are.                                                            *)
THEOREM TypeCorrect == Spec => []TypeOK
<1>1. ASSUME Inv
      PROVE  TypeOK
  <2>1. Types /\ Driven
    BY <1>1 DEF Inv
  <2>2. phase = "baseline" => opt.remax
    BY <2>1 DEF Driven
  <2>3. phase \in ToSet(Phases) \cup {"raised"}
    <3>1. phase \in Calls \cup {"join", "balance", "reward", "advantage", "end", "raised"}
      BY <2>1 DEF Types
    <3>2. CASE opt.remax
      <4>1. ToSet(Phases) = {"validate", "generate", "baseline", "join", "balance",
              "compute_rm_score", "reward", "compute_log_prob", "compute_ref_log_prob",
              "compute_values", "advantage", "update_critic", "update_actor", "end"}
        BY <3>2 DEF Phases, ToSet
      <4> QED
        BY <3>1, <4>1 DEF Calls, Rollouts, Computes, Updates
    <3>3. CASE ~opt.remax
      <4>1. ToSet(Phases) = {"validate", "generate", "join", "balance",
              "compute_rm_score", "reward", "compute_log_prob", "compute_ref_log_prob",
              "compute_values", "advantage", "update_critic", "update_actor", "end"}
        BY <3>3 DEF Phases, ToSet
      <4> QED
        BY <2>2, <3>1, <3>3, <4>1 DEF Calls, Rollouts, Computes, Updates
    <3> QED
      BY <3>2, <3>3
  <2> QED
    BY <2>1, <2>3 DEF Types, TypeOK
<1> QED
  BY <1>1, Invariant, PTL

(* However often the rows are moved, every column follows the responses,   *)
(* no sample is lost, and an advantage is over the answers to one prompt.  *)
THEOREM ColumnsFollow == Spec => []RowsTogether
<1>1. ASSUME Inv
      PROVE  RowsTogether
  <2> DEFINE R == col["responses"]
  <2>1. Types /\ Driven
    BY <1>1 DEF Inv
  <2>2. phase \notin {"validate", "raised"} => val = ValBatch
    BY <2>1 DEF Driven
  <2>3. CASE phase \in Early
    <3>1. \A c \in Columns : ~Joined(c)
      BY <2>1, <2>3 DEF Driven, Joined
    <3> QED
      BY <2>2, <3>1 DEF RowsTogether, Columns
  <2>4. CASE phase \notin Early
    <3>1. IsOrder(R) /\ \A c \in Columns : Follows(c)
      BY <2>1, <2>4 DEF Driven
    <3>2. ToSet(R) = Sample /\ Len(R) = Cardinality(Sample)
      <4>1. DOMAIN R = Sample /\ Len(R) = Prompts * N /\ \A i \in Sample : R[i] \in Sample
        BY <3>1, OrderType
      <4>2. \A s \in Sample : \E i \in Sample : R[i] = s
        BY <3>1, OrderIsOnto
      <4> HIDE DEF R
      <4> QED
        BY <4>1, <4>2, SampleFacts DEF ToSet
    <3>3. ASSUME NEW c \in Columns, Joined(c)
          PROVE  col[c] = [i \in Sample |-> Entry(c, R[i])]
      BY <3>1, <3>3 DEF Joined, Follows
    <3>4. ASSUME NEW c \in Computes \cup {"scores"}, Joined(c)
          PROVE  col[c] = R
      <4>1. c \in Columns /\ c \notin {"uid", "advantages"}
        BY DEF Columns, Computes
      <4>2. \A s : Entry(c, s) = s
        BY <4>1 DEF Entry
      <4>3. col[c] = [i \in Sample |-> R[i]]
        BY <3>3, <3>4, <4>1, <4>2
      <4> QED
        BY <3>1, <4>3 DEF IsOrder
    <3>5. ASSUME Joined("uid")
          PROVE  \A i \in Sample : col["uid"][i] = PromptOf(R[i])
      <4>1. \A s : Entry("uid", s) = PromptOf(s)
        BY DEF Entry
      <4>2. col["uid"] = [i \in Sample |-> Entry("uid", R[i])]
        BY <3>3, <3>5 DEF Columns
      <4> QED
        BY <4>1, <4>2
    <3>6. ASSUME Joined("advantages")
          PROVE  \A i \in Sample :
                   col["advantages"][i] = {s \in Sample : PromptOf(s) = col["uid"][i]}
      <4>1. Joined("uid")
        BY <2>1, <3>6 DEF Driven, Joined
      <4>2. \A s : Entry("advantages", s) = {t \in Sample : PromptOf(t) = PromptOf(s)}
        BY DEF Entry
      <4>3. col["advantages"] = [i \in Sample |-> Entry("advantages", R[i])]
        BY <3>3, <3>6 DEF Columns
      <4>4. \A i \in Sample :
              col["advantages"][i] = {t \in Sample : PromptOf(t) = PromptOf(R[i])}
        BY <4>2, <4>3
      <4> QED
        BY <3>5, <4>1, <4>4
    <3> QED
      BY <2>2, <3>2, <3>4, <3>5, <3>6 DEF RowsTogether
  <2> QED
    BY <2>3, <2>4
<1> QED
  BY <1>1, Invariant, PTL

(* Whatever the micro-batches, the gradient of an optimizer step is over   *)
(* the rows of the mini-batch, each of them once.                          *)
THEOREM GradientsAreWhole == Spec => []GradientIsMiniBatch
<1>1. ASSUME Inv
      PROVE  GradientIsMiniBatch
  <2> SUFFICES ASSUME NEW r \in Rank, pc[r] = "step"
               PROVE  /\ ToSet(grad[r]) = ToSet(MiniBatch(r))
                      /\ Len(grad[r]) = Len(MiniBatch(r))
    BY DEF GradientIsMiniBatch
  <2> DEFINE n == MiniLen(turn[r])
             d == MiniBatch(r)
             m == micro[r]
             p == FlattenSeq(m)
  <2>1. Types /\ HasRows /\ Deals(r) /\ Gathers(r)
    BY <1>1, InACall
  <2>2. PICK t, x : t \in Nat \ {0} /\ Stage(t, x)
    BY <1>1, InACall
  <2>3. phase \in Updates /\ turn[r] = t
    BY <2>2, PlaceOf
  <2>4. d \in Seq(Nat) /\ Len(d) = n /\ DOMAIN d = 1 .. n
    BY <2>1, <2>2, <2>3, LengthFacts
  <2>5. IsDealt(m, n) /\ next[r] = Len(m) + 1 /\ grad[r] = Picked(r)
    BY <2>1, <2>3 DEF Deals, Gathers, Together
  <2>6. m \in Seq(Seq(Nat)) /\ Len(m) \in 0 .. Len(m) /\ next[r] - 1 = Len(m)
    <3>1. m \in Seq(Seq(Nat))
      BY <2>5 DEF IsDealt
    <3>2. Len(m) \in Nat
      BY <3>1
    <3> QED
      BY <2>5, <3>1, <3>2
  <2>7. Ran(r) = FlattenSeq(SubSeq(m, 1, Len(m)))
    BY <2>6 DEF Ran
  <2>8. n \in Nat
    BY <2>4, LenProperties
  <2>9. Ran(r) = p /\ IsPermutation(p, n)
    <3> HIDE DEF n, m
    <3> QED
      BY <2>5, <2>6, <2>7, <2>8, DealtPrefix
  <2>10. grad[r] = [i \in DOMAIN p |-> d[p[i]]]
    BY <2>5, <2>9 DEF Picked
  <2> HIDE DEF p, d, n, m
  <2>11. /\ p \in Seq(Nat) /\ Len(p) = n /\ DOMAIN p = 1 .. n
         /\ \A i \in 1 .. n : p[i] \in 1 .. n
         /\ \A e \in 1 .. n : \E i \in 1 .. n : p[i] = e
    <3>1. p \in Seq(Nat) /\ Len(p) = n /\ {p[i] : i \in DOMAIN p} = 1 .. n
      BY <2>9 DEF IsPermutation
    <3>2. DOMAIN p = 1 .. n
      BY <3>1
    <3> QED
      BY <3>1, <3>2
  <2>12. grad[r] = [i \in 1 .. n |-> d[p[i]]]
    BY <2>10, <2>11
  <2>13. ToSet(grad[r]) = ToSet(d)
    <3>1. ASSUME NEW s
          PROVE  s \in ToSet(grad[r]) <=> \E i \in 1 .. n : s = d[p[i]]
      BY <2>12 DEF ToSet
    <3>2. ASSUME NEW s
          PROVE  s \in ToSet(d) <=> \E e \in 1 .. n : s = d[e]
      BY <2>4 DEF ToSet
    <3>3. ASSUME NEW s
          PROVE  s \in ToSet(grad[r]) <=> s \in ToSet(d)
      <4>1. (\E i \in 1 .. n : s = d[p[i]]) <=> \E e \in 1 .. n : s = d[e]
        BY <2>11
      <4> QED
        BY <3>1, <3>2, <4>1
    <3> QED
      BY <3>3
  <2>14. Len(grad[r]) = n
    BY <2>8, <2>12
  <2> QED
    BY <2>4, <2>13, <2>14 DEF d
<1> QED
  BY <1>1, Invariant, PTL

(* An update has trained on every sample ppo_epochs times when it is done, *)
(* whether its mini-batches are all full or not.                           *)
THEOREM EveryRowIsTrained == Spec => []TrainedEvenly
<1>1. ASSUME Inv
      PROVE  TrainedEvenly
  <2> SUFFICES ASSUME phase \in Updates, pc = [r \in Rank |-> "done"], NEW s \in Sample
               PROVE  seen[s] = Epochs
    BY DEF TrainedEvenly
  <2>1. 1 \in Rank /\ \A q \in Rank : pc[q] = "done"
    BY SampleFacts, Constants
  <2>2. Types /\ Driven /\ Awake
    <3>1. pc[1] # "idle"
      BY <2>1
    <3> QED
      BY <1>1, <2>1, <3>1, SomeoneAwake DEF Inv
  <2>3. phase \notin Rollouts /\ phase # "validate"
    BY DEF Updates, Rollouts
  <2>4. HasRows /\ InStep /\ \A r \in Rank : Counted(r)
    BY <2>2, <2>3, AwakeHasRows DEF Awake
  <2>5. PICK t \in 1 .. Turns : \E x \in {1} \cup {next[q] : q \in Rank} : Stage(t, x)
    BY <2>4 DEF InStep
  <2>6. PICK x : Stage(t, x)
    BY <2>5
  <2>7. t = Turns
    BY <2>1, <2>6 DEF Stage, Moment
  <2>8. \A r \in Rank : turn[r] = Turns
    BY <2>1, <2>6, <2>7, PlaceOf
  <2>9. PICK r \in Rank : \E j \in 1 .. Q : chunk[r][j] = s
    BY <2>4 DEF HasRows
  <2>10. PICK j \in 1 .. Q : chunk[r][j] = s
    BY <2>9
  <2> DEFINE b == ((j - 1) \div Mini) + 1
  <2>11. seen[s] = Passes(b, Turns) + 0
    <3>1. DoneTurns(r) = Turns /\ pc[r] # "forward"
      BY <2>1, <2>8 DEF DoneTurns
    <3> QED
      BY <2>4, <2>10, <3>1 DEF Counted
  <2>12. ~(b <= 0)
    <3>1. j - 1 \in Nat /\ Mini \in Nat \ {0}
      BY SampleFacts, Constants
    <3>2. (j - 1) \div Mini \in Nat
      BY <3>1, Division
    <3> QED
      BY <3>2
  <2>13. Passes(b, Turns) = Epochs
    <3>1. /\ Parts \in Nat \ {0} /\ Epochs \in Nat \ {0} /\ Turns = Parts * Epochs
      BY SizeFacts, Constants
    <3>2. 0 \in 0 .. Parts - 1 /\ Turns = Epochs * Parts + 0
      BY <3>1
    <3>3. Turns \div Parts = Epochs /\ Turns % Parts = 0
      BY <3>1, <3>2, DivisionIsUnique
    <3> HIDE DEF b
    <3> QED
      BY <2>12, <3>1, <3>3 DEF Passes
  <2> QED
    BY <2>11, <2>13, Constants
<1> QED
  BY <1>1, Invariant, PTL

(* A micro-batch is over the limit by less than its longest row, for as    *)
(* many micro-batches as the ranks have agreed on.                         *)
THEOREM MicroBatchesAreSmall == Spec => []MicroBatchesFit
<1>1. ASSUME Inv
      PROVE  MicroBatchesFit
  <2>1. ASSUME NEW r \in Rank, pc[r] = "forward", opt.dynamic
        PROVE  Fits(r)
    <3>1. Deals(r)
      BY <1>1, <2>1, InACall
    <3> QED
      BY <2>1, <3>1 DEF Deals
  <2> QED
    BY <2>1 DEF MicroBatchesFit, Fits
<1> QED
  BY <1>1, Invariant, PTL

(* The ranks agree on the next collective: nobody waits for a rank that    *)
(* has no micro-batch or no mini-batch left.                               *)
THEOREM RanksInLockstep == Spec => []Lockstep
<1>1. ASSUME Inv
      PROVE  Lockstep
  <2> SUFFICES ASSUME NEW q \in Rank, NEW r \in Rank,
                      pc[q] \in Together, pc[r] \in Together
               PROVE  Round(q) = Round(r)
    BY DEF Lockstep
  <2>1. Deals(q) /\ Deals(r)
    BY <1>1, InACall DEF Together
  <2>2. PICK t, x : t \in Nat \ {0} /\ Stage(t, x)
    BY <1>1, InACall DEF Together
  <2>3. turn[q] = t /\ turn[r] = t /\ next[q] = x /\ next[r] = x
    BY <2>2, PlaceOf DEF Together
  <2>4. Len(micro[q]) = Pieces(q) /\ Len(micro[r]) = Pieces(r)
    BY <2>1 DEF Deals
  <2>5. Pieces(q) = Pieces(r)
    BY <2>3 DEF Pieces
  <2> QED
    BY <2>3, <2>4, <2>5 DEF Round
<1> QED
  BY <1>1, Invariant, PTL

(* No assertion fails, but the union of ReMax with several answers.        *)
THEOREM NothingRaises == Spec => []AssertionsHold
<1>1. ASSUME Inv
      PROVE  AssertionsHold
  <2>1. ASSUME NEW r \in Rank, pc[r] = "raised"
        PROVE  FALSE
    <3>1. PICK t, x : t \in Nat \ {0} /\ Stage(t, x)
      BY <1>1, <2>1, InACall
    <3> QED
      BY <2>1, <3>1, PlaceOf
  <2>2. phase = "raised" => opt.remax /\ N > 1
    BY <1>1 DEF Inv, Driven
  <2> QED
    BY <2>1, <2>2 DEF AssertionsHold
<1> QED
  BY <1>1, Invariant, PTL
=============================================================================
