------------------------- MODULE AgentRoutingProofs --------------------------
(***************************************************************************)
(* AgentRouting, for every set of workers and servers, every size of the   *)
(* chunks and of the cache: the heaps stay in order, nothing is left       *)
(* behind when the driver goes on, and, when a cache holds a chunk, the    *)
(* managers implement StickySessions.                                      *)
(***************************************************************************)
EXTENDS AgentRouting, FiniteSetTheorems, SequenceTheorems, TLAPS

(* A cache of a worker that never has to drop an open conversation. *)
Roomy == CacheSize >= Chunk

-----------------------------------------------------------------------------
(* The LRU cache as a sequence.                                            *)

Distinct(q) == \A i, j \in 1 .. Len(q) : q[i] = q[j] => i = j

(* A lookup moves one key to the end and keeps the order of the others. *)
LEMMA TouchedShape ==
  ASSUME NEW S, NEW q \in Seq(S), NEW r, Contains(q, r), Distinct(q)
  PROVE  \E i \in 1 .. Len(q) :
           /\ q[i] = r
           /\ Touched(q, r) \in Seq(S)
           /\ Len(Touched(q, r)) = Len(q)
           /\ \A k \in 1 .. Len(q) :
                Touched(q, r)[k] = IF k < i THEN q[k]
                                   ELSE IF k < Len(q) THEN q[k + 1] ELSE r
<1>1. PICK i \in 1 .. Len(q) : q[i] = r
  BY DEF Contains
<1>2. {k \in 1 .. Len(q) : q[k] = r} = {i}
  BY <1>1 DEF Distinct
<1>3. Min({i}) = i
  BY DEF Min
<1>4. SelectInSeq(q, LAMBDA v : v = r) = i
  BY <1>2, <1>3 DEF SelectInSeq
<1>5. RemoveFirst(q, r) = SubSeq(q, 1, i - 1) \o SubSeq(q, i + 1, Len(q))
  BY <1>1, <1>4 DEF RemoveFirst, RemoveAt
<1> DEFINE a == SubSeq(q, 1, i - 1)
           b == SubSeq(q, i + 1, Len(q))
<1>6. /\ a \in Seq(S) /\ Len(a) = i - 1
      /\ \A k \in 1 .. i - 1 : a[k] = q[k]
  OBVIOUS
<1>7. /\ b \in Seq(S) /\ Len(b) = Len(q) - i
      /\ \A k \in 1 .. Len(q) - i : b[k] = q[i + k]
  OBVIOUS
<1> HIDE DEF a, b
<1>8. /\ a \o b \in Seq(S) /\ Len(a \o b) = Len(q) - 1
      /\ \A k \in 1 .. Len(q) - 1 :
           (a \o b)[k] = IF k < i THEN q[k] ELSE q[k + 1]
  <2>1. a \o b \in Seq(S) /\ Len(a \o b) = Len(q) - 1
    <3>1. Len(q) \in Nat
      OBVIOUS
    <3>2. a \o b \in Seq(S) /\ Len(a \o b) = Len(a) + Len(b)
      BY <1>6, <1>7, ConcatProperties
    <3> QED BY <1>6, <1>7, <3>1, <3>2
  <2>2. ASSUME NEW k \in 1 .. Len(q) - 1
        PROVE  (a \o b)[k] = IF k < i THEN q[k] ELSE q[k + 1]
    <3>1. (a \o b)[k] = IF k <= Len(a) THEN a[k] ELSE b[k - Len(a)]
      BY <1>6, <1>7, ConcatProperties
    <3>2. CASE k < i
      BY <1>6, <3>1, <3>2
    <3>3. CASE ~(k < i)
      <4>1. k - (i - 1) \in 1 .. Len(q) - i /\ i + (k - (i - 1)) = k + 1
        BY <3>3
      <4> QED BY <1>6, <1>7, <3>1, <3>3, <4>1
    <3> QED BY <3>2, <3>3
  <2> QED BY <2>1, <2>2
<1>9. Touched(q, r) = Append(a \o b, r)
  BY <1>5 DEF Touched, a, b
<1>10. r \in S
  BY <1>1
<1>11. ASSUME NEW k \in 1 .. Len(q)
       PROVE  Touched(q, r)[k] = IF k < i THEN q[k]
                                 ELSE IF k < Len(q) THEN q[k + 1] ELSE r
  <2>1. CASE k < Len(q)
    BY <1>8, <1>9, <2>1
  <2>2. CASE k = Len(q)
    <3>1. Append(a \o b, r)[Len(a \o b) + 1] = r
      BY <1>8
    <3> QED BY <1>1, <1>8, <1>9, <2>2, <3>1
  <2> QED BY <2>1, <2>2
<1>12. Touched(q, r) \in Seq(S) /\ Len(Touched(q, r)) = Len(q)
  BY <1>8, <1>9, <1>10
<1> QED BY <1>1, <1>11, <1>12

(* What a cache looks like when it has only been used up to batch b. *)
Keys(q, w, b) ==
  /\ q \in Seq(Request)
  /\ Distinct(q)
  /\ \A i \in 1 .. Len(q) : q[i][2] = w /\ q[i][1] <= b
  /\ \A i, j \in 1 .. Len(q) : i < j => q[i][1] <= q[j][1]

LEMMA RequestFields ==
  ASSUME NEW r \in Request
  PROVE  /\ r[1] \in Nat \ {0} /\ r[2] \in Worker /\ r[3] \in 1 .. Chunk
         /\ r = <<r[1], r[2], r[3]>>
BY DEF Request

(* A lookup for the latest batch keeps the cache ordered, and its keys. *)
LEMMA TouchedKeys ==
  ASSUME NEW w, NEW b, NEW q, Keys(q, w, b), NEW r \in Request, r[1] = b,
         Contains(q, r)
  PROVE  /\ Keys(Touched(q, r), w, b)
         /\ \A x : Contains(Touched(q, r), x) <=> Contains(q, x)
<1> DEFINE t == Touched(q, r)
<1>1. PICK i \in 1 .. Len(q) :
        /\ q[i] = r /\ t \in Seq(Request) /\ Len(t) = Len(q)
        /\ \A k \in 1 .. Len(q) :
             t[k] = IF k < i THEN q[k] ELSE IF k < Len(q) THEN q[k + 1] ELSE r
  BY TouchedShape DEF Keys
<1> HIDE DEF t
<1>2. Len(q) \in Nat
  BY DEF Keys
<1> DEFINE p(k) == IF k < i THEN k ELSE IF k < Len(q) THEN k + 1 ELSE i
<1>3. \A k \in 1 .. Len(q) : p(k) \in 1 .. Len(q) /\ t[k] = q[p(k)]
  BY <1>1, <1>2
<1>4. \A k, l \in 1 .. Len(q) : p(k) = p(l) => k = l
  BY <1>2
<1>5. Distinct(t)
  <2>1. SUFFICES ASSUME NEW k \in 1 .. Len(q), NEW l \in 1 .. Len(q), t[k] = t[l]
                 PROVE  k = l
    BY <1>1 DEF Distinct
  <2>2. p(k) = p(l)
    BY <1>3, <2>1 DEF Keys, Distinct
  <2> QED BY <1>4, <2>2
<1>6. \A k \in 1 .. Len(t) : t[k][2] = w /\ t[k][1] <= b
  BY <1>1, <1>3 DEF Keys
<1>7. ASSUME NEW k \in 1 .. Len(t), NEW l \in 1 .. Len(t), k < l
      PROVE  t[k][1] <= t[l][1]
  <2>1. CASE l = Len(q)
    <3>1. t[l] = r
      BY <1>1, <1>2, <2>1
    <3> QED BY <1>6, <3>1
  <2>2. CASE l < Len(q)
    <3>1. p(k) < p(l)
      BY <1>1, <1>2, <1>7, <2>2
    <3> QED BY <1>1, <1>3, <1>7, <3>1 DEF Keys
  <2> QED BY <1>1, <1>2, <2>1, <2>2
<1>8. ASSUME NEW x, Contains(q, x)
      PROVE  Contains(t, x)
  <2>1. PICK j \in 1 .. Len(q) : q[j] = x
    BY <1>8 DEF Contains
  <2>2. \E k \in 1 .. Len(q) : p(k) = j
    <3>1. CASE j < i
      <4> WITNESS j \in 1 .. Len(q)
      <4> QED BY <3>1
    <3>2. CASE j = i
      <4>1. Len(q) \in 1 .. Len(q) /\ p(Len(q)) = j
        BY <1>2, <3>2
      <4> QED BY <4>1
    <3>3. CASE j > i
      <4>1. j - 1 \in 1 .. Len(q) /\ p(j - 1) = j
        BY <1>2, <3>3
      <4> QED BY <4>1
    <3> QED BY <3>1, <3>2, <3>3
  <2> QED BY <1>1, <1>3, <2>1, <2>2 DEF Contains
<1>9. ASSUME NEW x, Contains(t, x)
      PROVE  Contains(q, x)
  BY <1>1, <1>3, <1>9 DEF Contains
<1>10. Keys(t, w, b)
  BY <1>1, <1>5, <1>6, <1>7 DEF Keys
<1> QED BY <1>8, <1>9, <1>10 DEF t

(* An insertion for the latest batch keeps the cache ordered. *)
LEMMA InsertedKeys ==
  ASSUME NEW w, NEW b, NEW q, Keys(q, w, b),
         NEW r \in Request, r[1] = b, r[2] = w, ~Contains(q, r)
  PROVE  /\ Keys(Inserted(q, r), w, b)
         /\ \A x : Contains(Inserted(q, r), x) => x = r \/ Contains(q, x)
         /\ Contains(Inserted(q, r), r)
<1> DEFINE h == IF Len(q) < CacheSize THEN q ELSE Tail(q)
           d == IF Len(q) < CacheSize THEN 0 ELSE 1
<1>1. Len(q) \in Nat /\ q \in Seq(Request) /\ CacheSize \in Nat \ {0}
  BY RoutingAssumption DEF Keys
<1>2. /\ h \in Seq(Request) /\ Len(h) = Len(q) - d
      /\ \A k \in 1 .. Len(h) : k + d \in 1 .. Len(q) /\ h[k] = q[k + d]
  <2>1. CASE Len(q) < CacheSize
    BY <1>1, <2>1
  <2>2. CASE ~(Len(q) < CacheSize)
    <3>1. q # <<>>
      BY <1>1, <2>2
    <3> QED BY <1>1, <2>2, <3>1
  <2> QED BY <2>1, <2>2
<1>3. Inserted(q, r) = Append(h, r)
  BY DEF Inserted
<1> HIDE DEF h, d
<1> DEFINE t == Append(h, r)
<1>4. /\ t \in Seq(Request) /\ Len(h) \in Nat /\ Len(t) = Len(h) + 1
      /\ t[Len(h) + 1] = r
      /\ \A k \in 1 .. Len(h) : t[k] = h[k]
  BY <1>2
<1> HIDE DEF t
<1>5. \A k \in 1 .. Len(h) : t[k] # r
  BY <1>2, <1>4 DEF Contains
<1>6. d \in Nat
  BY DEF d
<1>7. Distinct(t)
  <2>1. SUFFICES ASSUME NEW k \in 1 .. Len(t), NEW l \in 1 .. Len(t), t[k] = t[l]
                 PROVE  k = l
    BY DEF Distinct
  <2>2. CASE k \in 1 .. Len(h) /\ l \in 1 .. Len(h)
    BY <1>2, <1>4, <1>6, <2>1, <2>2 DEF Keys, Distinct
  <2>3. CASE k = Len(h) + 1 \/ l = Len(h) + 1
    BY <1>4, <1>5, <2>1, <2>3
  <2> QED BY <1>4, <2>2, <2>3
<1>8. ASSUME NEW k \in 1 .. Len(t)
      PROVE  t[k][2] = w /\ t[k][1] <= b
  <2>1. CASE k \in 1 .. Len(h)
    BY <1>2, <1>4, <2>1 DEF Keys
  <2>2. CASE k = Len(h) + 1
    BY <1>4, <2>2, RequestFields
  <2> QED BY <1>4, <2>1, <2>2
<1>9. ASSUME NEW k \in 1 .. Len(t), NEW l \in 1 .. Len(t), k < l
      PROVE  t[k][1] <= t[l][1]
  <2>1. CASE l \in 1 .. Len(h)
    <3>1. k \in 1 .. Len(h) /\ k + d < l + d
      BY <1>4, <1>6, <1>9, <2>1
    <3> QED BY <1>2, <1>4, <2>1, <3>1 DEF Keys
  <2>2. CASE l = Len(h) + 1
    BY <1>4, <1>8, <2>2
  <2> QED BY <1>4, <2>1, <2>2
<1>10. \A x : Contains(t, x) => x = r \/ Contains(q, x)
  <2>1. SUFFICES ASSUME NEW x, NEW k \in 1 .. Len(t), t[k] = x
                 PROVE  x = r \/ Contains(q, x)
    BY DEF Contains
  <2> QED BY <1>2, <1>4, <2>1 DEF Contains
<1>11. Contains(t, r)
  BY <1>4 DEF Contains
<1>12. Keys(t, w, b)
  BY <1>4, <1>7, <1>8, <1>9 DEF Keys
<1> QED BY <1>3, <1>10, <1>11, <1>12 DEF t

(* It never drops a key of the latest batch: a full cache whose least      *)
(* recent key is of that batch holds only rows of the worker's chunk, all  *)
(* different and none of them r, and they would be too few to fill it.     *)
LEMMA InsertedKeeps ==
  ASSUME Roomy, NEW w, NEW b, NEW q, Keys(q, w, b),
         NEW r \in Request, r[1] = b, r[2] = w, ~Contains(q, r),
         NEW x \in Request, x[1] = b, Contains(q, x)
  PROVE  Contains(Inserted(q, r), x)
<1>1. Len(q) \in Nat /\ q \in Seq(Request) /\ CacheSize \in Nat \ {0} /\ Chunk \in Nat
  BY RoutingAssumption DEF Keys
<1>2. PICK i \in 1 .. Len(q) : q[i] = x
  BY DEF Contains
<1>3. CASE Len(q) < CacheSize
  <2>1. Inserted(q, r) = Append(q, r)
    BY <1>3 DEF Inserted
  <2>2. Len(Append(q, r)) = Len(q) + 1 /\ Append(q, r)[i] = x
    BY <1>1, <1>2
  <2> QED BY <1>1, <1>2, <2>1, <2>2 DEF Contains
<1>4. CASE ~(Len(q) < CacheSize) /\ i > 1
  <2>1. Inserted(q, r) = Append(Tail(q), r)
    BY <1>4 DEF Inserted
  <2>2. q # <<>>
    BY <1>1, <1>4
  <2>3. /\ Tail(q) \in Seq(Request) /\ Len(Tail(q)) = Len(q) - 1
        /\ Tail(q)[i - 1] = x
    BY <1>1, <1>2, <1>4, <2>2
  <2>4. /\ Len(Append(Tail(q), r)) = Len(q) /\ i - 1 \in 1 .. Len(q)
        /\ Append(Tail(q), r)[i - 1] = x
    BY <1>1, <1>2, <1>4, <2>3
  <2> QED BY <2>1, <2>4 DEF Contains
<1>5. CASE ~(Len(q) < CacheSize) /\ i = 1
  <2>1. ASSUME NEW k \in 1 .. Len(q)
        PROVE  /\ q[k] \in Request /\ q[k][1] = b /\ q[k][2] = w
               /\ q[k][3] \in (1 .. Chunk) \ {r[3]}
    <3>1. q[k] \in Request /\ q[k][2] = w /\ q[k][1] <= b
      BY <1>1 DEF Keys
    <3>2. k = 1 \/ (1 \in 1 .. Len(q) /\ 1 < k)
      BY <1>1
    <3>3. b <= q[k][1]
      BY <1>2, <1>5, <3>1, <3>2, RequestFields DEF Keys
    <3>4. q[k][1] = b
      BY <3>1, <3>3, RequestFields
    <3>5. q[k] # r
      BY DEF Contains
    <3> QED BY <3>1, <3>4, <3>5, RequestFields
  <2> DEFINE f == [k \in 1 .. Len(q) |-> q[k][3]]
             T == (1 .. Chunk) \ {r[3]}
  <2>2. f \in [1 .. Len(q) -> T]
    BY <2>1
  <2>3. IsFiniteSet(1 .. Len(q)) /\ Cardinality(1 .. Len(q)) = Len(q)
    BY <1>1, FS_Interval
  <2>4. IsFiniteSet(T) /\ Cardinality(T) = Chunk - 1
    <3>1. IsFiniteSet(1 .. Chunk) /\ Cardinality(1 .. Chunk) = Chunk
      <4>1. Chunk \in Nat \ {0}
        BY RoutingAssumption
      <4>2. /\ IsFiniteSet(1 .. Chunk)
            /\ Cardinality(1 .. Chunk) = IF 1 > Chunk THEN 0 ELSE Chunk - 1 + 1
        <5>1. 1 \in Int /\ Chunk \in Int
          BY <4>1
        <5> QED BY ONLY <5>1, FS_Interval
      <4> QED BY <4>1, <4>2
    <3> QED BY <3>1, FS_RemoveElement, RequestFields
  <2>5. Cardinality(T) < Cardinality(1 .. Len(q))
    BY <1>1, <1>5, <2>3, <2>4 DEF Roomy
  <2>6. PICK k, l \in 1 .. Len(q) : k # l /\ f[k] = f[l]
    <3> HIDE DEF f, T
    <3> QED BY <2>2, <2>3, <2>4, <2>5, FS_PigeonHole
  <2>7. q[k] = q[l]
    <3>1. q[k][3] = q[l][3]
      BY <2>6
    <3>2. q[k] = <<b, w, q[k][3]>> /\ q[l] = <<b, w, q[l][3]>>
      BY <2>1, RequestFields
    <3> QED BY <3>1, <3>2
  <2> QED BY <2>6, <2>7 DEF Keys, Distinct
<1> QED BY <1>1, <1>2, <1>3, <1>4, <1>5

-----------------------------------------------------------------------------
(* The inductive invariant.                                                *)

LoopInv ==
  \A r \in Request :
    /\ at[r] = IF loop[r] = "asking" THEN {serverOf[r]} ELSE {}
    /\ loop[r] = "new" => turn[r] = 0
    /\ r[1] > batch => loop[r] = "new"
    /\ r[1] < batch => loop[r] = "over"
    /\ job = "idle" /\ r[1] = batch => loop[r] = "over"

CacheInv ==
  /\ \A w \in Worker : Keys(recent[w], w, batch)
  /\ \A w \in Worker, r \in Request : Cached(w, r) => turn[r] > 0

OpenInv == Roomy => \A r \in Request : Open(r) => Cached(r[2], r)

IInv == TypeOK /\ HeapInOrder /\ LoopInv /\ CacheInv /\ OpenInv

LEMMA IInit == Init => IInv
<1> SUFFICES ASSUME Init PROVE IInv
  OBVIOUS
<1> USE RoutingAssumption DEF Init
<1>1. (CHOOSE s \in Server : TRUE) \in Server
  OBVIOUS
<1>2. TypeOK
  BY <1>1 DEF TypeOK
<1>3. HeapInOrder
  BY DEF HeapInOrder
<1>4. LoopInv
  BY RequestFields DEF LoopInv
<1>5. CacheInv
  BY DEF CacheInv, Keys, Distinct, Cached, Contains
<1>6. OpenInv
  BY DEF OpenInv, Open
<1> QED BY <1>2, <1>3, <1>4, <1>5, <1>6 DEF IInv

(* A loop that is running belongs to the current batch. *)
LEMMA RunningRow ==
  ASSUME IInv, NEW r \in Request, loop[r] \in {"turn", "asking", "raised"}
  PROVE  r[1] = batch /\ job # "idle"
<1>1. r[1] \in Nat /\ batch \in Nat
  BY RequestFields DEF IInv, TypeOK
<1>2. ~(r[1] > batch) /\ ~(r[1] < batch) /\ ~(job = "idle" /\ r[1] = batch)
  BY DEF IInv, LoopInv
<1> QED BY <1>1, <1>2

(* The heap: the count of the top goes up by one. *)
LEMMA HeapStep ==
  ASSUME TypeOK, HeapInOrder, NEW w \in Worker, NEW s \in Server, Top(w, s),
         weight' = [weight EXCEPT ![w][s] = @ + 1]
  PROVE  HeapInOrder'
<1>1. SUFFICES ASSUME NEW v \in Worker, NEW x \in Server, NEW y \in Server,
                      HashOf[x] < HashOf[y]
               PROVE  weight'[v][x] - weight'[v][y] \in {0, 1}
  BY DEF HeapInOrder
<1>2. /\ weight[v][x] \in Nat /\ weight[v][y] \in Nat
      /\ HashOf[x] \in Nat /\ HashOf[y] \in Nat /\ x # y
      /\ weight[v][x] - weight[v][y] \in {0, 1}
  <2>1. weight[v][x] \in Nat /\ weight[v][y] \in Nat
    BY DEF TypeOK
  <2>2. HashOf[x] \in Nat /\ HashOf[y] \in Nat
    BY RoutingAssumption
  <2>3. x # y
    BY <1>1, <2>2
  <2>4. weight[v][x] - weight[v][y] \in {0, 1}
    BY <1>1 DEF HeapInOrder
  <2> QED BY <2>1, <2>2, <2>3, <2>4
<1>3. CASE v # w
  BY <1>2, <1>3 DEF TypeOK
<1>4. CASE v = w /\ s # x /\ s # y
  BY <1>2, <1>4 DEF TypeOK
<1>5. CASE v = w /\ s = x
  <2>1. weight[v][x] <= weight[v][y]
    BY <1>2, <1>5 DEF Top, Before
  <2>2. weight'[v][x] = weight[v][x] + 1 /\ weight'[v][y] = weight[v][y]
    BY <1>2, <1>5 DEF TypeOK
  <2> QED BY <1>2, <2>1, <2>2
<1>6. CASE v = w /\ s = y
  <2>1. weight[v][y] < weight[v][x]
    BY <1>1, <1>2, <1>6 DEF Top, Before
  <2>2. weight'[v][y] = weight[v][y] + 1 /\ weight'[v][x] = weight[v][x]
    BY <1>2, <1>6 DEF TypeOK
  <2> QED BY <1>2, <2>1, <2>2
<1> QED BY <1>3, <1>4, <1>5, <1>6

(* The choice of a server: what it does to the cache, hit or miss. *)
LEMMA ChooseStep ==
  ASSUME IInv, NEW r \in Request, NEW s \in Server, r[1] = batch,
         ChooseServer(r[2], r, s)
  PROVE  /\ recent' \in [Worker -> Seq(Request)]
         /\ serverOf' = [serverOf EXCEPT ![r] = s]
         /\ weight' \in [Worker -> [Server -> Nat]] /\ HeapInOrder'
         /\ \A w \in Worker : Keys(recent'[w], w, batch)
         /\ \A w \in Worker : w # r[2] => recent'[w] = recent[w]
         /\ \A x : Contains(recent'[r[2]], x) => x = r \/ Cached(r[2], x)
         /\ Contains(recent'[r[2]], r)
         /\ Roomy => \A x \in Request :
              x[1] = batch /\ Cached(r[2], x) => Contains(recent'[r[2]], x)
<1> DEFINE w == r[2]
<1>1. w \in Worker
  BY RequestFields
<1>2. TypeOK /\ HeapInOrder /\ Keys(recent[w], w, batch)
  BY <1>1 DEF IInv, CacheInv
<1>3. CASE Remember(w, r, s)
  <2>1. /\ Cached(w, r) /\ s = serverOf[r]
        /\ recent' = [recent EXCEPT ![w] = Touched(recent[w], r)]
        /\ serverOf' = serverOf /\ weight' = weight
    BY <1>3 DEF Remember
  <2>2. /\ Keys(Touched(recent[w], r), w, batch)
        /\ \A x : Contains(Touched(recent[w], r), x) <=> Contains(recent[w], x)
    <3> HIDE DEF w
    <3> QED BY <1>2, <2>1, TouchedKeys DEF Cached
  <2>3. serverOf' = [serverOf EXCEPT ![r] = s]
    BY <1>2, <2>1 DEF TypeOK
  <2>4. weight' \in [Worker -> [Server -> Nat]] /\ HeapInOrder'
    BY <1>2, <2>1 DEF TypeOK, HeapInOrder
  <2>5. recent'[w] = Touched(recent[w], r) /\ recent' \in [Worker -> Seq(Request)]
    BY <1>1, <1>2, <2>1, <2>2 DEF TypeOK, Keys
  <2>6. \A v \in Worker : v # w => recent'[v] = recent[v]
    BY <1>2, <2>1 DEF TypeOK
  <2>7. \A v \in Worker : Keys(recent'[v], v, batch)
    BY <2>2, <2>5, <2>6 DEF IInv, CacheInv
  <2> QED BY <2>1, <2>2, <2>3, <2>4, <2>5, <2>6, <2>7 DEF Cached
<1>4. CASE Assign(w, r, s)
  <2>1. /\ ~Cached(w, r) /\ Top(w, s)
        /\ weight' = [weight EXCEPT ![w][s] = @ + 1]
        /\ recent' = [recent EXCEPT ![w] = Inserted(recent[w], r)]
        /\ serverOf' = [serverOf EXCEPT ![r] = s]
    BY <1>4 DEF Assign
  <2>2. /\ Keys(Inserted(recent[w], r), w, batch)
        /\ \A x : Contains(Inserted(recent[w], r), x) => x = r \/ Contains(recent[w], x)
        /\ Contains(Inserted(recent[w], r), r)
    BY <1>2, <2>1, InsertedKeys DEF Cached
  <2>3. Roomy => \A x \in Request :
          x[1] = batch /\ Cached(w, x) => Contains(Inserted(recent[w], r), x)
    BY <1>2, <2>1, InsertedKeeps DEF Cached
  <2>4. weight' \in [Worker -> [Server -> Nat]] /\ HeapInOrder'
    <3>1. HeapInOrder'
      BY <1>1, <1>2, <2>1, HeapStep
    <3> QED BY <1>1, <1>2, <2>1, <3>1 DEF TypeOK
  <2>5. recent'[w] = Inserted(recent[w], r) /\ recent' \in [Worker -> Seq(Request)]
    BY <1>1, <1>2, <2>1, <2>2 DEF TypeOK, Keys
  <2>6. \A v \in Worker : v # w => recent'[v] = recent[v]
    BY <1>2, <2>1 DEF TypeOK
  <2>7. \A v \in Worker : Keys(recent'[v], v, batch)
    BY <2>2, <2>5, <2>6 DEF IInv, CacheInv
  <2> QED BY <2>1, <2>2, <2>3, <2>4, <2>5, <2>6, <2>7 DEF Cached
<1> QED BY <1>3, <1>4 DEF ChooseServer

-----------------------------------------------------------------------------
(* Every step keeps it.                                                    *)

LEMMA AskStep ==
  ASSUME IInv, NEW r \in Request, NEW s \in Server, Ask(r, s)
  PROVE  IInv'
<1>1. /\ loop[r] = "turn" /\ turn[r] < MaxTurns
      /\ ChooseServer(r[2], r, s)
      /\ loop' = [loop EXCEPT ![r] = "asking"]
      /\ turn' = [turn EXCEPT ![r] = turn[r] + 1]
      /\ at' = [at EXCEPT ![r] = {s}]
      /\ job' = job /\ batch' = batch /\ faults' = faults
  BY DEF Ask
<1>2. r[1] = batch /\ job # "idle" /\ r[2] \in Worker
  BY <1>1, RunningRow, RequestFields
<1>3. /\ recent' \in [Worker -> Seq(Request)]
      /\ serverOf' = [serverOf EXCEPT ![r] = s]
      /\ weight' \in [Worker -> [Server -> Nat]] /\ HeapInOrder'
      /\ \A w \in Worker : Keys(recent'[w], w, batch)
      /\ \A w \in Worker : w # r[2] => recent'[w] = recent[w]
      /\ \A x : Contains(recent'[r[2]], x) => x = r \/ Cached(r[2], x)
      /\ Contains(recent'[r[2]], r)
      /\ Roomy => \A x \in Request :
            x[1] = batch /\ Cached(r[2], x) => Contains(recent'[r[2]], x)
  BY <1>1, <1>2, ChooseStep
<1>4. TypeOK /\ MaxTurns \in Nat
  BY RoutingAssumption DEF IInv
<1>5. TypeOK'
  BY <1>1, <1>3, <1>4 DEF TypeOK
<1>6. ASSUME NEW x \in Request
      PROVE  /\ x = r => loop'[x] = "asking" /\ turn'[x] = turn[x] + 1
                         /\ at'[x] = {s} /\ serverOf'[x] = s
             /\ x # r => loop'[x] = loop[x] /\ turn'[x] = turn[x]
                         /\ at'[x] = at[x] /\ serverOf'[x] = serverOf[x]
  BY <1>1, <1>3, <1>4 DEF TypeOK
<1>7. LoopInv'
  <2>1. SUFFICES ASSUME NEW x \in Request
                 PROVE  /\ at'[x] = IF loop'[x] = "asking" THEN {serverOf'[x]} ELSE {}
                        /\ loop'[x] = "new" => turn'[x] = 0
                        /\ x[1] > batch' => loop'[x] = "new"
                        /\ x[1] < batch' => loop'[x] = "over"
                        /\ job' = "idle" /\ x[1] = batch' => loop'[x] = "over"
    BY DEF LoopInv
  <2>2. CASE x = r
    BY <1>1, <1>2, <1>4, <1>6, <2>2 DEF TypeOK
  <2>3. CASE x # r
    BY <1>1, <1>6, <2>3 DEF IInv, LoopInv
  <2> QED BY <2>2, <2>3
<1>8. CacheInv'
  <2>1. ASSUME NEW w \in Worker, NEW x \in Request, Cached(w, x)'
        PROVE  turn'[x] > 0
    <3>1. Contains(recent'[w], x)
      BY <2>1 DEF Cached
    <3>2. CASE x = r
      BY <1>4, <1>6, <3>2 DEF TypeOK
    <3>3. CASE x # r
      <4>1. Cached(w, x)
        BY <1>3, <3>1, <3>3 DEF Cached
      <4> QED BY <1>6, <3>3, <4>1 DEF IInv, CacheInv
    <3> QED BY <3>2, <3>3
  <2> QED BY <1>1, <1>3, <2>1 DEF CacheInv
<1>9. OpenInv'
  <2>1. SUFFICES ASSUME Roomy, NEW x \in Request, Open(x)'
                 PROVE  Contains(recent'[x[2]], x)
    BY DEF OpenInv, Cached
  <2>2. CASE x = r
    BY <1>3, <2>2
  <2>3. CASE x # r
    <3>1. Open(x) /\ x[2] \in Worker
      BY <1>6, <2>1, <2>3, RequestFields DEF Open
    <3>2. Cached(x[2], x)
      BY <2>1, <3>1 DEF IInv, OpenInv
    <3>3. x[1] = batch
      BY <3>1, RunningRow DEF Open
    <3>4. CASE x[2] = r[2]
      BY <1>3, <2>1, <3>2, <3>3, <3>4
    <3>5. CASE x[2] # r[2]
      BY <1>3, <3>1, <3>2, <3>5 DEF Cached
    <3> QED BY <3>4, <3>5
  <2> QED BY <2>2, <2>3
<1> QED BY <1>3, <1>5, <1>7, <1>8, <1>9 DEF IInv

(* The steps that leave the managers alone. *)
LEMMA LoopStep ==
  ASSUME IInv, NEW r \in Request, Answer(r) \/ End(r) \/ Raise(r)
  PROVE  IInv'
<1>1. PICK a \in {"turn", "over", "raised"} :
        /\ loop[r] \in {"turn", "asking"}
        /\ loop' = [loop EXCEPT ![r] = a]
        /\ at' = [at EXCEPT ![r] = {}]
        /\ job' = job /\ batch' = batch /\ turn' = turn
        /\ faults' \in 0 .. MaxFaults
        /\ recent' = recent /\ serverOf' = serverOf /\ weight' = weight
  <2>1. TypeOK /\ LoopInv /\ MaxFaults \in Nat
    BY RoutingAssumption DEF IInv
  <2>2. CASE Answer(r)
    BY <2>1, <2>2 DEF Answer, TypeOK, managerVars
  <2>3. CASE End(r)
    <3>1. at[r] = {}
      BY <2>1, <2>3 DEF End, LoopInv
    <3>2. at = [at EXCEPT ![r] = {}]
      BY <2>1, <3>1 DEF TypeOK
    <3> QED BY <2>1, <2>3, <3>2 DEF End, TypeOK, managerVars
  <2>4. CASE Raise(r)
    BY <2>1, <2>4 DEF Raise, TypeOK, managerVars
  <2> QED BY <2>2, <2>3, <2>4
<1>2. TypeOK /\ HeapInOrder /\ LoopInv /\ CacheInv /\ OpenInv
  BY DEF IInv
<1>3. TypeOK'
  BY <1>1, <1>2 DEF TypeOK
<1>4. HeapInOrder'
  BY <1>1, <1>2 DEF HeapInOrder
<1>5. ASSUME NEW x \in Request
      PROVE  /\ x = r => loop'[x] = a /\ at'[x] = {}
             /\ x # r => loop'[x] = loop[x] /\ at'[x] = at[x]
  BY <1>1, <1>2 DEF TypeOK
<1>6. r[1] = batch /\ job # "idle" /\ batch \in Nat
  BY <1>1, <1>2, RunningRow DEF TypeOK
<1>7. LoopInv'
  <2>1. SUFFICES ASSUME NEW x \in Request
                 PROVE  /\ at'[x] = IF loop'[x] = "asking" THEN {serverOf'[x]} ELSE {}
                        /\ loop'[x] = "new" => turn'[x] = 0
                        /\ x[1] > batch' => loop'[x] = "new"
                        /\ x[1] < batch' => loop'[x] = "over"
                        /\ job' = "idle" /\ x[1] = batch' => loop'[x] = "over"
    BY DEF LoopInv
  <2>2. CASE x = r
    BY <1>1, <1>5, <1>6, <2>2
  <2>3. CASE x # r
    BY <1>1, <1>2, <1>5, <2>3 DEF LoopInv
  <2> QED BY <2>2, <2>3
<1>8. CacheInv'
  BY <1>1, <1>2 DEF CacheInv, Cached
<1>9. OpenInv'
  <2>1. SUFFICES ASSUME Roomy, NEW x \in Request, Open(x)'
                 PROVE  Contains(recent'[x[2]], x)
    BY DEF OpenInv, Cached
  <2>2. Open(x)
    BY <1>1, <1>5, <2>1 DEF Open
  <2> QED BY <1>1, <1>2, <2>1, <2>2 DEF OpenInv, Cached
<1> QED BY <1>3, <1>4, <1>7, <1>8, <1>9 DEF IInv

LEMMA GenerateStep == IInv /\ Generate => IInv'
<1> SUFFICES ASSUME IInv, Generate PROVE IInv'
  OBVIOUS
<1>1. /\ job = "idle" /\ batch < MaxBatches
      /\ job' = "rolling" /\ batch' = batch + 1
      /\ loop' = [r \in Request |-> IF r \in Rows(batch + 1) THEN "turn" ELSE loop[r]]
      /\ turn' = turn /\ faults' = faults /\ at' = at
      /\ recent' = recent /\ serverOf' = serverOf /\ weight' = weight
  BY DEF Generate, managerVars
<1>2. TypeOK /\ HeapInOrder /\ LoopInv /\ CacheInv /\ OpenInv
  BY DEF IInv
<1>3. batch \in Nat /\ MaxBatches \in Nat
  BY <1>2, RoutingAssumption DEF TypeOK
<1>4. TypeOK'
  <2>1. loop' \in [Request -> {"new", "turn", "asking", "over", "raised"}]
    BY <1>1, <1>2 DEF TypeOK
  <2>2. batch' \in 0 .. MaxBatches
    BY <1>1, <1>3
  <2> QED BY <1>1, <1>2, <2>1, <2>2 DEF TypeOK
<1>5. HeapInOrder'
  BY <1>1, <1>2 DEF HeapInOrder
<1>6. ASSUME NEW x \in Request
      PROVE  /\ x[1] \in Nat
             /\ x[1] = batch + 1 => /\ loop'[x] = "turn" /\ loop[x] = "new"
                                    /\ turn[x] = 0 /\ at[x] = {}
             /\ x[1] # batch + 1 => loop'[x] = loop[x]
             /\ x[1] <= batch => loop[x] = "over"
             /\ x[1] > batch => loop[x] = "new" /\ turn[x] = 0
  <2>1. x[1] \in Nat
    BY RequestFields
  <2>2. loop'[x] = IF x[1] = batch + 1 THEN "turn" ELSE loop[x]
    BY <1>1 DEF Rows
  <2>3. x[1] <= batch => loop[x] = "over"
    <3>1. x[1] <= batch => x[1] < batch \/ x[1] = batch
      BY <1>3, <2>1
    <3>2. (x[1] < batch => loop[x] = "over") /\ (x[1] = batch => loop[x] = "over")
      BY <1>1, <1>2 DEF LoopInv
    <3> QED BY <3>1, <3>2
  <2>4. x[1] > batch => loop[x] = "new" /\ turn[x] = 0 /\ at[x] = {}
    BY <1>2 DEF LoopInv
  <2> QED BY <1>3, <2>1, <2>2, <2>3, <2>4
<1>7. LoopInv'
  <2>1. SUFFICES ASSUME NEW x \in Request
                 PROVE  /\ at'[x] = IF loop'[x] = "asking" THEN {serverOf'[x]} ELSE {}
                        /\ loop'[x] = "new" => turn'[x] = 0
                        /\ x[1] > batch' => loop'[x] = "new"
                        /\ x[1] < batch' => loop'[x] = "over"
                        /\ job' = "idle" /\ x[1] = batch' => loop'[x] = "over"
    BY DEF LoopInv
  <2>2. at[x] = IF loop[x] = "asking" THEN {serverOf[x]} ELSE {}
    BY <1>2 DEF LoopInv
  <2>3. CASE x[1] = batch + 1
    <3>1. loop'[x] = "turn" /\ at[x] = {} 
      BY <1>6, <2>3
    <3>2. ~(x[1] > batch + 1) /\ ~(x[1] < batch + 1)
      BY <1>3, <2>3
    <3> QED BY <1>1, <3>1, <3>2
  <2>4. CASE x[1] # batch + 1
    BY <1>1, <1>2, <1>3, <1>6, <2>2, <2>4 DEF LoopInv
  <2> QED BY <2>3, <2>4
<1>8. CacheInv'
  <2>1. ASSUME NEW w \in Worker
        PROVE  Keys(recent[w], w, batch + 1)
    <3>1. Keys(recent[w], w, batch)
      BY <1>2 DEF CacheInv
    <3>2. ASSUME NEW i \in 1 .. Len(recent[w])
          PROVE  recent[w][i][1] <= batch + 1
      BY <1>3, <3>1, RequestFields DEF Keys
    <3> QED BY <3>1, <3>2 DEF Keys
  <2> QED BY <1>1, <1>2, <2>1 DEF CacheInv, Cached
<1>9. OpenInv'
  <2>1. SUFFICES ASSUME Roomy, NEW x \in Request, Open(x)'
                 PROVE  Contains(recent'[x[2]], x)
    BY DEF OpenInv, Cached
  <2>2. turn[x] > 0 /\ loop'[x] \in {"turn", "asking"}
    BY <1>1, <2>1 DEF Open
  <2>3. x[1] <= batch
    BY <1>3, <1>6, <2>2
  <2> QED BY <1>3, <1>6, <2>2, <2>3
<1> QED BY <1>4, <1>5, <1>7, <1>8, <1>9 DEF IInv

LEMMA DriverStep == IInv /\ (Collect \/ JobFails) => IInv'
<1> SUFFICES ASSUME IInv, Collect \/ JobFails PROVE IInv'
  OBVIOUS
<1>1. /\ job' \in {"idle", "failed"}
      /\ job' = "idle" => \A r \in Rows(batch) : loop[r] = "over"
      /\ batch' = batch /\ loop' = loop /\ turn' = turn /\ faults' = faults
      /\ recent' = recent /\ serverOf' = serverOf /\ weight' = weight
      /\ at' = at
  BY DEF Collect, JobFails, managerVars
<1>2. TypeOK /\ HeapInOrder /\ LoopInv /\ CacheInv /\ OpenInv
  BY DEF IInv
<1>3. TypeOK' /\ HeapInOrder' /\ CacheInv' /\ OpenInv'
  BY <1>1, <1>2 DEF TypeOK, HeapInOrder, CacheInv, Cached, OpenInv, Open
<1>4. LoopInv'
  BY <1>1, <1>2 DEF LoopInv, Rows
<1> QED BY <1>3, <1>4 DEF IInv

LEMMA IStep == IInv /\ [Next]_vars => IInv'
<1> SUFFICES ASSUME IInv, [Next]_vars PROVE IInv'
  OBVIOUS
<1>1. CASE Generate
  BY <1>1, GenerateStep
<1>2. CASE Collect \/ JobFails
  BY <1>2, DriverStep
<1>3. ASSUME NEW r \in Request, Advance(r) \/ Raise(r) PROVE IInv'
  BY <1>3, AskStep, LoopStep DEF Advance
<1>4. CASE UNCHANGED vars
  BY <1>4 DEF vars, managerVars, IInv, TypeOK, HeapInOrder, LoopInv, CacheInv,
              Cached, OpenInv, Open
<1> QED BY <1>1, <1>2, <1>3, <1>4 DEF Next

LEMMA Invariance == Spec => []IInv
BY IInit, IStep, PTL DEF Spec

-----------------------------------------------------------------------------
(* The theorems.                                                           *)

(* The heap of every manager spreads its requests evenly, and every        *)
(* manager fills the servers in the same order, that of their hashes.      *)
THEOREM HeapsInOrder == Spec => []HeapInOrder
<1>1. IInv => HeapInOrder
  BY DEF IInv
<1> QED BY <1>1, Invariance, PTL

(* When a call of generate_sequences has returned, no server works for a   *)
(* loop, and every loop that was started has ended without an exception.   *)
THEOREM NothingLeftBehind == Spec => []NoneLeftBehind
<1>1. IInv => NoneLeftBehind
  <2>1. SUFFICES ASSUME IInv, job = "idle", NEW r \in Request
                 PROVE  at[r] = {} /\ loop[r] \in {"new", "over"}
    BY DEF NoneLeftBehind
  <2>2. r[1] \in Nat /\ batch \in Nat
    BY <2>1, RequestFields DEF IInv, TypeOK
  <2>3. r[1] < batch \/ r[1] = batch \/ r[1] > batch
    BY <2>2
  <2>4. loop[r] \in {"new", "over"}
    BY <2>1, <2>3 DEF IInv, LoopInv
  <2> QED BY <2>1, <2>4 DEF IInv, LoopInv
<1> QED BY <1>1, Invariance, PTL

(* An open conversation whose key is cached has its server as its home. *)
LEMMA HomeFact ==
  ASSUME IInv, Roomy, NEW x \in Request
  PROVE  Home(x) = IF Open(x) THEN {serverOf[x]} ELSE {}
BY DEF Home, IInv, OpenInv

LEMMA StickyStep ==
  IInv /\ IInv' /\ Roomy /\ [Next]_vars => [Sessions!Next]_Sessions!vars
<1> SUFFICES ASSUME IInv, IInv', Roomy, [Next]_vars
             PROVE  Sessions!Next \/ UNCHANGED Sessions!vars
  OBVIOUS
<1> DEFINE home == [x \in Request |-> Home(x)]
<1>1. /\ home = [x \in Request |-> IF Open(x) THEN {serverOf[x]} ELSE {}]
      /\ home' = [x \in Request |-> IF Open(x)' THEN {serverOf'[x]} ELSE {}]
  <2>1. \A x \in Request : Home(x) = IF Open(x) THEN {serverOf[x]} ELSE {}
    BY HomeFact
  <2>2. \A x \in Request : Home(x)' = IF Open(x)' THEN {serverOf'[x]} ELSE {}
    BY DEF Home, IInv, OpenInv, Open
  <2> QED BY <2>1, <2>2
<1> HIDE DEF home
<1>2. TypeOK /\ TypeOK' /\ LoopInv /\ CacheInv /\ OpenInv
  BY DEF IInv
<1>3. ASSUME NEW r \in Request, NEW s \in Server, Ask(r, s)
      PROVE  \/ /\ home[r] = {}
                /\ home' = [home EXCEPT ![r] = {s}]
                /\ at' = [at EXCEPT ![r] = {s}]
             \/ /\ home[r] # {} /\ at[r] = {}
                /\ at' = [at EXCEPT ![r] = home[r]]
                /\ home' = home
  <2>1. /\ loop[r] = "turn" /\ turn[r] \in Nat /\ r[2] \in Worker
        /\ Remember(r[2], r, s) \/ Assign(r[2], r, s)
        /\ loop' = [loop EXCEPT ![r] = "asking"]
        /\ turn' = [turn EXCEPT ![r] = turn[r] + 1]
        /\ at' = [at EXCEPT ![r] = {s}]
    BY <1>2, <1>3, RequestFields DEF Ask, ChooseServer, TypeOK
  <2>2. serverOf' = [serverOf EXCEPT ![r] = s]
    BY <1>2, <2>1 DEF Remember, Assign, TypeOK
  <2>3. ASSUME NEW x \in Request
        PROVE  /\ x = r => Open(x)' /\ serverOf'[x] = s
               /\ x # r => (Open(x)' <=> Open(x)) /\ serverOf'[x] = serverOf[x]
    BY <1>2, <2>1, <2>2 DEF Open, TypeOK
  <2>4. home' = [home EXCEPT ![r] = {s}]
    BY <1>1, <2>3
  <2>5. at[r] = {}
    BY <1>2, <2>1 DEF LoopInv
  <2>6. CASE turn[r] = 0
    <3>1. ~Open(r)
      BY <2>6 DEF Open
    <3> QED BY <1>1, <2>1, <2>4, <3>1
  <2>7. CASE turn[r] > 0
    <3>1. Open(r)
      BY <2>1, <2>7 DEF Open
    <3>2. Cached(r[2], r)
      BY <1>2, <3>1 DEF OpenInv
    <3>3. s = serverOf[r]
      BY <2>1, <3>2 DEF Remember, Assign
    <3>4. home[r] = {s}
      BY <1>1, <3>1, <3>3
    <3>5. home' = home
      BY <1>1, <2>4, <3>4
    <3> QED BY <2>1, <2>5, <3>4, <3>5
  <2> QED BY <2>1, <2>6, <2>7
<1>4. ASSUME NEW r \in Request, Answer(r)
      PROVE  at[r] # {} /\ at' = [at EXCEPT ![r] = {}] /\ home' = home
  <2>1. \A x \in Request : (Open(x)' <=> Open(x)) /\ serverOf'[x] = serverOf[x]
    BY <1>2, <1>4 DEF Answer, Open, TypeOK, managerVars
  <2> QED BY <1>1, <1>2, <1>4, <2>1 DEF Answer, LoopInv
<1>5. ASSUME NEW r \in Request, End(r) \/ Raise(r)
      PROVE  at' = [at EXCEPT ![r] = {}] /\ home' = [home EXCEPT ![r] = {}]
  <2>1. ASSUME NEW x \in Request
        PROVE  /\ x = r => ~Open(x)'
               /\ x # r => (Open(x)' <=> Open(x))
               /\ serverOf'[x] = serverOf[x]
    BY <1>2, <1>5 DEF End, Raise, Open, TypeOK, managerVars
  <2>2. home' = [home EXCEPT ![r] = {}]
    BY <1>1, <2>1
  <2>3. CASE End(r)
    <3>1. at[r] = {} /\ at' = at
      BY <1>2, <2>3 DEF End, LoopInv
    <3> QED BY <1>2, <2>2, <3>1 DEF TypeOK
  <2>4. CASE Raise(r)
    BY <2>2, <2>4 DEF Raise
  <2> QED BY <1>5, <2>3, <2>4
<1>6. ASSUME Generate \/ Collect \/ JobFails \/ UNCHANGED vars
      PROVE  at' = at /\ home' = home
  <2>1. at' = at /\ serverOf' = serverOf /\ turn' = turn
    BY <1>6 DEF Generate, Collect, JobFails, vars, managerVars
  <2>2. \A x \in Request : Open(x)' <=> Open(x)
    <3>1. CASE Generate
      <4>1. ASSUME NEW x \in Request, x[1] = batch + 1
            PROVE  turn[x] = 0
        <5>1. x[1] > batch
          BY <1>2, <4>1 DEF TypeOK
        <5> QED BY <1>2, <5>1 DEF LoopInv
      <4>2. \A x \in Request : x[1] # batch + 1 => loop'[x] = loop[x]
        BY <3>1 DEF Generate, Rows
      <4> QED BY <2>1, <4>1, <4>2 DEF Open
    <3>2. CASE ~Generate
      BY <1>6, <2>1, <3>2 DEF Collect, JobFails, vars, Open
    <3> QED BY <3>1, <3>2
  <2> QED BY <1>1, <2>1, <2>2
<1> QED
  BY <1>3, <1>4, <1>5, <1>6
     DEF Next, Advance, Sessions!Next, Sessions!vars, Sessions!Begin,
         Sessions!Return, Sessions!Answer, Sessions!End, home

(* With a cache that holds a chunk, the managers implement StickySessions: *)
(* whatever the interleaving of the loops, all the turns of a conversation *)
(* are answered by the server that answered its first.                     *)
THEOREM ManagersAreSticky == Roomy => (Spec => Sticky)
<1> SUFFICES ASSUME Roomy PROVE Spec => Sticky
  OBVIOUS
<1>1. Init => Sessions!Init
  BY DEF Init, Sessions!Init, Home, Open
<1>2. IInv /\ IInv' /\ [Next]_vars => [Sessions!Next]_Sessions!vars
  BY StickyStep
<1> QED BY <1>1, <1>2, Invariance, PTL DEF Spec, Sticky, Sessions!Spec
=============================================================================
