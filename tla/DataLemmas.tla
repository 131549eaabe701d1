----------------------------- MODULE DataLemmas ------------------------------
(***************************************************************************)
(* Induction over numbers, and with it what the folds of the community     *)
(* modules compute: the sum of a function over a finite set, and the       *)
(* concatenation of a list of lists.  The induction theorems of the        *)
(* library have an operator as a parameter; here a proof by induction      *)
(* looks at the least counterexample instead.                              *)
(***************************************************************************)
EXTENDS Integers, Sequences, FiniteSets, SequencesExt, WellFoundedInduction,
        FiniteSetTheorems, SequenceTheorems, TLAPS

(* A set of numbers that is not empty has a least one.                     *)
LEMMA LeastNumber ==
  ASSUME NEW T \in SUBSET Nat, T # {}
  PROVE  \E m \in T : \A x \in T : m <= x
<1>1. IsWellFoundedOn(OpToRel(<, Nat), Nat)
  BY NatLessThanWellFounded, Zenon
<1>2. PICK m \in T : \A x \in T : ~ (<<x, m>> \in OpToRel(<, Nat))
  BY <1>1, WFMin, Zenon
<1>3. \A x \in T : ~ (x < m)
  BY <1>2 DEF OpToRel
<1> QED
  BY <1>3

(* Induction: a set that has 0, and with every number the next, has all.   *)
LEMMA AllNumbers ==
  ASSUME NEW T, 0 \in T, \A m \in Nat : m \in T => m + 1 \in T
  PROVE  Nat \subseteq T
<1> SUFFICES ASSUME Nat \ T # {} PROVE FALSE
  OBVIOUS
<1>1. PICK m \in Nat \ T : \A x \in Nat \ T : m <= x
  BY LeastNumber
<1>2. m - 1 \in Nat /\ m - 1 \notin T
  BY <1>1
<1> QED
  BY <1>1, <1>2

(* A set of numbers that has a bound has a greatest one.                   *)
LEMMA GreatestNumber ==
  ASSUME NEW T \in SUBSET Nat, T # {}, NEW b \in Nat, \A x \in T : x <= b
  PROVE  \E m \in T : \A x \in T : x <= m
<1> DEFINE B == {c \in Nat : \A x \in T : x <= c}
<1>1. PICK m \in B : \A c \in B : m <= c
  BY LeastNumber
<1>2. m \in T
  <2> SUFFICES ASSUME m \notin T PROVE FALSE
    OBVIOUS
  <2>1. PICK x \in T : TRUE
    OBVIOUS
  <2>2. m - 1 \in Nat
    BY <1>1, <2>1
  <2>3. m - 1 \in B
    BY <1>1, <2>2
  <2> QED
    BY <1>1, <2>3
<1> QED
  BY <1>1, <1>2

(* What a function makes of a finite set is finite. *)
LEMMA ImageOfFinite ==
  ASSUME NEW f, NEW S, IsFiniteSet(S)
  PROVE  IsFiniteSet({f[x] : x \in S})
<1> DEFINE T == {f[x] : x \in S}
           g == [x \in S |-> f[x]]
<1>1. g \in Surjection(S, T)
  BY DEF Surjection
<1> QED
  BY <1>1, FS_Surjection
-----------------------------------------------------------------------------
(* Sums.                                                                   *)

SomeOf(t) == CHOOSE y \in t : TRUE

(* g adds f up over every subset of S, taking out one element at a time.   *)
AddsUp(g, f, S) ==
  g = [t \in SUBSET S |-> IF t = {} THEN 0
                          ELSE LET x == SomeOf(t) IN f[x] + g[t \ {x}]]

Smaller(S, m) == {t \in SUBSET S : Cardinality(t) <= m}

(* What is left of a finite set without some element of it. *)
LEMMA OneOut ==
  ASSUME NEW S, IsFiniteSet(S), NEW t \in SUBSET S, NEW x \in t
  PROVE  /\ IsFiniteSet(t) /\ Cardinality(t) \in Nat
         /\ t \ {x} \in SUBSET S /\ IsFiniteSet(t \ {x})
         /\ Cardinality(t \ {x}) = Cardinality(t) - 1
<1>1. IsFiniteSet(t)
  BY FS_Subset
<1>2. IsFiniteSet(t \ {x}) /\ Cardinality(t \ {x}) = Cardinality(t) - 1
  BY <1>1, FS_RemoveElement
<1> QED
  BY <1>1, <1>2, FS_CardinalityType

LEMMA SomeOfIsIn ==
  ASSUME NEW t, t # {}
  PROVE  SomeOf(t) \in t
BY DEF SomeOf

(* There is such a function. *)
LEMMA AddsUpExists ==
  ASSUME NEW f, NEW S, IsFiniteSet(S)
  PROVE  \E g : AddsUp(g, f, S)
<1> DEFINE Up(g, m) == g = [t \in Smaller(S, m) |->
                              IF t = {} THEN 0
                              ELSE LET x == SomeOf(t) IN f[x] + g[t \ {x}]]
           T == {m \in Nat : \E g : Up(g, m)}
<1>1. 0 \in T
  <2> DEFINE g == [t \in Smaller(S, 0) |-> 0]
  <2>1. \A t \in Smaller(S, 0) : t = {}
    <3> SUFFICES ASSUME NEW t \in Smaller(S, 0) PROVE t = {}
      OBVIOUS
    <3>1. t \in SUBSET S /\ Cardinality(t) <= 0
      BY DEF Smaller
    <3>2. IsFiniteSet(t) /\ Cardinality(t) \in Nat
      BY <3>1, FS_Subset, FS_CardinalityType
    <3>3. Cardinality(t) = 0
      BY <3>1, <3>2
    <3> QED
      BY <3>2, <3>3, FS_EmptySet
  <2>2. Up(g, 0)
    BY <2>1
  <2> HIDE DEF g, Up
  <2> QED
    BY <2>2
<1>2. ASSUME NEW m \in Nat, m \in T
      PROVE  m + 1 \in T
  <2>1. PICK g : Up(g, m)
    BY <1>2
  <2> DEFINE h == [t \in Smaller(S, m + 1) |->
                     IF t = {} THEN 0
                     ELSE LET x == SomeOf(t) IN f[x] + g[t \ {x}]]
  <2>2. \A t \in Smaller(S, m + 1) : t # {} => t \ {SomeOf(t)} \in Smaller(S, m)
    <3> SUFFICES ASSUME NEW t \in Smaller(S, m + 1), t # {}
                 PROVE  t \ {SomeOf(t)} \in Smaller(S, m)
      OBVIOUS
    <3>1. t \in SUBSET S /\ Cardinality(t) <= m + 1 /\ SomeOf(t) \in t
      BY SomeOfIsIn DEF Smaller
    <3>2. /\ Cardinality(t) \in Nat /\ t \ {SomeOf(t)} \in SUBSET S
          /\ Cardinality(t \ {SomeOf(t)}) = Cardinality(t) - 1
      BY <3>1, OneOut
    <3> QED
      BY <3>1, <3>2 DEF Smaller
  <2>3. \A t \in Smaller(S, m) : t \in Smaller(S, m + 1)
    <3> SUFFICES ASSUME NEW t \in Smaller(S, m) PROVE t \in Smaller(S, m + 1)
      OBVIOUS
    <3>1. t \in SUBSET S /\ Cardinality(t) <= m
      BY DEF Smaller
    <3>2. Cardinality(t) \in Nat
      BY <3>1, FS_Subset, FS_CardinalityType
    <3> QED
      BY <3>1, <3>2 DEF Smaller
  <2>4. \A t \in Smaller(S, m) : h[t] = g[t]
    BY <2>1, <2>3
  <2>5. Up(h, m + 1)
    BY <2>2, <2>4
  <2> HIDE DEF h, Up
  <2> QED
    BY <2>5
<1> HIDE DEF T
<1>3. Cardinality(S) \in T
  BY <1>1, <1>2, AllNumbers, FS_CardinalityType
<1>4. Smaller(S, Cardinality(S)) = SUBSET S
  BY FS_Subset DEF Smaller
<1> QED
  BY <1>3, <1>4 DEF T, AddsUp

(* On a subset two such functions agree. *)
LEMMA AddsUpUnique ==
  ASSUME NEW f, NEW S, IsFiniteSet(S), NEW R \in SUBSET S,
         NEW g, AddsUp(g, f, S), NEW h, AddsUp(h, f, R)
  PROVE  \A t \in SUBSET R : g[t] = h[t]
<1> DEFINE T == {m \in Nat : \A t \in SUBSET R : Cardinality(t) = m => g[t] = h[t]}
<1>0. IsFiniteSet(R)
  BY FS_Subset
<1>1. 0 \in T
  <2> SUFFICES ASSUME NEW t \in SUBSET R, Cardinality(t) = 0 PROVE g[t] = h[t]
    OBVIOUS
  <2>1. t = {}
    BY <1>0, FS_Subset, FS_EmptySet
  <2> QED
    BY <2>1 DEF AddsUp
<1>2. ASSUME NEW m \in Nat, m \in T
      PROVE  m + 1 \in T
  <2> SUFFICES ASSUME NEW t \in SUBSET R, Cardinality(t) = m + 1 PROVE g[t] = h[t]
    OBVIOUS
  <2> DEFINE x == SomeOf(t)
  <2>1. t # {}
    BY FS_EmptySet
  <2>2. x \in t
    BY <2>1, SomeOfIsIn
  <2> HIDE DEF x
  <2>3. t \ {x} \in SUBSET R /\ Cardinality(t \ {x}) = m
    <3>1. /\ t \ {x} \in SUBSET R
          /\ Cardinality(t \ {x}) = Cardinality(t) - 1
      BY <1>0, <2>2, OneOut
    <3> QED
      BY <3>1
  <2>4. g[t \ {x}] = h[t \ {x}]
    BY <1>2, <2>3
  <2>5. g[t] = f[x] + g[t \ {x}] /\ h[t] = f[x] + h[t \ {x}]
    BY <2>1 DEF AddsUp, x
  <2> QED
    BY <2>4, <2>5
<1> HIDE DEF T
<1>3. Nat \subseteq T
  BY <1>1, <1>2, AllNumbers
<1>4. ASSUME NEW t \in SUBSET R PROVE g[t] = h[t]
  <2>1. Cardinality(t) \in Nat
    BY <1>0, FS_Subset, FS_CardinalityType
  <2>2. Cardinality(t) \in T
    BY <1>3, <2>1
  <2> QED
    BY <2>2 DEF T
<1> QED
  BY <1>4

(* The operator of the community modules is such a function at S. *)
LEMMA SumAddsUp ==
  ASSUME NEW f, NEW S, IsFiniteSet(S)
  PROVE  \E g : AddsUp(g, f, S) /\ SumFunctionOnSet(f, S) = g[S]
<1> DEFINE sum == CHOOSE g : AddsUp(g, f, S)
<1>1. SumFunctionOnSet(f, S) = sum[S]
  BY DEF SumFunctionOnSet, FoldFunctionOnSet, MapThenFoldSet, AddsUp, SomeOf
<1>2. AddsUp(sum, f, S)
  BY AddsUpExists
<1> QED
  BY <1>1, <1>2
LEMMA SumEmpty ==
  ASSUME NEW f
  PROVE  SumFunctionOnSet(f, {}) = 0
<1>1. PICK g : AddsUp(g, f, {}) /\ SumFunctionOnSet(f, {}) = g[{}]
  BY SumAddsUp, FS_EmptySet
<1> QED
  BY <1>1 DEF AddsUp

(* One element taken out. *)
LEMMA SumSome ==
  ASSUME NEW f, NEW S, IsFiniteSet(S), S # {}
  PROVE  LET x == SomeOf(S)
         IN  /\ x \in S
             /\ SumFunctionOnSet(f, S) = f[x] + SumFunctionOnSet(f, S \ {x})
<1> DEFINE x == SomeOf(S)
<1>1. x \in S
  BY SomeOfIsIn
<1>2. PICK g : AddsUp(g, f, S) /\ SumFunctionOnSet(f, S) = g[S]
  BY SumAddsUp
<1>3. S \ {x} \in SUBSET S /\ IsFiniteSet(S \ {x})
  BY FS_Subset
<1> HIDE DEF x
<1>4. PICK h : AddsUp(h, f, S \ {x}) /\ SumFunctionOnSet(f, S \ {x}) = h[S \ {x}]
  BY <1>3, SumAddsUp
<1>5. g[S \ {x}] = h[S \ {x}]
  BY <1>2, <1>3, <1>4, AddsUpUnique
<1>6. g[S] = f[x] + g[S \ {x}]
  BY <1>2 DEF AddsUp, x
<1>7. SumFunctionOnSet(f, S) = f[x] + SumFunctionOnSet(f, S \ {x})
  BY <1>2, <1>4, <1>5, <1>6
<1> QED
  BY <1>1, <1>7 DEF x

(* A sum of integers is one, a sum of natural numbers is one. *)
LEMMA SumType ==
  ASSUME NEW Num \in {Nat, Int}, NEW f, NEW S, IsFiniteSet(S),
         \A x \in S : f[x] \in Num
  PROVE  SumFunctionOnSet(f, S) \in Num
<1> DEFINE T == {m \in Nat : \A t \in SUBSET S :
                   Cardinality(t) = m => SumFunctionOnSet(f, t) \in Num}
<1>1. 0 \in T
  <2> SUFFICES ASSUME NEW t \in SUBSET S, Cardinality(t) = 0
               PROVE  SumFunctionOnSet(f, t) \in Num
    OBVIOUS
  <2>1. t = {}
    BY FS_Subset, FS_EmptySet
  <2> QED
    BY <2>1, SumEmpty
<1>2. ASSUME NEW m \in Nat, m \in T
      PROVE  m + 1 \in T
  <2> SUFFICES ASSUME NEW t \in SUBSET S, Cardinality(t) = m + 1
               PROVE  SumFunctionOnSet(f, t) \in Num
    OBVIOUS
  <2>1. IsFiniteSet(t) /\ t # {}
    BY FS_Subset, FS_EmptySet
  <2>2. PICK x \in t : SumFunctionOnSet(f, t) = f[x] + SumFunctionOnSet(f, t \ {x})
    BY <2>1, SumSome
  <2>3. t \ {x} \in SUBSET S /\ Cardinality(t \ {x}) = Cardinality(t) - 1
    BY OneOut
  <2>4. Cardinality(t \ {x}) = m
    BY <2>3
  <2>5. SumFunctionOnSet(f, t \ {x}) \in Num
    BY <1>2, <2>3, <2>4
  <2>6. f[x] \in Num
    OBVIOUS
  <2> HIDE DEF T
  <2> QED
    BY <2>2, <2>5, <2>6
<1> HIDE DEF T
<1>3. Cardinality(S) \in T
  BY <1>1, <1>2, AllNumbers, FS_CardinalityType
<1> QED
  BY <1>3 DEF T

(* Any element may be taken out. *)
LEMMA SumTakeOut ==
  ASSUME NEW f, NEW S, IsFiniteSet(S), \A y \in S : f[y] \in Int, NEW x \in S
  PROVE  SumFunctionOnSet(f, S) = f[x] + SumFunctionOnSet(f, S \ {x})
<1> DEFINE Out(t, y) == SumFunctionOnSet(f, t) = f[y] + SumFunctionOnSet(f, t \ {y})
           T == {m \in Nat : \A t \in SUBSET S : Cardinality(t) = m => \A y \in t : Out(t, y)}
<1>1. 0 \in T
  <2> SUFFICES ASSUME NEW t \in SUBSET S, Cardinality(t) = 0, NEW y \in t
               PROVE  FALSE
    OBVIOUS
  <2> QED
    BY FS_Subset, FS_EmptySet
<1>2. ASSUME NEW m \in Nat, m \in T
      PROVE  m + 1 \in T
  <2> SUFFICES ASSUME NEW t \in SUBSET S, Cardinality(t) = m + 1, NEW y \in t
               PROVE  Out(t, y)
    OBVIOUS
  <2>1. IsFiniteSet(t) /\ t # {}
    BY FS_Subset
  <2>2. PICK z \in t : Out(t, z)
    BY <2>1, SumSome
  <2> SUFFICES ASSUME y # z PROVE Out(t, y)
    BY <2>2
  <2>3. /\ t \ {z} \in SUBSET S /\ Cardinality(t \ {z}) = m
        /\ t \ {y} \in SUBSET S /\ Cardinality(t \ {y}) = m
    <3>1. /\ t \ {z} \in SUBSET S /\ Cardinality(t \ {z}) = Cardinality(t) - 1
          /\ t \ {y} \in SUBSET S /\ Cardinality(t \ {y}) = Cardinality(t) - 1
      BY OneOut
    <3> QED
      BY <3>1
  <2>4. Out(t \ {z}, y) /\ Out(t \ {y}, z)
    BY <1>2, <2>3
  <2>5. (t \ {z}) \ {y} = (t \ {y}) \ {z}
    OBVIOUS
  <2> DEFINE s == SumFunctionOnSet(f, (t \ {y}) \ {z})
  <2>6. f[y] \in Int /\ f[z] \in Int /\ s \in Int
    <3>1. (t \ {y}) \ {z} \in SUBSET S
      OBVIOUS
    <3>2. IsFiniteSet((t \ {y}) \ {z})
      BY <3>1, FS_Subset
    <3> QED
      BY <3>1, <3>2, SumType
  <2>7. /\ SumFunctionOnSet(f, t) = f[z] + (f[y] + s)
        /\ SumFunctionOnSet(f, t \ {y}) = f[z] + s
    BY <2>2, <2>4, <2>5
  <2> HIDE DEF s
  <2> QED
    BY <2>6, <2>7
<1> HIDE DEF T
<1>3. Cardinality(S) \in T
  BY <1>1, <1>2, AllNumbers, FS_CardinalityType
<1> QED
  BY <1>3 DEF T

(* One element added. *)
LEMMA SumAdd ==
  ASSUME NEW f, NEW S, IsFiniteSet(S), NEW x, x \notin S,
         \A y \in S \cup {x} : f[y] \in Int
  PROVE  SumFunctionOnSet(f, S \cup {x}) = f[x] + SumFunctionOnSet(f, S)
<1>1. IsFiniteSet(S \cup {x}) /\ (S \cup {x}) \ {x} = S
  BY FS_AddElement
<1> QED
  BY <1>1, SumTakeOut

LEMMA SumOne ==
  ASSUME NEW f, NEW x, f[x] \in Int
  PROVE  SumFunctionOnSet(f, {x}) = f[x]
<1>1. SumFunctionOnSet(f, {} \cup {x}) = f[x] + SumFunctionOnSet(f, {})
  BY SumAdd, FS_EmptySet
<1>2. {} \cup {x} = {x}
  OBVIOUS
<1> QED
  BY <1>1, <1>2, SumEmpty
(* The sum of two sets with nothing in common. *)
LEMMA SumDisjoint ==
  ASSUME NEW f, NEW A, IsFiniteSet(A), NEW B, IsFiniteSet(B), A \cap B = {},
         \A y \in A \cup B : f[y] \in Int
  PROVE  SumFunctionOnSet(f, A \cup B) = SumFunctionOnSet(f, A) + SumFunctionOnSet(f, B)
<1> DEFINE T == {m \in Nat : \A t \in SUBSET B : Cardinality(t) = m =>
                   SumFunctionOnSet(f, A \cup t)
                     = SumFunctionOnSet(f, A) + SumFunctionOnSet(f, t)}
<1>0. SumFunctionOnSet(f, A) \in Int
  BY SumType
<1>1. 0 \in T
  <2> SUFFICES ASSUME NEW t \in SUBSET B, Cardinality(t) = 0
               PROVE  SumFunctionOnSet(f, A \cup t)
                        = SumFunctionOnSet(f, A) + SumFunctionOnSet(f, t)
    OBVIOUS
  <2>1. t = {} /\ A \cup {} = A
    BY FS_Subset, FS_EmptySet
  <2>2. SumFunctionOnSet(f, {}) = 0
    BY SumEmpty
  <2> QED
    BY <1>0, <2>1, <2>2
<1>2. ASSUME NEW m \in Nat, m \in T
      PROVE  m + 1 \in T
  <2> SUFFICES ASSUME NEW t \in SUBSET B, Cardinality(t) = m + 1
               PROVE  SumFunctionOnSet(f, A \cup t)
                        = SumFunctionOnSet(f, A) + SumFunctionOnSet(f, t)
    OBVIOUS
  <2>1. IsFiniteSet(t) /\ t # {}
    BY FS_Subset, FS_EmptySet
  <2>2. PICK x \in t : TRUE
    BY <2>1
  <2>3. t \ {x} \in SUBSET B /\ IsFiniteSet(t \ {x}) /\ Cardinality(t \ {x}) = m
    <3>1. t \ {x} \in SUBSET B /\ IsFiniteSet(t \ {x})
          /\ Cardinality(t \ {x}) = Cardinality(t) - 1
      BY OneOut
    <3> QED
      BY <3>1
  <2>4. IsFiniteSet(A \cup (t \ {x})) /\ x \notin A \cup (t \ {x})
        /\ (A \cup (t \ {x})) \cup {x} = A \cup t
    BY <2>3, FS_Union
  <2>5. /\ f[x] \in Int
        /\ \A y \in (A \cup (t \ {x})) \cup {x} : f[y] \in Int
        /\ \A y \in t : f[y] \in Int
    OBVIOUS
  <2>6. SumFunctionOnSet(f, A \cup t) = f[x] + SumFunctionOnSet(f, A \cup (t \ {x}))
    BY <2>4, <2>5, SumAdd
  <2>7. SumFunctionOnSet(f, t) = f[x] + SumFunctionOnSet(f, t \ {x})
    BY <2>1, <2>5, SumTakeOut
  <2>8. SumFunctionOnSet(f, A \cup (t \ {x}))
          = SumFunctionOnSet(f, A) + SumFunctionOnSet(f, t \ {x})
    BY <1>2, <2>3
  <2>9. SumFunctionOnSet(f, t \ {x}) \in Int
    BY <2>3, <2>5, SumType
  <2> HIDE DEF T
  <2> QED
    BY <1>0, <2>5, <2>6, <2>7, <2>8, <2>9
<1> HIDE DEF T
<1>3. Cardinality(B) \in T
  BY <1>1, <1>2, AllNumbers, FS_CardinalityType
<1> QED
  BY <1>3 DEF T

(* R is dealt out to the parts I, of which each has a sum of c or more. *)
FullParts(f, c, I, p, R) ==
  /\ c \in Int /\ IsFiniteSet(I) /\ R = UNION {p[i] : i \in I}
  /\ \A i \in I : /\ IsFiniteSet(p[i])
                  /\ \A y \in p[i] : f[y] \in Int
                  /\ c <= SumFunctionOnSet(f, p[i])
  /\ \A i, j \in I : i # j => p[i] \cap p[j] = {}

LEMMA SumOfParts ==
  ASSUME NEW f, NEW c, NEW I, NEW p, NEW R, FullParts(f, c, I, p, R)
  PROVE  IsFiniteSet(R) /\ Cardinality(I) * c <= SumFunctionOnSet(f, R)
<1> DEFINE U(J) == UNION {p[i] : i \in J}
           T == {m \in Nat : \A J \in SUBSET I : Cardinality(J) = m =>
                   IsFiniteSet(U(J)) /\ m * c <= SumFunctionOnSet(f, U(J))}
<1>0. /\ c \in Int /\ IsFiniteSet(I) /\ R = U(I)
      /\ \A i \in I : /\ IsFiniteSet(p[i])
                      /\ \A y \in p[i] : f[y] \in Int
                      /\ c <= SumFunctionOnSet(f, p[i])
      /\ \A i, j \in I : i # j => p[i] \cap p[j] = {}
  BY DEF FullParts
<1>1. 0 \in T
  <2> SUFFICES ASSUME NEW J \in SUBSET I, Cardinality(J) = 0
               PROVE  IsFiniteSet(U(J)) /\ 0 * c <= SumFunctionOnSet(f, U(J))
    OBVIOUS
  <2>1. J = {}
    BY <1>0, FS_Subset, FS_EmptySet
  <2>2. U(J) = {}
    BY <2>1
  <2> HIDE DEF U
  <2>3. IsFiniteSet(U(J)) /\ SumFunctionOnSet(f, U(J)) = 0
    BY <2>2, SumEmpty, FS_EmptySet
  <2> QED
    BY <1>0, <2>3
<1>2. ASSUME NEW m \in Nat, m \in T
      PROVE  m + 1 \in T
  <2> SUFFICES ASSUME NEW J \in SUBSET I, Cardinality(J) = m + 1
               PROVE  IsFiniteSet(U(J)) /\ (m + 1) * c <= SumFunctionOnSet(f, U(J))
    OBVIOUS
  <2>1. IsFiniteSet(J) /\ J # {}
    BY <1>0, FS_Subset, FS_EmptySet
  <2>2. PICK i \in J : TRUE
    BY <2>1
  <2>3. J \ {i} \in SUBSET I /\ Cardinality(J \ {i}) = m
    <3>1. J \ {i} \in SUBSET I /\ Cardinality(J \ {i}) = Cardinality(J) - 1
      BY <1>0, OneOut
    <3> QED
      BY <3>1
  <2>4. IsFiniteSet(U(J \ {i})) /\ m * c <= SumFunctionOnSet(f, U(J \ {i}))
    BY <1>2, <2>3
  <2>5. U(J) = U(J \ {i}) \cup p[i] /\ U(J \ {i}) \cap p[i] = {}
    BY <1>0
  <2>6. \A y \in U(J) : f[y] \in Int
    BY <1>0
  <2>7. /\ IsFiniteSet(p[i]) /\ c <= SumFunctionOnSet(f, p[i])
        /\ \A y \in p[i] : f[y] \in Int
    BY <1>0
  <2> HIDE DEF U, T
  <2>8. /\ IsFiniteSet(U(J))
        /\ SumFunctionOnSet(f, U(J))
             = SumFunctionOnSet(f, U(J \ {i})) + SumFunctionOnSet(f, p[i])
    <3>1. IsFiniteSet(U(J \ {i}) \cup p[i])
      BY <2>4, <2>7, FS_Union
    <3>2. \A y \in U(J \ {i}) \cup p[i] : f[y] \in Int
      BY <2>5, <2>6
    <3>3. SumFunctionOnSet(f, U(J \ {i}) \cup p[i])
            = SumFunctionOnSet(f, U(J \ {i})) + SumFunctionOnSet(f, p[i])
      BY <2>4, <2>5, <2>7, <3>2, SumDisjoint
    <3> QED
      BY <2>5, <3>1, <3>3
  <2>9. SumFunctionOnSet(f, U(J \ {i})) \in Int /\ SumFunctionOnSet(f, p[i]) \in Int
    BY <2>4, <2>5, <2>6, <2>7, SumType
  <2>10. (m + 1) * c = m * c + c /\ m * c \in Int
    <3>1. c \in Int
      BY <1>0
    <3> QED
      BY <3>1
  <2> QED
    BY <1>0, <2>4, <2>7, <2>8, <2>9, <2>10
<1> HIDE DEF T
<1>3. Cardinality(I) \in T
  BY <1>0, <1>1, <1>2, AllNumbers, FS_CardinalityType
<1> QED
  BY <1>0, <1>3 DEF T

(* Only the values on the set count. *)
LEMMA SumAgrees ==
  ASSUME NEW f, NEW g, NEW S, IsFiniteSet(S), \A x \in S : f[x] = g[x]
  PROVE  SumFunctionOnSet(f, S) = SumFunctionOnSet(g, S)
<1> DEFINE T == {m \in Nat : \A t \in SUBSET S :
                   Cardinality(t) = m => SumFunctionOnSet(f, t) = SumFunctionOnSet(g, t)}
<1>1. 0 \in T
  <2> SUFFICES ASSUME NEW t \in SUBSET S, Cardinality(t) = 0
               PROVE  SumFunctionOnSet(f, t) = SumFunctionOnSet(g, t)
    OBVIOUS
  <2>1. t = {}
    BY FS_Subset, FS_EmptySet
  <2> QED
    BY <2>1, SumEmpty
<1>2. ASSUME NEW m \in Nat, m \in T
      PROVE  m + 1 \in T
  <2> SUFFICES ASSUME NEW t \in SUBSET S, Cardinality(t) = m + 1
               PROVE  SumFunctionOnSet(f, t) = SumFunctionOnSet(g, t)
    OBVIOUS
  <2> DEFINE x == SomeOf(t)
  <2>1. IsFiniteSet(t) /\ t # {}
    BY FS_Subset, FS_EmptySet
  <2>2. /\ x \in t
        /\ SumFunctionOnSet(f, t) = f[x] + SumFunctionOnSet(f, t \ {x})
        /\ SumFunctionOnSet(g, t) = g[x] + SumFunctionOnSet(g, t \ {x})
    BY <2>1, SumSome
  <2> HIDE DEF x
  <2>3. t \ {x} \in SUBSET S /\ Cardinality(t \ {x}) = m
    <3>1. t \ {x} \in SUBSET S /\ Cardinality(t \ {x}) = Cardinality(t) - 1
      BY <2>2, OneOut
    <3> QED
      BY <3>1
  <2>4. SumFunctionOnSet(f, t \ {x}) = SumFunctionOnSet(g, t \ {x})
    BY <1>2, <2>3
  <2>5. f[x] = g[x]
    BY <2>2
  <2> QED
    BY <2>2, <2>4, <2>5
<1> HIDE DEF T
<1>3. Cardinality(S) \in T
  BY <1>1, <1>2, AllNumbers, FS_CardinalityType
<1> QED
  BY <1>3 DEF T

(* A number is no more than the sum it is in. *)
LEMMA SumBounds ==
  ASSUME NEW f, NEW S, IsFiniteSet(S), \A y \in S : f[y] \in Nat, NEW x \in S
  PROVE  f[x] <= SumFunctionOnSet(f, S)
<1>1. IsFiniteSet(S \ {x}) /\ \A y \in S : f[y] \in Int
  BY FS_Subset
<1>2. SumFunctionOnSet(f, S) = f[x] + SumFunctionOnSet(f, S \ {x})
  BY <1>1, SumTakeOut
<1>3. SumFunctionOnSet(f, S \ {x}) \in Nat
  BY <1>1, SumType
<1> QED
  BY <1>2, <1>3

(* A sum of numbers of which none is over c. *)
LEMMA SumAtMost ==
  ASSUME NEW f, NEW c \in Nat, NEW S, IsFiniteSet(S), \A y \in S : f[y] \in 0 .. c
  PROVE  /\ SumFunctionOnSet(f, S) \in Nat
         /\ SumFunctionOnSet(f, S) <= Cardinality(S) * c
<1> DEFINE T == {m \in Nat : \A t \in SUBSET S :
                   Cardinality(t) = m => SumFunctionOnSet(f, t) <= m * c}
<1>1. 0 \in T
  <2> SUFFICES ASSUME NEW t \in SUBSET S, Cardinality(t) = 0
               PROVE  SumFunctionOnSet(f, t) <= 0 * c
    OBVIOUS
  <2>1. t = {}
    BY FS_Subset, FS_EmptySet
  <2>2. 0 * c = 0
    OBVIOUS
  <2> QED
    BY <2>1, <2>2, SumEmpty
<1>2. ASSUME NEW m \in Nat, m \in T
      PROVE  m + 1 \in T
  <2> SUFFICES ASSUME NEW t \in SUBSET S, Cardinality(t) = m + 1
               PROVE  SumFunctionOnSet(f, t) <= (m + 1) * c
    OBVIOUS
  <2> DEFINE x == SomeOf(t)
  <2>1. IsFiniteSet(t) /\ t # {}
    BY FS_Subset, FS_EmptySet
  <2>2. /\ x \in t
        /\ SumFunctionOnSet(f, t) = f[x] + SumFunctionOnSet(f, t \ {x})
    BY <2>1, SumSome
  <2> HIDE DEF x
  <2>3. /\ t \ {x} \in SUBSET S /\ Cardinality(t \ {x}) = m
        /\ IsFiniteSet(t \ {x})
    <3>1. t \ {x} \in SUBSET S /\ Cardinality(t \ {x}) = Cardinality(t) - 1
      BY <2>2, OneOut
    <3>2. IsFiniteSet(t \ {x})
      BY <2>2, OneOut
    <3> QED
      BY <3>1, <3>2
  <2>4. SumFunctionOnSet(f, t \ {x}) <= m * c
    BY <1>2, <2>3
  <2>5. f[x] \in 0 .. c /\ \A y \in t \ {x} : f[y] \in Nat
    BY <2>2
  <2>6. SumFunctionOnSet(f, t \ {x}) \in Nat
    BY <2>3, <2>5, SumType
  <2>7. m * c \in Nat /\ (m + 1) * c = m * c + c
    OBVIOUS
  <2> QED
    BY <2>2, <2>4, <2>5, <2>6, <2>7
<1> HIDE DEF T
<1>3. Cardinality(S) \in T
  BY <1>1, <1>2, AllNumbers, FS_CardinalityType
<1>4. SumFunctionOnSet(f, S) <= Cardinality(S) * c
  BY <1>3 DEF T
<1>5. SumFunctionOnSet(f, S) \in Nat
  BY SumType
<1> QED
  BY <1>4, <1>5

(* A finite set of numbers has a greatest one: its sum is a bound. *)
LEMMA GreatestOfFinite ==
  ASSUME NEW T \in SUBSET Nat, T # {}, IsFiniteSet(T)
  PROVE  \E m \in T : \A x \in T : x <= m
<1> DEFINE f == [x \in T |-> x]
           b == SumFunctionOnSet(f, T)
<1>1. \A x \in T : f[x] = x /\ f[x] \in Nat
  OBVIOUS
<1> HIDE DEF f
<1>2. b \in Nat
  BY <1>1, SumType
<1>3. \A x \in T : f[x] <= b
  BY <1>1, SumBounds
<1> HIDE DEF b
<1>4. \A x \in T : x <= b
  BY <1>1, <1>3
<1> QED
  BY <1>2, <1>4, GreatestNumber
-----------------------------------------------------------------------------
(* Lists of lists.                                                         *)

Joins(g, s) ==
  g = [i \in 1 .. Len(s) |-> IF i = 1 THEN s[i] ELSE g[i - 1] \o s[i]]

LEMMA JoinsExists ==
  ASSUME NEW s, Len(s) \in Nat
  PROVE  \E g : Joins(g, s)
<1> DEFINE Up(g, m) ==
             g = [i \in 1 .. m |-> IF i = 1 THEN s[i] ELSE g[i - 1] \o s[i]]
           T == {m \in Nat : \E g : Up(g, m)}
<1>1. 0 \in T
  <2> DEFINE g == [i \in 1 .. 0 |-> s[i]]
  <2>1. Up(g, 0)
    OBVIOUS
  <2> HIDE DEF g, Up
  <2> QED
    BY <2>1
<1>2. ASSUME NEW m \in Nat, m \in T
      PROVE  m + 1 \in T
  <2>1. PICK g : Up(g, m)
    BY <1>2
  <2> DEFINE h == [i \in 1 .. m + 1 |-> IF i = 1 THEN s[i] ELSE g[i - 1] \o s[i]]
  <2>2. \A i \in 1 .. m : h[i] = g[i]
    <3> SUFFICES ASSUME NEW i \in 1 .. m PROVE h[i] = g[i]
      OBVIOUS
    <3>1. i \in 1 .. m + 1
      OBVIOUS
    <3>2. h[i] = IF i = 1 THEN s[i] ELSE g[i - 1] \o s[i]
      BY <3>1
    <3> HIDE DEF h
    <3>3. g[i] = IF i = 1 THEN s[i] ELSE g[i - 1] \o s[i]
      BY <2>1
    <3> QED
      BY <3>2, <3>3
  <2>3. \A i \in 1 .. m + 1 : i # 1 => h[i - 1] = g[i - 1]
    <3> HIDE DEF h, Up
    <3> SUFFICES ASSUME NEW i \in 1 .. m + 1, i # 1 PROVE h[i - 1] = g[i - 1]
      OBVIOUS
    <3>1. i - 1 \in 1 .. m
      OBVIOUS
    <3> QED
      BY <2>2, <3>1
  <2>4. Up(h, m + 1)
    BY <2>3
  <2> HIDE DEF h, Up
  <2> QED
    BY <2>4
<1> HIDE DEF T
<1>3. Len(s) \in T
  BY <1>1, <1>2, AllNumbers
<1> QED
  BY <1>3 DEF T, Joins

LEMMA FlattenJoins ==
  ASSUME NEW s, Len(s) \in Nat \ {0}
  PROVE  \E g : Joins(g, s) /\ FlattenSeq(s) = g[Len(s)]
<1> DEFINE join == CHOOSE g : Joins(g, s)
<1>1. FlattenSeq(s) = join[Len(s)]
  BY DEF FlattenSeq, Joins
<1>2. Joins(join, s)
  BY JoinsExists
<1> QED
  BY <1>1, <1>2

LEMMA FlattenNone ==
  ASSUME NEW s, Len(s) = 0
  PROVE  FlattenSeq(s) = s
BY DEF FlattenSeq

(* Two lists that begin alike are joined alike, as far as that goes. *)
LEMMA JoinsAgree ==
  ASSUME NEW s, NEW t, Len(s) \in Nat, Len(t) \in Nat, NEW m \in Nat,
         m <= Len(s), m <= Len(t), \A i \in 1 .. m : s[i] = t[i],
         NEW g, Joins(g, s), NEW h, Joins(h, t)
  PROVE  \A i \in 1 .. m : g[i] = h[i]
<1> DEFINE T == {i \in Nat : i \in 1 .. m => g[i] = h[i]}
<1>1. 0 \in T
  OBVIOUS
<1>2. ASSUME NEW i \in Nat, i \in T
      PROVE  i + 1 \in T
  <2> SUFFICES ASSUME i + 1 \in 1 .. m PROVE g[i + 1] = h[i + 1]
    OBVIOUS
  <2>1. /\ g[i + 1] = IF i + 1 = 1 THEN s[i + 1] ELSE g[(i + 1) - 1] \o s[i + 1]
        /\ h[i + 1] = IF i + 1 = 1 THEN t[i + 1] ELSE h[(i + 1) - 1] \o t[i + 1]
    <3>1. i + 1 \in 1 .. Len(s) /\ i + 1 \in 1 .. Len(t)
      OBVIOUS
    <3>2. g[i + 1] = IF i + 1 = 1 THEN s[i + 1] ELSE g[(i + 1) - 1] \o s[i + 1]
      BY <3>1, Zenon DEF Joins
    <3>3. h[i + 1] = IF i + 1 = 1 THEN t[i + 1] ELSE h[(i + 1) - 1] \o t[i + 1]
      BY <3>1, Zenon DEF Joins
    <3> QED
      BY <3>2, <3>3
  <2>2. (i + 1) - 1 = i /\ s[i + 1] = t[i + 1] /\ (i # 0 => g[i] = h[i])
    BY <1>2
  <2> QED
    BY <2>1, <2>2
<1> HIDE DEF T
<1>3. Nat \subseteq T
  BY <1>1, <1>2, AllNumbers
<1> QED
  BY <1>3 DEF T

(* The list of lists without its last one. *)
LEMMA FlattenLast ==
  ASSUME NEW E, NEW s \in Seq(Seq(E)), NEW m \in 1 .. Len(s)
  PROVE  /\ FlattenSeq(SubSeq(s, 1, m)) \in Seq(E)
         /\ FlattenSeq(SubSeq(s, 1, m - 1)) \in Seq(E)
         /\ FlattenSeq(SubSeq(s, 1, m)) = FlattenSeq(SubSeq(s, 1, m - 1)) \o s[m]
<1>1. Len(s) \in Nat /\ \A i \in 1 .. Len(s) : s[i] \in Seq(E)
  BY LenProperties
<1> DEFINE p(j) == SubSeq(s, 1, j)
<1>2. \A j \in 0 .. Len(s) : /\ Len(p(j)) = j
                            /\ \A i \in 1 .. j : p(j)[i] = s[i]
  <2> SUFFICES ASSUME NEW j \in 0 .. Len(s)
               PROVE  /\ Len(p(j)) = j
                      /\ \A i \in 1 .. j : p(j)[i] = s[i]
    OBVIOUS
  <2>1. j \in Int /\ \A i \in 1 .. j : s[i] \in Seq(E)
    BY <1>1
  <2>2. /\ Len(p(j)) = IF 1 <= j THEN j - 1 + 1 ELSE 0
        /\ \A i \in 1 .. j - 1 + 1 : p(j)[i] = s[1 + i - 1]
    BY <2>1, SubSeqProperties
  <2> QED
    BY <2>1, <2>2
<1>3. PICK g : Joins(g, s)
  BY <1>1, JoinsExists
<1> HIDE DEF p
<1>4. \A j \in 1 .. Len(s) : FlattenSeq(p(j)) = g[j]
  <2> SUFFICES ASSUME NEW j \in 1 .. Len(s) PROVE FlattenSeq(p(j)) = g[j]
    OBVIOUS
  <2>1. Len(p(j)) = j /\ j \in Nat \ {0} /\ j <= Len(s)
        /\ \A i \in 1 .. j : p(j)[i] = s[i]
    BY <1>1, <1>2
  <2>2. PICK h : Joins(h, p(j)) /\ FlattenSeq(p(j)) = h[j]
    BY <2>1, FlattenJoins
  <2>3. \A i \in 1 .. j : h[i] = g[i]
    <3>1. Len(p(j)) \in Nat /\ j \in Nat /\ j <= Len(p(j))
      BY <2>1
    <3>2. Joins(g, s) /\ Joins(h, p(j))
      BY <1>3, <2>2
    <3>3. \A i \in 1 .. j : p(j)[i] = s[i]
      BY <2>1
    <3> DEFINE q == p(j)
    <3> HIDE DEF q
    <3>4. /\ Len(q) \in Nat /\ j <= Len(q) /\ Joins(h, q)
          /\ \A i \in 1 .. j : q[i] = s[i]
      BY <3>1, <3>2, <3>3 DEF q
    <3> QED
      BY <1>1, <2>1, <3>1, <3>2, <3>4, JoinsAgree, SMTT(30)
  <2> QED
    BY <2>1, <2>2, <2>3
<1>5. \A j \in 1 .. Len(s) : g[j] = IF j = 1 THEN s[j] ELSE g[j - 1] \o s[j]
  BY <1>3 DEF Joins
<1>6. FlattenSeq(p(0)) = <<>>
  <2>1. p(0) = <<>>
    BY SubSeqEmpty DEF p
  <2> QED
    BY <2>1, FlattenNone, EmptySeq
<1> DEFINE T == {j \in Nat : j \in 1 .. Len(s) => g[j] \in Seq(E)}
<1>7. 0 \in T
  OBVIOUS
<1>8. ASSUME NEW j \in Nat, j \in T
      PROVE  j + 1 \in T
  <2> SUFFICES ASSUME j + 1 \in 1 .. Len(s) PROVE g[j + 1] \in Seq(E)
    OBVIOUS
  <2>1. s[j + 1] \in Seq(E) /\ (j + 1) - 1 = j
    BY <1>1
  <2>2. j = 0 \/ g[j] \in Seq(E)
    BY <1>8
  <2>3. g[j + 1] = IF j + 1 = 1 THEN s[j + 1] ELSE g[j] \o s[j + 1]
    BY <1>5, <2>1
  <2> HIDE DEF T
  <2> QED
    BY <2>1, <2>2, <2>3, ConcatProperties
<1> HIDE DEF T
<1>9. \A j \in 1 .. Len(s) : g[j] \in Seq(E)
  <2>1. Nat \subseteq T
    BY <1>7, <1>8, AllNumbers
  <2> QED
    BY <1>1, <2>1 DEF T
<1>10. CASE m = 1
  <2>1. FlattenSeq(p(1)) = s[1] /\ s[1] \in Seq(E) /\ m - 1 = 0
    BY <1>1, <1>4, <1>5, <1>10
  <2>2. <<>> \o s[1] = s[1] /\ <<>> \in Seq(E)
    BY <2>1, ConcatEmptySeq, EmptySeq
  <2> QED
    BY <1>6, <1>10, <2>1, <2>2 DEF p
<1>11. CASE m # 1
  <2>1. m - 1 \in 1 .. Len(s)
    BY <1>1, <1>11
  <2> QED
    BY <1>4, <1>5, <1>9, <1>11, <2>1 DEF p
<1> QED
  BY <1>10, <1>11
LEMMA FlattenWhole ==
  ASSUME NEW E, NEW s \in Seq(Seq(E))
  PROVE  /\ FlattenSeq(s) \in Seq(E)
         /\ FlattenSeq(s) = FlattenSeq(SubSeq(s, 1, Len(s)))
         /\ FlattenSeq(SubSeq(s, 1, 0)) = <<>>
<1>1. SubSeq(s, 1, Len(s)) = s /\ Len(s) \in Nat
  BY SubSeqFull, LenProperties
<1>2. SubSeq(s, 1, 0) = <<>>
  BY SubSeqEmpty
<1>3. FlattenSeq(<<>>) = <<>> /\ <<>> \in Seq(E)
  BY FlattenNone, EmptySeq
<1>4. CASE Len(s) = 0
  <2>1. s = <<>>
    BY <1>4, EmptySeq
  <2> QED
    BY <1>1, <1>2, <1>3, <2>1
<1>5. CASE Len(s) # 0
  <2>1. Len(s) \in 1 .. Len(s)
    BY <1>1, <1>5
  <2>2. FlattenSeq(SubSeq(s, 1, Len(s))) \in Seq(E)
    BY <2>1, FlattenLast
  <2> QED
    BY <1>1, <1>2, <1>3, <2>2
<1> QED
  BY <1>4, <1>5

(* A list cut at ascending places, and joined again. *)
LEMMA FlattenPieces ==
  ASSUME NEW E, NEW data \in Seq(E), NEW s \in Seq(Seq(E)), NEW cut,
         cut[0] = 0, cut[Len(s)] = Len(data),
         \A i \in 0 .. Len(s) : cut[i] \in 0 .. Len(data),
         \A i \in 1 .. Len(s) : /\ cut[i - 1] <= cut[i]
                                /\ s[i] = SubSeq(data, cut[i - 1] + 1, cut[i])
  PROVE  FlattenSeq(s) = data
<1>1. Len(s) \in Nat /\ Len(data) \in Nat
  BY LenProperties
<1> DEFINE f(j) == FlattenSeq(SubSeq(s, 1, j))
           T == {j \in Nat : j <= Len(s) => f(j) = SubSeq(data, 1, cut[j])}
<1>2. 0 \in T
  <2>1. f(0) = <<>>
    BY FlattenWhole
  <2>2. SubSeq(data, 1, 0) = <<>>
    BY SubSeqEmpty
  <2> QED
    BY <2>1, <2>2
<1>3. ASSUME NEW j \in Nat, j \in T
      PROVE  j + 1 \in T
  <2> SUFFICES ASSUME j + 1 <= Len(s)
               PROVE  f(j + 1) = SubSeq(data, 1, cut[j + 1])
    OBVIOUS
  <2>1. j + 1 \in 1 .. Len(s) /\ (j + 1) - 1 = j /\ j \in 0 .. Len(s) /\ j + 1 \in 0 .. Len(s)
    BY <1>1
  <2>2. f(j + 1) = f((j + 1) - 1) \o s[j + 1]
    BY <2>1, FlattenLast
  <2>3. s[j + 1] = SubSeq(data, cut[j] + 1, cut[j + 1]) /\ cut[j] <= cut[j + 1]
    BY <2>1
  <2>4. f(j) = SubSeq(data, 1, cut[j])
    BY <1>3, <2>1
  <2>5. cut[j] \in 0 .. Len(data) /\ cut[j + 1] \in 0 .. Len(data)
    BY <2>1
  <2>6. /\ 1 \in 1 .. Len(data) + 1 /\ cut[j] \in 1 - 1 .. Len(data)
        /\ cut[j + 1] \in cut[j] .. Len(data)
    BY <1>1, <2>3, <2>5
  <2> HIDE DEF f, T
  <2>7. SubSeq(data, 1, cut[j]) \o SubSeq(data, cut[j] + 1, cut[j + 1])
          = SubSeq(data, 1, cut[j + 1])
    BY <2>6, ConcatAdjacentSubSeq
  <2> QED
    BY <2>1, <2>2, <2>3, <2>4, <2>7
<1> HIDE DEF T, f
<1>4. f(Len(s)) = SubSeq(data, 1, cut[Len(s)])
  <2>1. Nat \subseteq T
    BY <1>2, <1>3, AllNumbers
  <2> QED
    BY <1>1, <2>1 DEF T
<1>5. SubSeq(data, 1, Len(data)) = data
  BY SubSeqFull
<1> QED
  BY <1>4, <1>5, FlattenWhole DEF f

(* Lists without repetition that have nothing in common, joined. *)
LEMMA FlattenOnce ==
  ASSUME NEW E, NEW s \in Seq(Seq(E)),
         \A a, b \in DOMAIN s : \A i \in DOMAIN s[a], j \in DOMAIN s[b] :
           s[a][i] = s[b][j] => a = b /\ i = j
  PROVE  /\ \A i, j \in DOMAIN FlattenSeq(s) :
              FlattenSeq(s)[i] = FlattenSeq(s)[j] => i = j
         /\ \A j \in DOMAIN FlattenSeq(s) :
              \E a \in DOMAIN s : \E i \in DOMAIN s[a] : FlattenSeq(s)[j] = s[a][i]
         /\ \A a \in DOMAIN s : \A i \in DOMAIN s[a] :
              \E j \in DOMAIN FlattenSeq(s) : FlattenSeq(s)[j] = s[a][i]
<1>1. Len(s) \in Nat /\ DOMAIN s = 1 .. Len(s) /\ \A a \in DOMAIN s : s[a] \in Seq(E)
  BY LenProperties
<1> DEFINE f(j) == FlattenSeq(SubSeq(s, 1, j))
           Once(j) == /\ f(j) \in Seq(E)
                      /\ \A p, q \in DOMAIN f(j) : f(j)[p] = f(j)[q] => p = q
                      /\ \A e : (\E p \in DOMAIN f(j) : f(j)[p] = e)
                                  <=> \E a \in 1 .. j : \E i \in DOMAIN s[a] : s[a][i] = e
           T == {j \in Nat : j <= Len(s) => Once(j)}
<1>2. 0 \in T
  <2>1. f(0) = <<>> /\ <<>> \in Seq(E) /\ DOMAIN <<>> = {}
    BY FlattenWhole, EmptySeq
  <2> HIDE DEF f
  <2>2. f(0) \in Seq(E) /\ DOMAIN f(0) = {} /\ 1 .. 0 = {}
    <3>1. f(0) \in Seq(E) /\ DOMAIN f(0) = {}
      BY <2>1, Zenon
    <3>2. 1 .. 0 = {}
      OBVIOUS
    <3> QED
      BY <3>1, <3>2
  <2>3. Once(0)
    BY <2>2, Zenon
  <2> HIDE DEF Once
  <2> QED
    BY <2>3
<1>3. ASSUME NEW j \in Nat, j \in T
      PROVE  j + 1 \in T
  <2> SUFFICES ASSUME j + 1 <= Len(s)
               PROVE  Once(j + 1)
    OBVIOUS
  <2>1. j + 1 \in 1 .. Len(s) /\ (j + 1) - 1 = j
    BY <1>1
  <2> DEFINE t == s[j + 1]  u == f(j)  v == f(j + 1)
  <2>2. v = u \o t /\ t \in Seq(E) /\ u \in Seq(E) /\ v \in Seq(E)
    BY <1>1, <2>1, FlattenLast
  <2>3. /\ \A p, q \in DOMAIN u : u[p] = u[q] => p = q
        /\ \A e : (\E p \in DOMAIN u : u[p] = e)
                    <=> \E a \in 1 .. j : \E i \in DOMAIN s[a] : s[a][i] = e
    <3>1. Once(j)
      <4> HIDE DEF Once
      <4> QED
        BY <1>1, <1>3
    <3> HIDE DEF f
    <3> QED
      BY <3>1, Zenon
  <2> HIDE DEF f, T
  <2>4. /\ Len(u) \in Nat /\ DOMAIN u = 1 .. Len(u)
        /\ Len(t) \in Nat /\ DOMAIN t = 1 .. Len(t)
        /\ DOMAIN v = 1 .. Len(u) + Len(t)
        /\ \A p \in 1 .. Len(u) + Len(t) :
             v[p] = IF p <= Len(u) THEN u[p] ELSE t[p - Len(u)]
    BY <2>2, ConcatProperties, LenProperties
  <2>5. \A i, k \in DOMAIN t : t[i] = t[k] => i = k
    BY <1>1, <2>1, ZenonT(40)
  <2>6. \A p \in DOMAIN u, i \in DOMAIN t : u[p] # t[i]
    <3> SUFFICES ASSUME NEW p \in DOMAIN u, NEW i \in DOMAIN t, u[p] = t[i]
                 PROVE  FALSE
      OBVIOUS
    <3>1. PICK a \in 1 .. j : \E k \in DOMAIN s[a] : s[a][k] = u[p]
      BY <2>3
    <3>2. a \in DOMAIN s /\ j + 1 \in DOMAIN s /\ a # j + 1
      BY <1>1, <2>1, <3>1
    <3> QED
      BY <3>1, <3>2
  <2> HIDE DEF t, u, v
  <2>7. \A p \in 1 .. Len(u) + Len(t) :
          \/ p \in DOMAIN u /\ v[p] = u[p]
          \/ ~(p <= Len(u)) /\ p - Len(u) \in DOMAIN t /\ v[p] = t[p - Len(u)]
    BY <2>4
  <2>8. ASSUME NEW p \in DOMAIN v, NEW q \in DOMAIN v, v[p] = v[q]
        PROVE  p = q
    <3>1. p \in 1 .. Len(u) + Len(t) /\ q \in 1 .. Len(u) + Len(t)
      BY <2>4
    <3>2. CASE p \in DOMAIN u /\ v[p] = u[p]
      <4>1. CASE q \in DOMAIN u /\ v[q] = u[q]
        BY <2>3, <2>8, <3>2, <4>1
      <4>2. CASE q - Len(u) \in DOMAIN t /\ v[q] = t[q - Len(u)]
        BY <2>6, <2>8, <3>2, <4>2
      <4> QED
        BY <2>7, <3>1, <4>1, <4>2
    <3>3. CASE ~(p <= Len(u)) /\ p - Len(u) \in DOMAIN t /\ v[p] = t[p - Len(u)]
      <4>1. CASE q \in DOMAIN u /\ v[q] = u[q]
        BY <2>6, <2>8, <3>3, <4>1
      <4>2. CASE q - Len(u) \in DOMAIN t /\ v[q] = t[q - Len(u)]
        <5>1. p - Len(u) = q - Len(u)
          BY <2>5, <2>8, <3>3, <4>2
        <5> QED
          BY <2>4, <3>1, <5>1
      <4> QED
        BY <2>7, <3>1, <4>1, <4>2
    <3> QED
      BY <2>7, <3>1, <3>2, <3>3
  <2>9. ASSUME NEW e
        PROVE  (\E p \in DOMAIN v : v[p] = e)
                 <=> (\E p \in DOMAIN u : u[p] = e) \/ (\E i \in DOMAIN t : t[i] = e)
    <3>1. ASSUME NEW p \in DOMAIN u PROVE p \in DOMAIN v /\ v[p] = u[p]
      BY <2>4
    <3>2. ASSUME NEW i \in DOMAIN t PROVE Len(u) + i \in DOMAIN v /\ v[Len(u) + i] = t[i]
      <4>1. /\ Len(u) + i \in 1 .. Len(u) + Len(t)
            /\ ~(Len(u) + i <= Len(u)) /\ (Len(u) + i) - Len(u) = i
        BY <2>4
      <4> QED
        BY <2>4, <4>1
    <3>3. ASSUME NEW p \in DOMAIN v
          PROVE  \/ p \in DOMAIN u /\ v[p] = u[p]
                 \/ p - Len(u) \in DOMAIN t /\ v[p] = t[p - Len(u)]
      BY <2>4, <2>7
    <3> QED
      BY <3>1, <3>2, <3>3
  <2>10. \A a : a \in 1 .. j + 1 <=> a \in 1 .. j \/ a = j + 1
    OBVIOUS
  <2>11. \A e : (\E p \in DOMAIN v : v[p] = e)
                  <=> \E a \in 1 .. j + 1 : \E i \in DOMAIN s[a] : s[a][i] = e
    BY <2>3, <2>9, <2>10, ZenonT(40) DEF t
  <2> QED
    BY <2>2, <2>8, <2>11 DEF v
<1> HIDE DEF T, f
<1>4. Once(Len(s)) /\ FlattenSeq(s) = f(Len(s))
  <2>1. Nat \subseteq T
    BY <1>2, <1>3, AllNumbers
  <2>2. FlattenSeq(s) = f(Len(s))
    BY FlattenWhole DEF f
  <2> HIDE DEF Once
  <2> QED
    BY <1>1, <2>1, <2>2 DEF T
<1> DEFINE w == FlattenSeq(s)
<1>5. /\ \A p, q \in DOMAIN w : w[p] = w[q] => p = q
      /\ \A e : (\E p \in DOMAIN w : w[p] = e)
                  <=> \E a \in DOMAIN s : \E i \in DOMAIN s[a] : s[a][i] = e
  BY <1>1, <1>4
<1> HIDE DEF w, f, Once
<1>6. \A j \in DOMAIN w : \E a \in DOMAIN s : \E i \in DOMAIN s[a] : w[j] = s[a][i]
  <2> TAKE j \in DOMAIN w
  <2>1. \E p \in DOMAIN w : w[p] = w[j]
    OBVIOUS
  <2>2. \E a \in DOMAIN s : \E i \in DOMAIN s[a] : s[a][i] = w[j]
    BY <1>5, <2>1, Zenon
  <2> QED
    BY <2>2
<1>7. \A a \in DOMAIN s : \A i \in DOMAIN s[a] : \E j \in DOMAIN w : w[j] = s[a][i]
  BY <1>5, Zenon
<1> QED
  BY <1>5, <1>6, <1>7 DEF w
-----------------------------------------------------------------------------
(* Quotients and remainders.                                               *)

LEMMA Division ==
  ASSUME NEW a \in Nat, NEW b \in Nat \ {0}
  PROVE  /\ a \div b \in Nat /\ a % b \in 0 .. b - 1
         /\ a = (a \div b) * b + (a % b)
<1>1. a \div b \in Nat
  OBVIOUS
<1>2. a % b \in 0 .. b - 1
  OBVIOUS
<1>3. a = b * (a \div b) + (a % b)
  OBVIOUS
<1>4. ASSUME NEW c \in Nat
      PROVE  b * c = c * b
  OBVIOUS
<1>5. b * (a \div b) = (a \div b) * b
  BY <1>1, <1>4
<1> QED
  BY <1>1, <1>2, <1>3, <1>5

(* A multiple below another is below it by at least one. *)
LEMMA Multiples ==
  ASSUME NEW c \in Nat \ {0}, NEW g \in Nat, NEW h \in Nat, g < h
  PROVE  g * c \in Nat /\ h * c \in Nat /\ g * c + c <= h * c
<1>1. PICK d \in Nat : h = g + 1 + d
  <2>1. h - (g + 1) \in Nat /\ h = g + 1 + (h - (g + 1))
    OBVIOUS
  <2> QED
    BY <2>1
<1>2. h * c = g * c + c + d * c
  BY <1>1
<1>3. d * c \in Nat /\ g * c \in Nat /\ h * c \in Nat
  OBVIOUS
<1> QED
  BY <1>2, <1>3

LEMMA DivisionIsUnique ==
  ASSUME NEW b \in Nat \ {0}, NEW q \in Nat, NEW r \in 0 .. b - 1
  PROVE  (q * b + r) \div b = q /\ (q * b + r) % b = r
<1> DEFINE a == q * b + r
           u == a \div b
           v == a % b
<1>1. a \in Nat /\ q * b \in Nat
  OBVIOUS
<1> HIDE DEF a
<1>2. u \in Nat /\ v \in 0 .. b - 1 /\ a = u * b + v
  BY <1>1, Division
<1> HIDE DEF u, v
<1>3. ~(u < q)
  <2> SUFFICES ASSUME u < q PROVE FALSE
    OBVIOUS
  <2>1. u * b + b <= q * b /\ u * b \in Nat
    BY <1>2, Multiples
  <2> QED
    BY <1>1, <1>2, <2>1 DEF a
<1>4. ~(q < u)
  <2> SUFFICES ASSUME q < u PROVE FALSE
    OBVIOUS
  <2>1. q * b + b <= u * b /\ u * b \in Nat
    BY <1>2, Multiples
  <2> QED
    BY <1>1, <1>2, <2>1 DEF a
<1>5. u = q
  BY <1>2, <1>3, <1>4
<1>6. v = r
  BY <1>1, <1>2, <1>5 DEF a
<1> QED
  BY <1>5, <1>6 DEF a, u, v
-----------------------------------------------------------------------------
(* In a finite set with a strict total order, the number of elements       *)
(* before an element is its place.                                         *)

StrictOrder(S, R) ==
  /\ \A x \in S : <<x, x>> \notin R
  /\ \A x, y, z \in S : <<x, y>> \in R /\ <<y, z>> \in R => <<x, z>> \in R
  /\ \A x, y \in S : x = y \/ <<x, y>> \in R \/ <<y, x>> \in R

Below(S, R, x) == {y \in S : <<y, x>> \in R}

LEMMA PlaceInOrder ==
  ASSUME NEW S, IsFiniteSet(S), NEW R, StrictOrder(S, R)
  PROVE  /\ \A x \in S : Cardinality(Below(S, R, x)) \in 0 .. Cardinality(S) - 1
         /\ \A x, y \in S : Cardinality(Below(S, R, x)) = Cardinality(Below(S, R, y))
                              => x = y
         /\ \A i \in 0 .. Cardinality(S) - 1 :
              \E x \in S : Cardinality(Below(S, R, x)) = i
<1> DEFINE n    == Cardinality(S)
           c(x) == Cardinality(Below(S, R, x))
           T    == 0 .. n - 1
           f    == [x \in S |-> c(x)]
<1>1. n \in Nat
  BY FS_CardinalityType
<1>2. ASSUME NEW x \in S
      PROVE  /\ IsFiniteSet(Below(S, R, x)) /\ c(x) \in Nat
             /\ x \notin Below(S, R, x) /\ Below(S, R, x) \subseteq S
             /\ IsFiniteSet(Below(S, R, x) \cup {x})
             /\ Cardinality(Below(S, R, x) \cup {x}) = c(x) + 1
  <2>1. Below(S, R, x) \subseteq S /\ x \notin Below(S, R, x)
    BY DEF Below, StrictOrder
  <2>2. IsFiniteSet(Below(S, R, x)) /\ c(x) \in Nat
    BY <2>1, FS_Subset, FS_CardinalityType
  <2>3. IsFiniteSet(Below(S, R, x) \cup {x})
        /\ Cardinality(Below(S, R, x) \cup {x}) = c(x) + 1
    BY <2>1, <2>2, FS_AddElement
  <2> QED
    BY <2>1, <2>2, <2>3
<1>3. ASSUME NEW x \in S
      PROVE  c(x) \in T
  <2> DEFINE B == Below(S, R, x) \cup {x}
  <2>1. B \subseteq S /\ Cardinality(B) = c(x) + 1 /\ c(x) \in Nat
    BY <1>2
  <2> HIDE DEF B
  <2>2. Cardinality(B) <= n
    BY <2>1, FS_Subset
  <2> HIDE DEF c, n
  <2> QED
    BY <1>1, <2>1, <2>2
<1>4. ASSUME NEW x \in S, NEW y \in S, <<x, y>> \in R
      PROVE  c(x) < c(y)
  <2>1. Below(S, R, x) \cup {x} \subseteq Below(S, R, y)
    BY <1>4 DEF Below, StrictOrder
  <2>2. IsFiniteSet(Below(S, R, y)) /\ c(y) \in Nat
    BY <1>2
  <2>3. c(x) \in Nat /\ Cardinality(Below(S, R, x) \cup {x}) = c(x) + 1
    BY <1>2
  <2>4. c(x) + 1 <= c(y)
    BY <2>1, <2>2, <2>3, FS_Subset
  <2> QED
    BY <2>2, <2>3, <2>4
<1> HIDE DEF c
<1>5. ASSUME NEW x \in S, NEW y \in S, c(x) = c(y)
      PROVE  x = y
  <2>1. c(x) \in Nat /\ c(y) \in Nat
    BY <1>2 DEF c
  <2>2. ~(c(x) < c(y)) /\ ~(c(y) < c(x))
    BY <1>5, <2>1
  <2>3. <<x, y>> \notin R /\ <<y, x>> \notin R
    BY <1>4, <2>2
  <2> QED
    BY <2>3 DEF StrictOrder
<1>6. f \in Injection(S, T)
  BY <1>3, <1>5 DEF Injection, IsInjective
<1>7. IsFiniteSet(T) /\ Cardinality(T) = n
  <2>1. n = (n - 1) - 0 + 1 /\ n - 1 \in Int /\ (n - 1 < 0 <=> n = 0)
    BY <1>1
  <2> HIDE DEF n
  <2> QED
    BY <1>1, <2>1, FS_Interval
<1> HIDE DEF T, f
<1>8. f \in Surjection(S, T)
  BY <1>6, <1>7, FS_Injection
<1>9. \A i \in T : \E x \in S : c(x) = i
  BY <1>8 DEF Surjection, f
<1> QED
  BY <1>3, <1>5, <1>9 DEF c, T
=============================================================================
