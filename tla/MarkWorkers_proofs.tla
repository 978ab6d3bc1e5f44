------------------------ MODULE MarkWorkers_proofs ------------------------
(***************************************************************************)
(* Mark and its workers.  Nothing is read before every worker is done: the *)
(* WaitGroup counts the workers that have not ended, and there is one per  *)
(* elevation when Mark begins to wait.  And what Mark reads then is the    *)
(* sequential classification: both sorts arrive at the one ascending order *)
(* of the elevations, each worker has classified the group of its index,   *)
(* and concatenation commutes with classification.                         *)
(*                                                                         *)
(* The last part needs inductions.  They are made on sets: a set that has  *)
(* 0 and every successor has every number, by the pigeonhole principle.    *)
(***************************************************************************)
EXTENDS MarkWorkers, FiniteSetTheorems, SequenceTheorems, TLAPS

-----------------------------------------------------------------------------
(***************************************************************************)
(* Induction, and the concatenation of sequences.                          *)
(***************************************************************************)
\* The prefixes of the concatenation of s, as FlattenSeq defines them by recursion.
IsFlatten(f, s) ==
    f = [k \in 1..Len(s) |-> IF k = 1 THEN s[k] ELSE f[k - 1] \o s[k]]

\* What contains 0 and the successor of each of its numbers contains every number:
\* were m missing, n |-> n + 1 would map its part below m into that part without 0.
LEMMA Induction ==
    ASSUME NEW S, 0 \in S, \A n \in Nat : n \in S => n + 1 \in S
    PROVE  \A n \in Nat : n \in S
<1> SUFFICES ASSUME NEW m \in Nat, m \notin S PROVE FALSE
  OBVIOUS
<1> DEFINE T == S \cap 0..m
           f == [n \in T |-> n + 1]
<1>1. IsFiniteSet(0..m)
  BY FS_Interval
<1>2. IsFiniteSet(T) /\ Cardinality(T) \in Nat
  BY <1>1, FS_Subset, FS_CardinalityType
<1>3. 0 \in T
  OBVIOUS
<1>4. IsFiniteSet(T \ {0}) /\ Cardinality(T \ {0}) = Cardinality(T) - 1
  BY <1>2, <1>3, FS_RemoveElement
<1>5. f \in [T -> T \ {0}]
  <2> SUFFICES ASSUME NEW n \in T PROVE n + 1 \in T \ {0}
    OBVIOUS
  <2>1. n \in Nat /\ n <= m /\ n # m /\ n + 1 \in S
    OBVIOUS
  <2> QED
    BY <2>1
<1>6. PICK x \in T, y \in T : x # y /\ f[x] = f[y]
  <2>1. Cardinality(T \ {0}) < Cardinality(T)
    BY <1>2, <1>4
  <2> HIDE DEF T, f
  <2> QED
    BY <1>2, <1>4, <1>5, <2>1, FS_PigeonHole
<1> QED
  BY <1>6

\* The recursive function in FlattenSeq exists, so that CHOOSE finds it.
LEMMA FlattenExists ==
    ASSUME NEW s, NEW n \in Nat
    PROVE  \E f : f = [k \in 1..n |-> IF k = 1 THEN s[k] ELSE f[k - 1] \o s[k]]
<1> DEFINE Flat(f, m) == f = [k \in 1..m |-> IF k = 1 THEN s[k] ELSE f[k - 1] \o s[k]]
           S == {m \in Nat : \E f : Flat(f, m)}
<1>1. 0 \in S
  <2>1. Flat([k \in 1..0 |-> 0], 0)
    OBVIOUS
  <2> QED
    BY <2>1
<1>2. ASSUME NEW m \in Nat, m \in S PROVE m + 1 \in S
  <2>1. PICK f : Flat(f, m)
    BY <1>2
  <2> DEFINE g == [k \in 1..(m + 1) |-> IF k = 1 THEN s[k] ELSE f[k - 1] \o s[k]]
  <2>2. ASSUME NEW k \in 1..m PROVE g[k] = f[k]
    <3>1. f[k] = IF k = 1 THEN s[k] ELSE f[k - 1] \o s[k]
      BY <2>1, Zenon
    <3>2. k \in 1..(m + 1)
      OBVIOUS
    <3>3. g[k] = IF k = 1 THEN s[k] ELSE f[k - 1] \o s[k]
      BY <3>2
    <3> QED
      BY <3>1, <3>3, Zenon
  <2>3. Flat(g, m + 1)
    <3> HIDE DEF g
    <3> SUFFICES ASSUME NEW k \in 1..(m + 1)
                 PROVE  (IF k = 1 THEN s[k] ELSE f[k - 1] \o s[k])
                            = (IF k = 1 THEN s[k] ELSE g[k - 1] \o s[k])
      BY DEF g
    <3>1. k # 1 => k - 1 \in 1..m
      OBVIOUS
    <3> QED
      BY <3>1, <2>2
  <2>4. \E h : Flat(h, m + 1)
    <3> HIDE DEF Flat, g
    <3> QED
      BY <2>3
  <2>5. m + 1 \in Nat
    OBVIOUS
  <2> HIDE DEF Flat, g
  <2> QED
    BY <2>4, <2>5
<1> HIDE DEF S
<1>3. \A m \in Nat : m \in S
  BY <1>1, <1>2, Induction
<1> QED
  BY <1>3 DEF S

LEMMA FlattenDef ==
    ASSUME NEW s, Len(s) \in Nat \ {0}
    PROVE  \E f : IsFlatten(f, s) /\ FlattenSeq(s) = f[Len(s)]
  BY FlattenExists DEF FlattenSeq, IsFlatten

\* How a prefix of the concatenation extends the one before.
LEMMA FlattenFirst ==
    ASSUME NEW s, NEW f, IsFlatten(f, s), 1 \in 1..Len(s)
    PROVE  f[1] = s[1]
  BY Zenon DEF IsFlatten

LEMMA FlattenNext ==
    ASSUME NEW s, NEW f, NEW n \in Nat, Len(s) = n, IsFlatten(f, s)
    PROVE  \A k \in 1..(n - 1) : f[k + 1] = f[k] \o s[k + 1]
<1> SUFFICES ASSUME NEW k \in 1..(n - 1) PROVE f[k + 1] = f[k] \o s[k + 1]
  OBVIOUS
<1>1. k + 1 \in 1..n /\ k + 1 # 1 /\ (k + 1) - 1 = k
  OBVIOUS
<1>2. f[k + 1] = IF k + 1 = 1 THEN s[k + 1] ELSE f[(k + 1) - 1] \o s[k + 1]
  <2>1. \A m \in 1..Len(s) : f[m] = IF m = 1 THEN s[m] ELSE f[m - 1] \o s[m]
    BY Zenon DEF IsFlatten
  <2> QED
    BY <1>1, <2>1
<1>3. f[k + 1] = f[(k + 1) - 1] \o s[k + 1]
  BY <1>1, <1>2, Zenon
<1> QED
  BY <1>1, <1>3, Zenon

\* Induction from 1 to n.
LEMMA IntervalInduction ==
    ASSUME NEW S, NEW n \in Nat, 1 \in S,
           \A k \in 1..(n - 1) : k \in S => k + 1 \in S
    PROVE  \A k \in 1..n : k \in S
<1> DEFINE T == {m \in Nat : m + 1 <= n => m + 1 \in S}
<1>1. 0 \in T
  OBVIOUS
<1>2. ASSUME NEW m \in Nat, m \in T PROVE m + 1 \in T
  <2> SUFFICES ASSUME (m + 1) + 1 <= n PROVE (m + 1) + 1 \in S
    OBVIOUS
  <2>1. m + 1 \in 1..(n - 1) /\ m + 1 \in S
    BY <1>2
  <2> QED
    BY <2>1
<1> HIDE DEF T
<1>3. \A m \in Nat : m \in T
  BY <1>1, <1>2, Induction
<1> SUFFICES ASSUME NEW k \in 1..n PROVE k \in S
  OBVIOUS
<1>4. k - 1 \in Nat /\ (k - 1) + 1 = k /\ k <= n
  OBVIOUS
<1>5. k - 1 \in T
  BY <1>3, <1>4
<1> QED
  BY <1>4, <1>5 DEF T

\* What concatenation does to the elements, and to a function applied to them.
LEMMA ConcatElements ==
    ASSUME NEW D
    PROVE  \A s, t \in Seq(D) :
              /\ s \o t \in Seq(D)
              /\ \A x : x \in ToSet(s \o t) <=> x \in ToSet(s) \/ x \in ToSet(t)
<1> SUFFICES ASSUME NEW s \in Seq(D), NEW t \in Seq(D), NEW x
             PROVE  x \in ToSet(s \o t) <=> x \in ToSet(s) \/ x \in ToSet(t)
  OBVIOUS
<1>1. /\ Len(s) \in Nat /\ DOMAIN s = 1..Len(s)
      /\ Len(t) \in Nat /\ DOMAIN t = 1..Len(t)
      /\ DOMAIN (s \o t) = 1..(Len(s) + Len(t))
  OBVIOUS
<1>2. ASSUME x \in ToSet(s \o t) PROVE x \in ToSet(s) \/ x \in ToSet(t)
  <2>1. PICK m \in 1..(Len(s) + Len(t)) : x = (s \o t)[m]
    BY <1>1, <1>2 DEF ToSet
  <2>2. CASE m <= Len(s)
    BY <1>1, <2>1, <2>2 DEF ToSet
  <2>3. CASE m > Len(s)
    <3>1. m - Len(s) \in 1..Len(t) /\ x = t[m - Len(s)]
      BY <1>1, <2>1, <2>3
    <3> QED
      BY <1>1, <3>1 DEF ToSet
  <2> QED
    BY <1>1, <2>1, <2>2, <2>3
<1>3. ASSUME x \in ToSet(s) PROVE x \in ToSet(s \o t)
  <2>1. PICK m \in 1..Len(s) : x = s[m]
    BY <1>1, <1>3 DEF ToSet
  <2>2. m \in 1..(Len(s) + Len(t)) /\ (s \o t)[m] = x
    BY <1>1, <2>1
  <2> QED
    BY <1>1, <2>2 DEF ToSet
<1>4. ASSUME x \in ToSet(t) PROVE x \in ToSet(s \o t)
  <2>1. PICK m \in 1..Len(t) : x = t[m]
    BY <1>1, <1>4 DEF ToSet
  <2>2. Len(s) + m \in 1..(Len(s) + Len(t)) /\ (s \o t)[Len(s) + m] = x
    BY <1>1, <2>1
  <2> QED
    BY <1>1, <2>2 DEF ToSet
<1> QED
  BY <1>2, <1>3, <1>4

Image(s, f) == [m \in DOMAIN s |-> f[s[m]]]

LEMMA ConcatImage ==
    ASSUME NEW D, NEW f, NEW s \in Seq(D), NEW t \in Seq(D)
    PROVE  Image(s \o t, f) = Image(s, f) \o Image(t, f)
<1> DEFINE R == {f[d] : d \in D}
<1>1. ASSUME NEW u \in Seq(D)
      PROVE  Image(u, f) \in Seq(R) /\ Len(Image(u, f)) = Len(u)
             /\ \A m \in 1..Len(u) : Image(u, f)[m] = f[u[m]]
  <2>1. DOMAIN u = 1..Len(u) /\ Len(u) \in Nat /\ \A m \in 1..Len(u) : u[m] \in D
    OBVIOUS
  <2>2. Image(u, f) \in [1..Len(u) -> R]
    BY <2>1 DEF Image
  <2>3. \A m \in 1..Len(u) : Image(u, f)[m] = f[u[m]]
    BY <2>1 DEF Image
  <2> HIDE DEF R
  <2>4. \A n \in Nat : \A w \in [1..n -> R] : w \in Seq(R) /\ Len(w) = n
    OBVIOUS
  <2>5. Image(u, f) \in Seq(R) /\ Len(Image(u, f)) = Len(u)
    BY <2>1, <2>2, <2>4, Zenon
  <2> QED
    BY <2>3, <2>5, Zenon
<1> HIDE DEF R
<1>2. s \o t \in Seq(D) /\ Len(s \o t) = Len(s) + Len(t)
  OBVIOUS
<1> DEFINE a == Image(s \o t, f)
           b == Image(s, f) \o Image(t, f)
<1>3. a \in Seq(R) /\ b \in Seq(R) /\ Len(a) = Len(s) + Len(t) /\ Len(b) = Len(a)
  <2>1. a \in Seq(R) /\ Len(a) = Len(s) + Len(t)
    BY <1>1, <1>2
  <2>2. /\ Image(s, f) \in Seq(R) /\ Len(Image(s, f)) = Len(s)
        /\ Image(t, f) \in Seq(R) /\ Len(Image(t, f)) = Len(t)
    BY <1>1
  <2>3. \A u, v \in Seq(R) : u \o v \in Seq(R) /\ Len(u \o v) = Len(u) + Len(v)
    OBVIOUS
  <2>4. b \in Seq(R) /\ Len(b) = Len(s) + Len(t)
    BY <2>2, <2>3, Zenon
  <2> QED
    BY <2>1, <2>4
<1>4. ASSUME NEW m \in 1..Len(a) PROVE a[m] = b[m]
  <2>1. m \in 1..(Len(s) + Len(t)) /\ Len(s) \in Nat /\ Len(t) \in Nat
    BY <1>3
  <2>2. a[m] = f[(s \o t)[m]]
    BY <1>1, <1>2, <2>1
  <2>3. /\ Image(s, f) \in Seq(R) /\ Len(Image(s, f)) = Len(s)
        /\ Image(t, f) \in Seq(R) /\ Len(Image(t, f)) = Len(t)
    BY <1>1
  <2>4. CASE m <= Len(s)
    <3>1. m \in 1..Len(s) /\ (s \o t)[m] = s[m] /\ b[m] = Image(s, f)[m]
      BY <2>1, <2>3, <2>4
    <3> QED
      BY <1>1, <2>2, <3>1
  <2>5. CASE m > Len(s)
    <3>1. /\ m - Len(s) \in 1..Len(t) /\ (s \o t)[m] = t[m - Len(s)]
          /\ b[m] = Image(t, f)[m - Len(s)]
      BY <2>1, <2>3, <2>5
    <3> QED
      BY <1>1, <2>2, <3>1
  <2> HIDE DEF a, b
  <2> QED
    BY <2>1, <2>4, <2>5
<1> HIDE DEF a, b
<1>5. a = b
  BY <1>3, <1>4, SeqEqual
<1> QED
  BY <1>1, <1>5 DEF a, b

\* The concatenation of sequences over D is one, and its elements are theirs.
LEMMA FlattenElements ==
    ASSUME NEW D, NEW n \in Nat \ {0}, NEW s \in [1..n -> Seq(D)]
    PROVE  /\ FlattenSeq(s) \in Seq(D)
           /\ \A x : x \in ToSet(FlattenSeq(s)) <=> \E m \in 1..n : x \in ToSet(s[m])
<1>1. Len(s) = n /\ n \in Nat /\ 1 \in 1..n /\ n \in 1..n
  OBVIOUS
<1>2. PICK f : IsFlatten(f, s) /\ FlattenSeq(s) = f[n]
  BY <1>1, FlattenDef
<1>a. \A k \in 1..(n - 1) : f[k + 1] = f[k] \o s[k + 1]
  BY <1>1, <1>2, FlattenNext
<1> DEFINE P(k) == /\ f[k] \in Seq(D)
                   /\ \A x : x \in ToSet(f[k]) <=> \E m \in 1..k : x \in ToSet(s[m])
           S == {k \in 1..n : P(k)}
<1>3. 1 \in S
  <2>1. f[1] = s[1]
    BY <1>1, <1>2, FlattenFirst
  <2> QED
    BY <1>1, <2>1
<1>4. ASSUME NEW k \in 1..(n - 1), k \in S PROVE k + 1 \in S
  <2>1. k + 1 \in 1..n /\ \A m : m \in 1..(k + 1) <=> m \in 1..k \/ m = k + 1
    OBVIOUS
  <2>2. f[k + 1] = f[k] \o s[k + 1]
    BY <1>a
  <2>3. P(k) /\ s[k + 1] \in Seq(D)
    BY <1>4, <2>1
  <2>4. /\ f[k + 1] \in Seq(D)
        /\ \A x : x \in ToSet(f[k + 1]) <=> x \in ToSet(f[k]) \/ x \in ToSet(s[k + 1])
    BY <2>2, <2>3, ConcatElements
  <2>5. P(k + 1)
    BY <2>1, <2>3, <2>4, Zenon
  <2> HIDE DEF P
  <2> QED
    BY <2>1, <2>5
<1> HIDE DEF S
<1>5. n \in S
  <2>1. \A k \in 1..n : k \in S
    BY <1>1, <1>3, <1>4, IntervalInduction
  <2> QED
    BY <1>1, <2>1
<1> QED
  BY <1>2, <1>5 DEF S

\* Applying f to every element commutes with concatenation.
ImageOf(t, s, f, n, D, R) ==
    /\ s \in [1..n -> Seq(D)] /\ t \in [1..n -> Seq(R)]
    /\ \A k \in 1..n : t[k] = Image(s[k], f)

LEMMA FlattenImage ==
    ASSUME NEW D, NEW R, NEW f, NEW n \in Nat \ {0}, NEW s, NEW t, ImageOf(t, s, f, n, D, R)
    PROVE  FlattenSeq(t) = Image(FlattenSeq(s), f)
<1>0. s \in [1..n -> Seq(D)] /\ t \in [1..n -> Seq(R)] /\ \A k \in 1..n : t[k] = Image(s[k], f)
  BY DEF ImageOf
<1>1. Len(s) = n /\ Len(t) = n /\ n \in Nat /\ 1 \in 1..n /\ n \in 1..n
  BY <1>0
<1>2. PICK p : IsFlatten(p, s) /\ FlattenSeq(s) = p[n]
  BY <1>1, FlattenDef
<1>3. PICK r : IsFlatten(r, t) /\ FlattenSeq(t) = r[n]
  BY <1>1, FlattenDef
<1>a. \A k \in 1..(n - 1) : p[k + 1] = p[k] \o s[k + 1]
  BY <1>1, <1>2, FlattenNext
<1>c. \A u, v \in Seq(D) : Image(u \o v, f) = Image(u, f) \o Image(v, f)
  BY ConcatImage
<1>b. \A k \in 1..(n - 1) : r[k + 1] = r[k] \o t[k + 1]
  BY <1>1, <1>3, FlattenNext
<1> DEFINE P(k) == p[k] \in Seq(D) /\ r[k] = Image(p[k], f)
           S == {k \in 1..n : P(k)}
<1>4. 1 \in S
  <2>1. p[1] = s[1] /\ r[1] = t[1]
    BY <1>1, <1>2, <1>3, FlattenFirst
  <2> QED
    BY <1>0, <1>1, <2>1
<1>5. ASSUME NEW k \in 1..(n - 1), k \in S PROVE k + 1 \in S
  <2>1. k + 1 \in 1..n
    OBVIOUS
  <2>2. p[k + 1] = p[k] \o s[k + 1] /\ r[k + 1] = r[k] \o t[k + 1]
    BY <1>a, <1>b
  <2>3. P(k) /\ s[k + 1] \in Seq(D) /\ t[k + 1] = Image(s[k + 1], f)
    BY <1>0, <1>5, <2>1
  <2>4. p[k + 1] \in Seq(D)
    BY <2>2, <2>3, ConcatElements
  <2>5. Image(p[k] \o s[k + 1], f) = Image(p[k], f) \o Image(s[k + 1], f)
    BY <2>3, <1>c, Zenon
  <2>6. r[k + 1] = Image(p[k + 1], f)
    BY <2>2, <2>3, <2>5, Zenon
  <2> QED
    BY <2>1, <2>4, <2>6
<1> HIDE DEF S
<1>6. n \in S
  <2>1. \A k \in 1..n : k \in S
    BY <1>1, <1>4, <1>5, IntervalInduction
  <2> QED
    BY <1>1, <2>1
<1> QED
  BY <1>2, <1>3, <1>6 DEF S

-----------------------------------------------------------------------------
(***************************************************************************)
(* The orders of the elevations.                                           *)
(***************************************************************************)
Number == Cardinality(Elevation)

LEMMA NumberIsNatural == Number \in Nat /\ Index = 1..Number
  BY WorkersAssumption, FS_CardinalityType DEF Number, Index

LEMMA OrdersAre ==
    MapOrders = {s \in [1..Number -> Elevation] :
                    \A a, b \in 1..Number : a # b => s[a] # s[b]}
  BY DEF MapOrders, SetToSeqs, Number

\* An order has every elevation.
LEMMA OrdersAreComplete ==
    ASSUME NEW s \in MapOrders, NEW e \in Elevation
    PROVE  \E a \in 1..Number : s[a] = e
<1>1. s \in Injection(1..Number, Elevation)
  BY OrdersAre DEF Injection, IsInjective
<1>2. IsFiniteSet(1..Number) /\ Cardinality(1..Number) = Number
  BY NumberIsNatural, FS_Interval
<1>3. s \in Surjection(1..Number, Elevation)
  BY <1>1, <1>2, WorkersAssumption, FS_Injection DEF Number
<1> QED
  BY <1>3 DEF Surjection

\* Two ascending orders that agree up to n do not part after it.
LEMMA NotBelow ==
    ASSUME NEW s \in MapOrders, NEW t \in MapOrders, Ascending(t),
           NEW n \in Nat, n + 1 \in 1..Number, \A k \in 1..n : s[k] = t[k]
    PROVE  ~(s[n + 1] < t[n + 1])
<1> SUFFICES ASSUME s[n + 1] < t[n + 1] PROVE FALSE
  OBVIOUS
<1>1. /\ s \in [1..Number -> Elevation] /\ t \in [1..Number -> Elevation]
      /\ \A a, b \in 1..Number : a # b => s[a] # s[b]
  BY OrdersAre
<1>2. \A a \in 1..Number : s[a] \in Nat /\ t[a] \in Nat
  BY <1>1, WorkersAssumption
<1>3. PICK m \in 1..Number : t[m] = s[n + 1]
  BY <1>1, OrdersAreComplete
<1>4. CASE m <= n
  <2>1. m \in 1..n /\ m # n + 1
    BY <1>4, NumberIsNatural
  <2> QED
    BY <1>1, <1>3, <2>1
<1>5. CASE m = n + 1
  BY <1>2, <1>3, <1>5
<1>6. CASE n + 1 < m
  <2>1. t[n + 1] < t[m]
    BY <1>1, <1>6 DEF Ascending
  <2> QED
    BY <1>2, <1>3, <2>1
<1> QED
  BY <1>4, <1>5, <1>6, NumberIsNatural

\* There is one ascending order only: both calls of sortedElevations end in it.
LEMMA AscendingUnique ==
    ASSUME NEW s \in MapOrders, NEW t \in MapOrders, Ascending(s), Ascending(t)
    PROVE  s = t
<1>1. s \in [1..Number -> Elevation] /\ t \in [1..Number -> Elevation]
  BY OrdersAre
<1> DEFINE S == {n \in Nat : n <= Number => \A k \in 1..n : s[k] = t[k]}
<1>2. 0 \in S
  OBVIOUS
<1>3. ASSUME NEW n \in Nat, n \in S PROVE n + 1 \in S
  <2> SUFFICES ASSUME n + 1 <= Number PROVE \A k \in 1..(n + 1) : s[k] = t[k]
    OBVIOUS
  <2>1. n + 1 \in 1..Number /\ \A k \in 1..n : s[k] = t[k]
    BY <1>3, NumberIsNatural
  <2>2. ~(s[n + 1] < t[n + 1]) /\ ~(t[n + 1] < s[n + 1])
    BY <2>1, NotBelow
  <2>3. s[n + 1] \in Nat /\ t[n + 1] \in Nat
    BY <1>1, <2>1, WorkersAssumption
  <2>4. s[n + 1] = t[n + 1]
    BY <2>2, <2>3
  <2> QED
    BY <2>1, <2>4
<1> HIDE DEF S
<1>4. Number \in S
  BY <1>2, <1>3, NumberIsNatural, Induction
<1>5. \A k \in 1..Number : s[k] = t[k]
  BY <1>4, NumberIsNatural DEF S
<1>6. s = [k \in 1..Number |-> s[k]] /\ t = [k \in 1..Number |-> t[k]]
  BY <1>1
<1> QED
  BY <1>5, <1>6, Zenon

-----------------------------------------------------------------------------
(***************************************************************************)
(* The inductive invariant.                                                *)
(***************************************************************************)
Running == {x \in Index : work[x] \in {"classifying", "stored"}}

\* The sort only moves keys about, within the bounds of the slice.
KeysInv ==
    /\ pc \in {"collect", "sort", "spawn", "wait", "recollect", "resort", "flatten",
               "merged"}
    /\ i \in Nat /\ j \in Nat /\ j <= i
    /\ IF pc = "collect" THEN keys = <<>> ELSE keys \in MapOrders

\* Up to the cursor i the keys ascend, but for the one at j that is on its way down.
SortInv ==
    /\ pc \in {"sort", "resort"} =>
          /\ i <= Number \/ j = i
          /\ \A a, b \in 1..Number : a < b /\ b <= i /\ b # j => keys[a] < keys[b]
    /\ pc \in {"spawn", "wait", "flatten", "merged"} => Ascending(keys)

\* Which worker stands where.
WorkInv ==
    /\ spawned \in Seq(Elevation) /\ Len(spawned) <= Number
    /\ work \in [Index -> {"none", "classifying", "stored", "done"}]
    /\ \A x \in Index : work[x] = "none" <=> Len(spawned) < x
    /\ pc \in {"collect", "sort"} => spawned = <<>>
    /\ pc \notin {"collect", "sort", "spawn"} => Len(spawned) = Number

\* The workers have the elevations in ascending order, also after the second range
\* over the map has replaced the keys.
PlacedInv ==
    /\ pc = "spawn" => \A x \in 1..Len(spawned) : spawned[x] = keys[x]
    /\ pc \notin {"collect", "sort", "spawn"} => spawned \in MapOrders /\ Ascending(spawned)

\* What wg.Wait relies on.
GroupInv ==
    /\ wg = Cardinality(Running)
    /\ pc \notin {"collect", "sort", "spawn", "wait"} => Running = {}

\* A worker has classified its group up to a gate, and stores all of it.
Decided(x, n) ==
    /\ Len(dec[x]) = n
    /\ \A m \in 1..n : dec[x][m] = Classify[Group[spawned[x]][m]]

Decisions(x) ==
    /\ work[x] = "none" => dec[x] = <<>>
    /\ work[x] = "classifying" => \E n \in 0..Len(Group[spawned[x]]) : Decided(x, n)
    /\ work[x] \in {"stored", "done"} => results[x] = Image(Group[spawned[x]], Classify)

DecInv ==
    /\ dec \in [Index -> Seq(Verdict)] /\ results \in [Index -> Seq(Verdict)]
    /\ \A x \in Index : Decisions(x)

\* The merge.
MergeInv ==
    /\ ordered \in Seq(Gate) /\ flat \in Seq(Verdict)
    /\ MergedAlike

IInv ==
    KeysInv /\ SortInv /\ WorkInv /\ PlacedInv /\ GroupInv /\ DecInv /\ MergeInv

-----------------------------------------------------------------------------
\* The workers that run are finitely many.
LEMMA RunningIsFinite ==
    /\ IsFiniteSet(Running) /\ Cardinality(Running) \in Nat
    /\ Cardinality(Running) = 0 <=> Running = {}
<1>1. IsFiniteSet(Index)
  BY NumberIsNatural, FS_Interval
<1>2. IsFiniteSet(Running)
  BY <1>1, FS_Subset DEF Running
<1> QED
  BY <1>2, FS_CardinalityType, FS_EmptySet

LEMMA InitInv == Init => IInv
<1> SUFFICES ASSUME Init PROVE IInv
  OBVIOUS
<1>1. KeysInv /\ SortInv /\ PlacedInv
  BY DEF Init, KeysInv, SortInv, PlacedInv
<1>2. Len(spawned) = 0 /\ spawned \in Seq(Elevation)
  BY DEF Init
<1>3. WorkInv
  BY <1>2, NumberIsNatural DEF Init, WorkInv
<1>4. Running = {}
  BY DEF Init, Running
<1>5. GroupInv
  BY <1>4, RunningIsFinite DEF Init, GroupInv
<1>6. DecInv
  BY DEF Init, DecInv, Decisions
<1>7. MergeInv
  BY DEF Init, MergeInv, MergedAlike
<1> QED
  BY <1>1, <1>3, <1>5, <1>6, <1>7 DEF IInv

\* A key slice has one key per elevation.
LEMMA KeysLength ==
    ASSUME KeysInv, pc # "collect"
    PROVE  /\ Len(keys) = Number /\ keys \in [1..Number -> Elevation]
           /\ \A a, b \in 1..Number : a # b => keys[a] # keys[b]
           /\ \A a \in 1..Number : keys[a] \in Nat
<1>1. /\ keys \in [1..Number -> Elevation]
      /\ \A a, b \in 1..Number : a # b => keys[a] # keys[b]
  BY OrdersAre DEF KeysInv
<1>2. Len(keys) = Number
  BY <1>1, NumberIsNatural
<1>3. \A a \in 1..Number : keys[a] \in Nat
  BY <1>1, WorkersAssumption
<1> QED
  BY <1>1, <1>2, <1>3

LEMMA KeysStep == ASSUME IInv, [Next]_vars PROVE KeysInv'
<1>1. CASE Collect
  BY <1>1 DEF Collect, KeysInv
<1>2. CASE SortStep
  <2>1. pc # "collect" /\ pc' = pc /\ i <= Len(keys) /\ i \in Nat /\ j \in Nat /\ j <= i
    BY <1>2 DEF IInv, KeysInv, SortStep
  <2>2. /\ Len(keys) = Number /\ keys \in [1..Number -> Elevation]
        /\ \A a, b \in 1..Number : a # b => keys[a] # keys[b]
    BY <2>1, KeysLength DEF IInv
  <2>3. CASE OutOfPlace(keys, j)
    <3>1. j \in 1..Number /\ j - 1 \in 1..Number
      BY <2>1, <2>2, <2>3, NumberIsNatural DEF OutOfPlace
    <3>2. /\ keys' = [keys EXCEPT ![j - 1] = keys[j], ![j] = keys[j - 1]]
          /\ j' = j - 1 /\ i' = i
      BY <1>2, <2>3 DEF SortStep
    <3>3. keys' \in [1..Number -> Elevation]
      BY <2>2, <3>1, <3>2
    <3>4. \A a, b \in 1..Number : a # b => keys'[a] # keys'[b]
      BY <2>2, <3>1, <3>2
    <3>5. j' \in Nat /\ i' \in Nat /\ j' <= i'
      BY <2>1, <3>1, <3>2
    <3> QED
      BY <2>1, <3>3, <3>4, <3>5, OrdersAre DEF IInv, KeysInv
  <2>4. CASE ~OutOfPlace(keys, j)
    <3>1. keys' = keys /\ i' = i + 1 /\ j' = i + 1
      BY <1>2, <2>4 DEF SortStep
    <3> QED
      BY <2>1, <3>1 DEF IInv, KeysInv
  <2> QED
    BY <2>3, <2>4
<1>3. CASE SortDone
  BY <1>3 DEF IInv, KeysInv, SortDone, sorting
<1>4. CASE Spawn \/ SpawnDone \/ Wait \/ Flatten \/ Ended \/ UNCHANGED vars
  BY <1>4 DEF IInv, KeysInv, Spawn, SpawnDone, Wait, Flatten, Ended, sorting, vars
<1>5. ASSUME NEW x \in Index, WorkerStep(x) PROVE KeysInv'
  BY <1>5 DEF IInv, KeysInv, WorkerStep, WorkerClassify, WorkerStore, WorkerDone, sorting
<1> QED
  BY <1>1, <1>2, <1>3, <1>4, <1>5 DEF Next, MarkStep

LEMMA SortedStep == ASSUME IInv, [Next]_vars PROVE SortInv'
<1>1. CASE Collect
  <2>1. pc' \in {"sort", "resort"} /\ i' = 2 /\ j' = 2
    BY <1>1 DEF Collect
  <2>2. ASSUME NEW a \in 1..Number, NEW b \in 1..Number, a < b, b <= 2, b # 2 PROVE FALSE
    BY <2>2, NumberIsNatural
  <2> QED
    BY <2>1, <2>2 DEF SortInv
<1>2. CASE SortStep
  <2>1. pc \in {"sort", "resort"} /\ pc' = pc /\ i <= Len(keys) /\ i \in Nat /\ j \in Nat /\ j <= i
    BY <1>2 DEF IInv, KeysInv, SortStep
  <2>2. /\ Len(keys) = Number /\ keys \in [1..Number -> Elevation]
        /\ \A a, b \in 1..Number : a # b => keys[a] # keys[b]
        /\ \A a \in 1..Number : keys[a] \in Nat
    BY <2>1, KeysLength DEF IInv
  <2>3. \A a, b \in 1..Number : a < b /\ b <= i /\ b # j => keys[a] < keys[b]
    BY <2>1 DEF IInv, SortInv
  <2>4. CASE OutOfPlace(keys, j)
    <3>1. j \in 1..Number /\ j - 1 \in 1..Number /\ keys[j - 1] > keys[j]
      BY <2>1, <2>2, <2>4, NumberIsNatural DEF OutOfPlace
    <3>2. /\ keys' = [keys EXCEPT ![j - 1] = keys[j], ![j] = keys[j - 1]]
          /\ j' = j - 1 /\ i' = i
      BY <1>2, <2>4 DEF SortStep
    <3>3. /\ keys'[j - 1] = keys[j] /\ keys'[j] = keys[j - 1]
          /\ \A a \in 1..Number : a \notin {j - 1, j} => keys'[a] = keys[a]
      BY <2>2, <3>1, <3>2
    <3>4. ASSUME NEW a \in 1..Number, NEW b \in 1..Number, a < b, b <= i, b # j - 1
          PROVE  keys'[a] < keys'[b]
      <4>1. a \in Nat /\ b \in Nat
        BY NumberIsNatural
      <4>2. CASE b = j
        <5>1. a = j - 1 \/ a < j - 1
          BY <2>1, <3>1, <3>4, <4>1, <4>2
        <5>2. CASE a = j - 1
          BY <2>2, <3>1, <3>3, <4>2, <5>2
        <5>3. CASE a < j - 1
          <6>1. keys[a] < keys[j - 1]
            BY <2>1, <2>3, <3>1, <5>3
          <6> QED
            BY <2>1, <3>1, <3>3, <4>1, <4>2, <5>3, <6>1
        <5> QED
          BY <5>1, <5>2, <5>3
      <4>3. CASE b > j
        <5>1. keys[j] < keys[b] /\ keys[j - 1] < keys[b] /\ keys'[b] = keys[b]
          BY <2>1, <2>3, <3>1, <3>3, <3>4, <4>1, <4>3
        <5>2. a \notin {j - 1, j} => keys[a] < keys[b]
          BY <2>1, <2>3, <3>1, <3>4, <4>1, <4>3
        <5> QED
          BY <3>3, <5>1, <5>2
      <4>4. CASE b < j - 1
        BY <2>1, <2>3, <3>1, <3>3, <3>4, <4>1, <4>4
      <4> QED
        BY <2>1, <3>4, <4>1, <4>2, <4>3, <4>4
    <3> QED
      BY <2>1, <2>2, <3>2, <3>4 DEF SortInv
  <2>5. CASE ~OutOfPlace(keys, j)
    <3>1. keys' = keys /\ i' = i + 1 /\ j' = i + 1
      BY <1>2, <2>5 DEF SortStep
    <3>2. ASSUME NEW a \in 1..Number, NEW b \in 1..Number, a < b, b <= i
          PROVE  keys[a] < keys[b]
      <4>1. a \in Nat /\ b \in Nat
        BY NumberIsNatural
      <4>2. CASE b # j
        BY <2>3, <3>2, <4>2
      <4>3. CASE b = j
        <5>1. j > 1 /\ j - 1 \in 1..Number
          BY <2>1, <3>2, <4>1, <4>3, NumberIsNatural
        <5>2. keys[j - 1] < keys[j]
          <6>1. ~(keys[j - 1] > keys[j])
            BY <2>5, <5>1 DEF OutOfPlace
          <6>2. keys[j - 1] # keys[j]
            BY <2>1, <2>2, <4>3, <5>1
          <6> QED
            BY <2>2, <4>3, <5>1, <6>1, <6>2
        <5>3. a = j - 1 \/ a < j - 1
          BY <2>1, <3>2, <4>1, <4>3
        <5>4. a < j - 1 => keys[a] < keys[j - 1]
          BY <2>1, <2>3, <3>2, <4>1, <4>3, <5>1
        <5> QED
          BY <2>2, <4>3, <5>1, <5>2, <5>3, <5>4
      <4> QED
        BY <4>2, <4>3
    <3>3. \A a, b \in 1..Number : a < b /\ b <= i + 1 /\ b # i + 1 => keys[a] < keys[b]
      <4> SUFFICES ASSUME NEW a \in 1..Number, NEW b \in 1..Number,
                          a < b, b <= i + 1, b # i + 1
                   PROVE  keys[a] < keys[b]
        OBVIOUS
      <4>1. b <= i
        BY <2>1, NumberIsNatural
      <4> QED
        BY <3>2, <4>1
    <3> QED
      BY <2>1, <3>1, <3>3 DEF SortInv
  <2> QED
    BY <2>4, <2>5
<1>3. CASE SortDone
  <2>1. /\ pc \in {"sort", "resort"} /\ i > Len(keys) /\ keys' = keys
        /\ pc' \in {"spawn", "flatten"}
    BY <1>3 DEF SortDone, sorting
  <2>2. Len(keys) = Number /\ keys \in [1..Number -> Elevation] /\ i \in Nat
    BY <2>1, KeysLength DEF IInv, KeysInv
  <2>3. j = i /\ \A a, b \in 1..Number : a < b /\ b <= i /\ b # j => keys[a] < keys[b]
    BY <2>1, <2>2, NumberIsNatural DEF IInv, SortInv
  <2>4. \A b \in 1..Number : b <= i /\ b # j
    BY <2>1, <2>2, <2>3, NumberIsNatural
  <2>5. Ascending(keys)
    BY <2>2, <2>3, <2>4 DEF Ascending
  <2> QED
    BY <2>1, <2>5 DEF SortInv, Ascending
<1>4. CASE Spawn \/ SpawnDone \/ Wait \/ Flatten \/ Ended \/ UNCHANGED vars
  BY <1>4 DEF IInv, SortInv, Ascending, Spawn, SpawnDone, Wait, Flatten, Ended, sorting, vars
<1>5. ASSUME NEW x \in Index, WorkerStep(x) PROVE SortInv'
  BY <1>5 DEF IInv, SortInv, Ascending, WorkerStep, WorkerClassify, WorkerStore, WorkerDone,
              sorting
<1> QED
  BY <1>1, <1>2, <1>3, <1>4, <1>5 DEF Next, MarkStep

LEMMA WorkStep == ASSUME IInv, [Next]_vars PROVE WorkInv'
<1>1. CASE Collect \/ SortStep \/ SortDone \/ Flatten \/ Ended \/ UNCHANGED vars
  BY <1>1 DEF IInv, WorkInv, Collect, SortStep, SortDone, Flatten, Ended, workers, vars
<1>2. CASE Spawn
  <2> DEFINE x == Len(spawned) + 1
  <2>1. Len(keys) = Number /\ keys \in [1..Number -> Elevation] /\ pc = "spawn" /\ pc' = pc
    BY <1>2, KeysLength DEF IInv, Spawn
  <2>2. Len(spawned) \in Nat /\ x \in 1..Number
    BY <1>2, <2>1, NumberIsNatural DEF IInv, WorkInv, Spawn
  <2>3. /\ spawned' = Append(spawned, keys[x])
        /\ work' = [work EXCEPT ![x] = "classifying"]
    BY <1>2 DEF Spawn
  <2>4. keys[x] \in Elevation
    BY <2>1, <2>2
  <2>5. spawned' \in Seq(Elevation) /\ Len(spawned') = x
    BY <2>2, <2>3, <2>4 DEF IInv, WorkInv
  <2>6. \A y \in Index : work'[y] = "none" <=> x < y
    <3> SUFFICES ASSUME NEW y \in 1..Number PROVE work'[y] = "none" <=> x < y
      BY NumberIsNatural
    <3>1. work[y] = "none" <=> Len(spawned) < y
      BY NumberIsNatural DEF IInv, WorkInv
    <3>2. work'[y] = IF y = x THEN "classifying" ELSE work[y]
      BY <2>3, NumberIsNatural DEF IInv, WorkInv
    <3> QED
      BY <2>2, <3>1, <3>2, NumberIsNatural
  <2>7. work' \in [Index -> {"none", "classifying", "stored", "done"}]
    BY <2>3 DEF IInv, WorkInv
  <2>8. x <= Number
    BY <2>2, NumberIsNatural
  <2> HIDE DEF x
  <2> QED
    BY <2>1, <2>5, <2>6, <2>7, <2>8 DEF IInv, WorkInv, Number, Index
<1>3. CASE SpawnDone
  <2>1. Len(keys) = Number /\ pc = "spawn"
    BY <1>3, KeysLength DEF IInv, SpawnDone
  <2> QED
    BY <1>3, <2>1 DEF IInv, WorkInv, SpawnDone, workers, Number
<1>4. CASE Wait
  BY <1>4 DEF IInv, WorkInv, Wait, workers
<1>5. ASSUME NEW x \in Index, WorkerStep(x) PROVE WorkInv'
  <2>1. CASE WorkerClassify(x)
    BY <2>1 DEF IInv, WorkInv, WorkerClassify
  <2>2. CASE WorkerStore(x) \/ WorkerDone(x)
    BY <1>5, <2>2 DEF IInv, WorkInv, WorkerStore, WorkerDone
  <2> QED
    BY <1>5, <2>1, <2>2 DEF WorkerStep
<1> QED
  BY <1>1, <1>2, <1>3, <1>4, <1>5 DEF Next, MarkStep

LEMMA GroupStep == ASSUME IInv, [Next]_vars PROVE GroupInv'
<1>1. CASE Collect \/ SortStep \/ SortDone \/ SpawnDone \/ Flatten \/ Ended \/ UNCHANGED vars
  <2>1. Running' = Running /\ wg' = wg
    BY <1>1 DEF Running, Collect, SortStep, SortDone, SpawnDone, Flatten, Ended, workers, vars
  <2>2. pc' \notin {"collect", "sort", "spawn", "wait"} =>
            pc \notin {"collect", "sort", "spawn", "wait"}
    BY <1>1 DEF IInv, KeysInv, Collect, SortStep, SortDone, SpawnDone, Flatten, Ended, vars
  <2> QED
    BY <2>1, <2>2 DEF IInv, GroupInv
<1>2. CASE Spawn
  <2> DEFINE x == Len(spawned) + 1
  <2>1. Len(keys) = Number /\ pc = "spawn" /\ pc' = pc
    BY <1>2, KeysLength DEF IInv, Spawn
  <2>2. Len(spawned) < x /\ x \in Index
    BY <1>2, <2>1, NumberIsNatural DEF IInv, WorkInv, Spawn
  <2>3. work' = [work EXCEPT ![x] = "classifying"] /\ wg' = wg + 1
    BY <1>2 DEF Spawn, AddOne
  <2>4. work[x] = "none"
    BY <2>2 DEF IInv, WorkInv
  <2> HIDE DEF x
  <2>5. Running' = Running \cup {x} /\ x \notin Running
    BY <2>2, <2>3, <2>4 DEF IInv, WorkInv, Running
  <2>6. Cardinality(Running') = Cardinality(Running) + 1
    BY <2>5, RunningIsFinite, FS_AddElement
  <2> QED
    BY <2>1, <2>3, <2>6 DEF IInv, GroupInv
<1>3. CASE Wait
  <2>1. Running' = Running /\ wg' = wg /\ wg = 0
    BY <1>3 DEF Wait, Running, workers
  <2> QED
    BY <2>1, RunningIsFinite DEF IInv, GroupInv
<1>4. ASSUME NEW x \in Index, WorkerClassify(x) PROVE GroupInv'
  BY <1>4 DEF WorkerClassify, IInv, GroupInv, Running
<1>5. ASSUME NEW x \in Index, WorkerStore(x) PROVE GroupInv'
  <2>1. Running' = Running
    BY <1>5 DEF WorkerStore, IInv, WorkInv, Running
  <2> QED
    BY <1>5, <2>1 DEF WorkerStore, IInv, GroupInv
<1>6. ASSUME NEW x \in Index, WorkerDone(x) PROVE GroupInv'
  <2>1. Running' = Running \ {x} /\ x \in Running
    BY <1>6 DEF WorkerDone, IInv, WorkInv, Running
  <2>2. Cardinality(Running') = Cardinality(Running) - 1
    BY <2>1, RunningIsFinite, FS_RemoveElement
  <2>3. pc \in {"collect", "sort", "spawn", "wait"}
    BY <2>1 DEF IInv, GroupInv
  <2> QED
    BY <1>6, <2>2, <2>3 DEF WorkerDone, ReleaseOne, IInv, GroupInv
<1> QED
  BY <1>1, <1>2, <1>3, <1>4, <1>5, <1>6 DEF Next, MarkStep, WorkerStep

LEMMA PlacedStep == ASSUME IInv, [Next]_vars PROVE PlacedInv'
<1>1. CASE Collect \/ SortStep \/ Wait \/ Flatten \/ Ended \/ UNCHANGED vars
  BY <1>1 DEF IInv, KeysInv, PlacedInv, Ascending, Collect, SortStep, Wait, Flatten, Ended,
              sorting, vars
<1>2. CASE SortDone
  <2>1. pc = "sort" \/ pc = "resort"
    BY <1>2 DEF SortDone
  <2>2. spawned' = spawned /\ keys' = keys
    BY <1>2 DEF SortDone, sorting
  <2>3. CASE pc = "sort"
    <3>1. pc' = "spawn" /\ Len(spawned) = 0
      BY <1>2, <2>3 DEF SortDone, IInv, WorkInv
    <3> QED
      BY <2>2, <3>1 DEF PlacedInv
  <2>4. CASE pc = "resort"
    <3>1. pc' = "flatten"
      BY <1>2, <2>4 DEF SortDone
    <3> QED
      BY <2>2, <2>4, <3>1 DEF IInv, PlacedInv, Ascending
  <2> QED
    BY <2>1, <2>3, <2>4
<1>3. CASE Spawn
  <2> DEFINE x == Len(spawned) + 1
  <2>1. /\ pc = "spawn" /\ pc' = pc /\ keys' = keys
        /\ spawned' = Append(spawned, keys[x])
        /\ spawned \in Seq(Elevation) /\ \A y \in 1..Len(spawned) : spawned[y] = keys[y]
    BY <1>3 DEF Spawn, sorting, IInv, WorkInv, PlacedInv
  <2>2. \A y \in 1..Len(spawned') : spawned'[y] = keys[y]
    BY <2>1
  <2> QED
    BY <2>1, <2>2 DEF PlacedInv
<1>4. CASE SpawnDone
  <2>1. /\ pc = "spawn" /\ pc' = "wait" /\ keys' = keys /\ spawned' = spawned
        /\ Len(spawned) = Len(keys)
    BY <1>4 DEF SpawnDone, sorting
  <2>2. Len(keys) = Number /\ keys \in [1..Number -> Elevation] /\ Number \in Nat
    BY <2>1, KeysLength, NumberIsNatural DEF IInv
  <2>3. spawned \in [1..Number -> Elevation] /\ \A y \in 1..Number : spawned[y] = keys[y]
    BY <2>1, <2>2 DEF IInv, WorkInv, PlacedInv
  <2>4. spawned = [y \in 1..Number |-> spawned[y]] /\ keys = [y \in 1..Number |-> keys[y]]
    BY <2>2, <2>3
  <2>5. spawned = keys
    BY <2>3, <2>4, Zenon
  <2>6. keys \in MapOrders /\ Ascending(keys)
    BY <2>1 DEF IInv, KeysInv, SortInv
  <2> QED
    BY <2>1, <2>5, <2>6 DEF PlacedInv
<1>5. ASSUME NEW x \in Index, WorkerStep(x) PROVE PlacedInv'
  BY <1>5 DEF IInv, PlacedInv, Ascending, WorkerStep, WorkerClassify, WorkerStore, WorkerDone,
              sorting
<1> QED
  BY <1>1, <1>2, <1>3, <1>4, <1>5 DEF Next, MarkStep

\* The group of a worker that was spawned.
LEMMA GroupOfWorker ==
    ASSUME WorkInv, NEW x \in Index, work[x] # "none"
    PROVE  /\ spawned[x] \in Elevation /\ x \in 1..Len(spawned)
           /\ Group[spawned[x]] \in Seq(Gate)
<1>1. Len(spawned) \in Nat /\ x \in Nat /\ 1 <= x /\ ~(Len(spawned) < x)
  BY NumberIsNatural DEF WorkInv
<1>2. x \in 1..Len(spawned)
  BY <1>1
<1>3. spawned[x] \in Elevation
  BY <1>2 DEF WorkInv
<1> QED
  BY <1>2, <1>3, WorkersAssumption

LEMMA ClassifyType == \A g \in Gate : Classify[g] \in Verdict
  BY WorkersAssumption

\* A step that leaves a worker and its group alone.
LEMMA DecUntouched ==
    ASSUME IInv, NEW x \in Index, work'[x] = work[x], dec'[x] = dec[x], results'[x] = results[x],
           work[x] # "none" => spawned'[x] = spawned[x]
    PROVE  Decisions(x)'
<1>1. Decisions(x)
  BY DEF IInv, DecInv
<1> QED
  BY <1>1 DEF Decided, Decisions

LEMMA DecStep == ASSUME IInv, [Next]_vars PROVE DecInv'
<1>0. /\ dec \in [Index -> Seq(Verdict)] /\ results \in [Index -> Seq(Verdict)]
      /\ work \in [Index -> {"none", "classifying", "stored", "done"}]
      /\ spawned \in Seq(Elevation)
  BY DEF IInv, DecInv, WorkInv
<1>1. CASE Collect \/ SortStep \/ SortDone \/ SpawnDone \/ Wait \/ Flatten \/ Ended
           \/ UNCHANGED vars
  <2>1. /\ work' = work /\ dec' = dec /\ results' = results /\ spawned' = spawned
    BY <1>1 DEF Collect, SortStep, SortDone, SpawnDone, Wait, Flatten, Ended, workers, vars
  <2>2. \A x \in Index : Decisions(x)'
    BY <2>1, DecUntouched
  <2> QED
    BY <1>0, <2>1, <2>2 DEF DecInv
<1>2. CASE Spawn
  <2>0. PICK y \in Nat : y = Len(spawned) + 1
    BY <1>0
  <2>1. Len(keys) = Number /\ keys \in [1..Number -> Elevation]
    BY <1>2, KeysLength DEF IInv, Spawn
  <2>2. y \in Index /\ Len(spawned) \in Nat /\ keys[y] \in Elevation
    BY <1>0, <1>2, <2>0, <2>1, NumberIsNatural DEF Spawn
  <2>3. /\ spawned' = Append(spawned, keys[y]) /\ work' = [work EXCEPT ![y] = "classifying"]
        /\ dec' = dec /\ results' = results
    BY <1>2, <2>0 DEF Spawn
  <2>4. spawned'[y] = keys[y] /\ \A x \in 1..Len(spawned) : spawned'[x] = spawned[x]
    BY <1>0, <2>0, <2>2, <2>3
  <2>5. work[y] = "none" /\ dec[y] = <<>>
    BY <1>0, <2>0, <2>2 DEF IInv, WorkInv, DecInv, Decisions
  <2>6. Decisions(y)'
    <3>1. Group[keys[y]] \in Seq(Gate)
      BY <2>2, WorkersAssumption
    <3>2. 0 \in 0..Len(Group[spawned'[y]])
      BY <2>4, <3>1
    <3>3. work'[y] = "classifying" /\ Len(dec'[y]) = 0
      BY <1>0, <2>2, <2>3, <2>5
    <3>4. \A m \in 1..0 : dec'[y][m] = Classify[Group[spawned'[y]][m]]
      OBVIOUS
    <3> QED
      BY <3>2, <3>3, <3>4 DEF Decisions, Decided
  <2>7. ASSUME NEW x \in Index, x # y PROVE Decisions(x)'
    <3>1. work'[x] = work[x]
      BY <1>0, <2>2, <2>3, <2>7
    <3>2. work[x] # "none" => spawned'[x] = spawned[x]
      BY <2>4, GroupOfWorker DEF IInv
    <3> QED
      BY <2>3, <3>1, <3>2, DecUntouched
  <2> QED
    BY <1>0, <2>3, <2>6, <2>7 DEF DecInv
<1>3. ASSUME NEW y \in Index, WorkerClassify(y) PROVE DecInv'
  <2>1. /\ work[y] = "classifying" /\ work' = work /\ spawned' = spawned /\ results' = results
        /\ Len(dec[y]) < Len(Group[spawned[y]])
        /\ dec' = [dec EXCEPT ![y] = Append(@, Classify[Group[spawned[y]][Len(@) + 1]])]
    BY <1>3 DEF WorkerClassify
  <2>2. PICK n \in 0..Len(Group[spawned[y]]) : Decided(y, n)
    BY <2>1 DEF IInv, DecInv, Decisions
  <2>3. Group[spawned[y]] \in Seq(Gate)
    BY <2>1, GroupOfWorker DEF IInv
  <2>4. n \in Nat /\ Len(dec[y]) = n /\ dec[y] \in Seq(Verdict) /\ n + 1 \in 1..Len(Group[spawned[y]])
    BY <1>0, <2>1, <2>2, <2>3 DEF Decided
  <2> DEFINE v == Classify[Group[spawned[y]][n + 1]]
  <2>5. v \in Verdict
    BY <2>3, <2>4, ClassifyType
  <2>6. dec'[y] = Append(dec[y], v)
    BY <1>0, <2>1, <2>4
  <2> HIDE DEF v
  <2>7. /\ dec'[y] \in Seq(Verdict) /\ Len(dec'[y]) = n + 1
        /\ dec'[y][n + 1] = v /\ \A m \in 1..n : dec'[y][m] = dec[y][m]
    BY <2>4, <2>5, <2>6
  <2>8. dec' \in [Index -> Seq(Verdict)]
    <3>1. dec' = [dec EXCEPT ![y] = Append(dec[y], v)]
      BY <1>0, <2>1, <2>4 DEF v
    <3> QED
      BY <1>0, <2>6, <2>7, <3>1
  <2>9. Decided(y, n + 1)'
    <3>1. \A m \in 1..n : dec[y][m] = Classify[Group[spawned[y]][m]]
      BY <2>2 DEF Decided
    <3> QED
      BY <2>1, <2>4, <2>7, <3>1 DEF Decided, v
  <2>10. Decisions(y)'
    BY <2>1, <2>4, <2>9 DEF Decisions
  <2>11. ASSUME NEW x \in Index, x # y PROVE Decisions(x)'
    <3>1. dec'[x] = dec[x]
      BY <1>0, <2>1, <2>11
    <3> QED
      BY <2>1, <3>1, DecUntouched
  <2> QED
    BY <1>0, <2>1, <2>8, <2>10, <2>11 DEF DecInv
<1>4. ASSUME NEW y \in Index, WorkerStore(y) PROVE DecInv'
  <2>1. /\ work[y] = "classifying" /\ work' = [work EXCEPT ![y] = "stored"]
        /\ spawned' = spawned /\ results' = [results EXCEPT ![y] = dec[y]] /\ dec' = dec
        /\ Len(dec[y]) = Len(Group[spawned[y]])
    BY <1>4 DEF WorkerStore, Store
  <2>2. PICK n \in 0..Len(Group[spawned[y]]) : Decided(y, n)
    BY <2>1 DEF IInv, DecInv, Decisions
  <2>3. Group[spawned[y]] \in Seq(Gate) /\ dec[y] \in Seq(Verdict)
    BY <1>0, <2>1, GroupOfWorker DEF IInv
  <2>4. \A m \in 1..Len(dec[y]) : dec[y][m] = Classify[Group[spawned[y]][m]]
    BY <2>2 DEF Decided
  <2>5. dec[y] = Image(Group[spawned[y]], Classify)
    <3>1. dec[y] = [m \in 1..Len(dec[y]) |-> dec[y][m]] /\ DOMAIN Group[spawned[y]] = 1..Len(dec[y])
      BY <2>1, <2>3
    <3>2. dec[y] = [m \in 1..Len(dec[y]) |-> Classify[Group[spawned[y]][m]]]
      BY <2>4, <3>1, Zenon
    <3> QED
      BY <3>1, <3>2, Zenon DEF Image
  <2>6. results' \in [Index -> Seq(Verdict)] /\ results'[y] = dec[y] /\ work'[y] = "stored"
    BY <1>0, <2>1, <2>3
  <2>7. Decisions(y)'
    BY <2>1, <2>5, <2>6 DEF Decisions
  <2>8. ASSUME NEW x \in Index, x # y PROVE Decisions(x)'
    <3>1. work'[x] = work[x] /\ results'[x] = results[x]
      BY <1>0, <2>1, <2>8
    <3> QED
      BY <2>1, <3>1, DecUntouched
  <2> QED
    BY <1>0, <2>1, <2>6, <2>7, <2>8 DEF DecInv
<1>5. ASSUME NEW y \in Index, WorkerDone(y) PROVE DecInv'
  <2>1. /\ work[y] = "stored" /\ work' = [work EXCEPT ![y] = "done"]
        /\ spawned' = spawned /\ results' = results /\ dec' = dec
    BY <1>5 DEF WorkerDone
  <2>2. work'[y] = "done" /\ results[y] = Image(Group[spawned[y]], Classify)
    BY <1>0, <2>1 DEF IInv, DecInv, Decisions
  <2>3. ASSUME NEW x \in Index, x # y PROVE Decisions(x)'
    <3>1. work'[x] = work[x]
      BY <1>0, <2>1, <2>3
    <3> QED
      BY <2>1, <3>1, DecUntouched
  <2>4. Decisions(y)'
    BY <2>1, <2>2 DEF Decisions
  <2> QED
    BY <1>0, <2>1, <2>3, <2>4 DEF DecInv
<1> QED
  BY <1>1, <1>2, <1>3, <1>4, <1>5 DEF Next, MarkStep, WorkerStep

Merged(s) == FlattenSeq([k \in Index |-> Group[s[k]]])

\* The two loops of the merge, on sorted keys and full results.
LEMMA MergeOfAll ==
    ASSUME NEW s \in MapOrders, NEW r \in [Index -> Seq(Verdict)],
           \A x \in Index : r[x] = Image(Group[s[x]], Classify)
    PROVE  /\ Merged(s) \in Seq(Gate) /\ ToSet(Merged(s)) = Gate
           /\ FlattenSeq(r) = Image(Merged(s), Classify)
           /\ FlattenSeq(r) \in Seq(Verdict)
<1> DEFINE t == [x \in Index |-> Group[s[x]]]
<1>1. s \in [1..Number -> Elevation] /\ Number \in Nat /\ Index = 1..Number
  BY OrdersAre, NumberIsNatural
<1>2. t \in [1..Number -> Seq(Gate)]
  BY <1>1, WorkersAssumption
<1>3. \A x \in 1..Number : t[x] = Group[s[x]] /\ r[x] = Image(t[x], Classify)
  BY <1>1
<1>4. \A u \in Seq(Gate) : Image(u, Classify) \in Seq(Verdict)
  <2> SUFFICES ASSUME NEW u \in Seq(Gate) PROVE Image(u, Classify) \in Seq(Verdict)
    OBVIOUS
  <2>1. DOMAIN u = 1..Len(u) /\ Len(u) \in Nat /\ \A m \in 1..Len(u) : u[m] \in Gate
    OBVIOUS
  <2>2. Image(u, Classify) \in [1..Len(u) -> Verdict]
    BY <2>1, ClassifyType DEF Image
  <2> QED
    BY <2>1, <2>2
<1>5. r \in [1..Number -> Seq(Verdict)] /\ Merged(s) = FlattenSeq(t)
  BY <1>1 DEF Merged
<1>6. CASE Number = 0
  <2>1. t = <<>> /\ r = <<>>
    BY <1>1, <1>2, <1>5, <1>6
  <2>2. FlattenSeq(<<>>) = <<>>
    BY DEF FlattenSeq
  <2>3. Merged(s) = <<>> /\ FlattenSeq(r) = <<>>
    BY <1>5, <2>1, <2>2
  <2>4. Elevation = {}
    BY <1>6, WorkersAssumption, FS_EmptySet DEF Number
  <2>5. Gate = {}
    BY <2>4 DEF Gate
  <2>6. <<>> \in Seq(Gate) /\ <<>> \in Seq(Verdict) /\ ToSet(<<>>) = {}
    BY DEF ToSet
  <2>7. Image(<<>>, Classify) = <<>>
    BY DEF Image
  <2> QED
    BY <2>3, <2>5, <2>6, <2>7
<1>7. CASE Number # 0
  <2>1. Number \in Nat \ {0}
    BY <1>1, <1>7
  <2> HIDE DEF t
  <2>2. /\ Merged(s) \in Seq(Gate)
        /\ \A x : x \in ToSet(Merged(s)) <=> \E m \in 1..Number : x \in ToSet(t[m])
    BY <1>2, <1>5, <2>1, FlattenElements
  <2>3. FlattenSeq(r) = Image(Merged(s), Classify)
    <3>1. \A x \in 1..Number : r[x] = Image(t[x], Classify)
      BY <1>3
    <3>2. FlattenSeq(r) = Image(FlattenSeq(t), Classify)
      <4>1. Number \in Nat \ {0} /\ t \in [1..Number -> Seq(Gate)] /\ r \in [1..Number -> Seq(Verdict)]
        BY <1>2, <1>5, <2>1
      <4>2. ImageOf(r, t, Classify, Number, Gate, Verdict)
        BY <3>1, <4>1 DEF ImageOf
      <4> QED
        BY <4>1, <4>2, FlattenImage
    <3> QED
      BY <1>5, <3>2
  <2>4. ASSUME NEW x PROVE x \in ToSet(Merged(s)) <=> x \in Gate
    <3>1. ASSUME NEW m \in 1..Number, x \in ToSet(t[m]) PROVE x \in Gate
      BY <1>1, <1>3, <3>1 DEF Gate
    <3>2. ASSUME x \in Gate PROVE \E m \in 1..Number : x \in ToSet(t[m])
      <4>1. PICK e \in Elevation : x \in ToSet(Group[e])
        BY <3>2 DEF Gate
      <4>2. PICK m \in 1..Number : s[m] = e
        BY OrdersAreComplete
      <4> QED
        BY <1>3, <4>1, <4>2
    <3> QED
      BY <2>2, <3>1, <3>2
  <2> QED
    BY <1>4, <2>2, <2>3, <2>4
<1> QED
  BY <1>6, <1>7

LEMMA MergeStep == ASSUME IInv, [Next]_vars PROVE MergeInv'
<1>0. ordered \in Seq(Gate) /\ flat \in Seq(Verdict) /\ MergedAlike
  BY DEF IInv, MergeInv
<1>1. CASE Flatten
  <2>1. /\ pc = "flatten"
        /\ ordered' = FlattenSeq([k \in DOMAIN keys |-> Group[keys[k]]])
        /\ flat' = FlattenSeq([x \in Index |-> results[x]])
    BY <1>1 DEF Flatten
  <2>2. keys \in MapOrders /\ Ascending(keys) /\ DOMAIN keys = Index
    BY <2>1, OrdersAre, NumberIsNatural DEF IInv, KeysInv, SortInv
  <2>3. spawned = keys
    BY <2>1, <2>2, AscendingUnique DEF IInv, PlacedInv
  <2>4. \A x \in Index : results[x] = Image(Group[keys[x]], Classify)
    <3> SUFFICES ASSUME NEW x \in Index PROVE results[x] = Image(Group[keys[x]], Classify)
      OBVIOUS
    <3>1. Running = {} /\ Len(spawned) = Number
      BY <2>1 DEF IInv, GroupInv, WorkInv
    <3>2. ~(Len(spawned) < x)
      BY <3>1, NumberIsNatural
    <3>3. work[x] = "done"
      BY <3>1, <3>2 DEF IInv, WorkInv, Running
    <3> QED
      BY <2>3, <3>3 DEF IInv, DecInv, Decisions
  <2>5. results = [x \in Index |-> results[x]] /\ results \in [Index -> Seq(Verdict)]
    BY DEF IInv, DecInv
  <2>6. ordered' = Merged(keys) /\ flat' = FlattenSeq(results)
    BY <2>1, <2>2, <2>5 DEF Merged
  <2>7. /\ ordered' \in Seq(Gate) /\ ToSet(ordered') = Gate
        /\ flat' = Image(ordered', Classify) /\ flat' \in Seq(Verdict)
    BY <2>2, <2>4, <2>5, <2>6, MergeOfAll
  <2>8. MergedAlike'
    <3>1. \E s \in MapOrders :
              Ascending(s) /\ ordered' = FlattenSeq([k \in Index |-> Group[s[k]]])
      BY <2>2, <2>6 DEF Merged
    <3> QED
      BY <2>7, <3>1 DEF MergedAlike, Image, Ascending
  <2> QED
    BY <2>7, <2>8 DEF MergeInv
<1>2. CASE Ended \/ UNCHANGED vars
  BY <1>0, <1>2 DEF MergeInv, MergedAlike, Ascending, Ended, vars, merged
<1>3. CASE Collect \/ SortStep \/ SortDone \/ Spawn \/ SpawnDone \/ Wait
  <2>1. pc' # "merged" /\ ordered' = ordered /\ flat' = flat
    BY <1>3 DEF Collect, SortStep, SortDone, Spawn, SpawnDone, Wait, merged
  <2> QED
    BY <1>0, <2>1 DEF MergeInv, MergedAlike
<1>4. ASSUME NEW x \in Index, WorkerStep(x) PROVE MergeInv'
  <2>1. pc' = pc /\ ordered' = ordered /\ flat' = flat
    BY <1>4 DEF WorkerStep, WorkerClassify, WorkerStore, WorkerDone, merged
  <2> QED
    BY <1>0, <2>1 DEF MergeInv, MergedAlike, Ascending
<1> QED
  BY <1>1, <1>2, <1>3, <1>4 DEF Next, MarkStep

-----------------------------------------------------------------------------
LEMMA Invariance == Spec => []IInv
<1>1. IInv /\ [Next]_vars => IInv'
  BY KeysStep, SortedStep, WorkStep, PlacedStep, GroupStep, DecStep, MergeStep DEF IInv
<1> QED
  BY <1>1, InitInv, PTL DEF Spec

\* Mark, its two sorts and its workers keep the types of their variables
\* (mark_service.go:90-119), among them the bounds of the WaitGroup's counter.
THEOREM TypeCorrect == Spec => []TypeOK
<1>1. IInv => TypeOK
  <2> SUFFICES ASSUME IInv PROVE TypeOK
    OBVIOUS
  <2>1. keys \in Seq(Elevation)
    <3>1. CASE pc = "collect"
      BY <3>1 DEF IInv, KeysInv
    <3>2. CASE pc # "collect"
      BY <3>2, KeysLength, NumberIsNatural DEF IInv
    <3> QED
      BY <3>1, <3>2
  <2>2. wg \in 0..Number
    <3>1. IsFiniteSet(Index) /\ Cardinality(Index) = Number
      BY NumberIsNatural, FS_Interval
    <3>2. Cardinality(Running) <= Number
      BY <3>1, FS_Subset DEF Running
    <3> QED
      BY <3>2, RunningIsFinite, NumberIsNatural DEF IInv, GroupInv
  <2> QED
    BY <2>1, <2>2 DEF IInv, KeysInv, WorkInv, DecInv, MergeInv, TypeOK, Number
<1> QED
  BY <1>1, Invariance, PTL

\* Once Mark has passed wg.Wait every worker has stored its decisions and ended
\* (mark_service.go:97-111), whatever order they ran in and however many there are.
THEOREM WaitIsSound == Spec => []NoReadBeforeDone
<1>1. IInv => NoReadBeforeDone
  <2> SUFFICES ASSUME IInv, pc \in {"recollect", "resort", "flatten", "merged"},
                      NEW x \in Index
               PROVE  work[x] = "done"
    BY DEF NoReadBeforeDone
  <2>1. Running = {} /\ Len(spawned) = Number
    BY DEF IInv, GroupInv, WorkInv
  <2>2. ~(Len(spawned) < x)
    BY <2>1, NumberIsNatural
  <2> QED
    BY <2>1, <2>2 DEF IInv, WorkInv, Running
<1> QED
  BY <1>1, Invariance, PTL

\* The merged pairs are those of a sequential classification in ascending order of
\* the elevations (mark_service.go:115-119), for any number of elevations and gates,
\* any two orders of the map and any interleaving of the workers.
THEOREM MergeIsSequential == Spec => []MergedAlike
<1>1. IInv => MergedAlike
  BY DEF IInv, MergeInv
<1> QED
  BY <1>1, Invariance, PTL
=============================================================================
