------------------------------ MODULE FrameFolds ------------------------------
(***************************************************************************)
(* What the two folds of Frames compute, the sum of the bytes of a         *)
(* sequence and the number it stands for, for sequences of any length.     *)
(*                                                                         *)
(* The library defines a fold as a function on sets of indices, which is   *)
(* chosen by its recursive equation.  So first such a function exists      *)
(* (FoldExists); then, whichever is chosen, its values on 1 .. k are those *)
(* of an accumulator that takes one element after the other.  Both need    *)
(* an induction, which is stated for sets (SetInduction) and comes from    *)
(* the well-foundedness of <.                                              *)
(***************************************************************************)
EXTENDS Frames, WellFoundedInduction, TLAPS

-----------------------------------------------------------------------------
(* Induction                                                               *)

Less == {p \in Nat \X Nat : p[1] < p[2]}

\* Induction on the natural numbers, for a set instead of a predicate: the
\* provers need not instantiate an operator.
LEMMA SetInduction ==
    ASSUME NEW S, 0 \in S, \A n \in Nat : n \in S => n + 1 \in S
    PROVE  \A n \in Nat : n \in S
<1> DEFINE T == Nat \ S
<1> SUFFICES ASSUME T # {} PROVE FALSE
  OBVIOUS
<1>1. T \subseteq Nat
  OBVIOUS
<1> HIDE DEF T
<1>2. IsWellFoundedOn(Less, Nat)
  BY NatLessThanWellFounded DEF OpToRel, Less
<1>3. PICK x \in T : \A y \in T : <<y, x>> \notin Less
  BY <1>1, <1>2, WFMin
<1>4. \A y \in T : ~ (y < x)
  BY <1>1, <1>3 DEF Less
<1>5. x \in Nat /\ x - 1 \in Nat
  BY <1>1 DEF T
<1>6. x - 1 \in S
  BY <1>4, <1>5 DEF T
<1> QED
  BY <1>5, <1>6 DEF T

-----------------------------------------------------------------------------
(* Folds                                                                   *)

\* One step of both folds of Frames: w is 1 in a sum, 256 in a big-endian number.
Mix(w, a, b) == IF w = 1 THEN a + b ELSE w * a + b

LEMMA MixInt == \A w, a, b \in Int : Mix(w, a, b) \in Int
BY DEF Mix

\* The function by which the library defines a fold, on the sets of indices.
Folded(w, s, it, n) ==
    it = [S \in SUBSET (1 .. n) |->
            IF S = {} THEN 0 ELSE Mix(w, it[S \ {Max(S)}], s[Max(S)])]

LEMMA MaxOfInterval ==
    ASSUME NEW n \in Nat, NEW S \in SUBSET (1 .. n + 1), n + 1 \in S
    PROVE  Max(S) = n + 1
<1>1. \A y \in S : n + 1 >= y
  OBVIOUS
<1>2. \A x \in S : (\A y \in S : x >= y) => x = n + 1
  OBVIOUS
<1> QED
  BY <1>1, <1>2 DEF Max

LEMMA FoldExists ==
    ASSUME NEW w \in Int, NEW s
    PROVE  \A n \in Nat : \E it : Folded(w, s, it, n)
<1> DEFINE N == {n \in Nat : \E it : Folded(w, s, it, n)}
<1>1. 0 \in N
  <2> DEFINE it == [S \in SUBSET (1 .. 0) |-> 0]
  <2>1. Folded(w, s, it, 0)
    <3>1. \A S \in SUBSET (1 .. 0) : S = {}
      OBVIOUS
    <3> QED
      BY <3>1 DEF Folded
  <2> QED
    BY <2>1
<1>2. ASSUME NEW n \in Nat, n \in N PROVE n + 1 \in N
  <2>1. PICK it : Folded(w, s, it, n)
    BY <1>2
  <2> DEFINE old == [S \in SUBSET (1 .. n) |-> it[S]]
             more == [S \in SUBSET (1 .. n + 1) |->
                        IF n + 1 \in S THEN Mix(w, it[S \ {n + 1}], s[n + 1]) ELSE it[S]]
             next(S) == IF S = {} THEN 0 ELSE Mix(w, more[S \ {Max(S)}], s[Max(S)])
  <2>2. ASSUME NEW S \in SUBSET (1 .. n + 1) PROVE more[S] = next(S)
    <3>1. CASE n + 1 \in S
      <4>1. Max(S) = n + 1
        BY <3>1, MaxOfInterval
      <4>2. S \ {n + 1} \in SUBSET (1 .. n + 1) /\ n + 1 \notin S \ {n + 1}
        OBVIOUS
      <4>3. more[S \ {n + 1}] = it[S \ {n + 1}]
        BY <4>2
      <4>4. more[S] = Mix(w, it[S \ {n + 1}], s[n + 1])
        BY <3>1
      <4> HIDE DEF more
      <4> QED
        BY <3>1, <4>1, <4>3, <4>4
    <3>2. CASE n + 1 \notin S
      <4>1. S \in SUBSET (1 .. n)
        BY <3>2
      <4>2. more[S] = it[S]
        BY <3>2
      <4>3. it[S] = IF S = {} THEN 0 ELSE Mix(w, it[S \ {Max(S)}], s[Max(S)])
        BY <2>1, <4>1, Zenon DEF Folded
      <4>4. n + 1 \notin S \ {Max(S)} /\ S \ {Max(S)} \in SUBSET (1 .. n + 1)
        BY <3>2
      <4>5. more[S \ {Max(S)}] = it[S \ {Max(S)}]
        BY <4>4
      <4> HIDE DEF more
      <4> QED
        BY <4>2, <4>3, <4>5
    <3> QED
      BY <3>1, <3>2
  <2>3. more = [S \in SUBSET (1 .. n + 1) |-> more[S]]
    OBVIOUS
  <2> HIDE DEF more
  <2>4. Folded(w, s, more, n + 1)
    BY <2>2, <2>3, Zenon DEF Folded
  <2> QED
    BY <2>4
<1> HIDE DEF N
<1>3. \A n \in Nat : n \in N
  BY <1>1, <1>2, SetInduction
<1> QED
  BY <1>3 DEF N

\* The accumulator of a fold after each element.
Accumulates(w, s, t) ==
    /\ t[0] = 0
    /\ \A k \in 1 .. Len(s) : t[k] = Mix(w, t[k - 1], s[k])
    /\ \A k \in 0 .. Len(s) : t[k] \in Int

LEMMA FoldedAccumulates ==
    ASSUME NEW w \in Int, NEW s \in Seq(Int), NEW it, Folded(w, s, it, Len(s))
    PROVE  \E t : Accumulates(w, s, t) /\ it[1 .. Len(s)] = t[Len(s)]
<1> DEFINE n == Len(s)
           t == [k \in 0 .. n |-> it[1 .. k]]
           N == {k \in Nat : k <= n => t[k] \in Int}
<1>0. n \in Nat /\ \A k \in 1 .. n : s[k] \in Int
  OBVIOUS
<1>1. t[0] = 0
  <2>1. t[0] = it[1 .. 0]
    BY <1>0
  <2>2. 1 .. 0 = {} /\ {} \in SUBSET (1 .. n)
    OBVIOUS
  <2> QED
    BY <2>1, <2>2 DEF Folded
<1>2. ASSUME NEW k \in 1 .. n PROVE t[k] = Mix(w, t[k - 1], s[k])
  <2>1. k - 1 \in Nat /\ k = (k - 1) + 1 /\ k \in 1 .. k /\ 1 .. k \in SUBSET (1 .. n)
    BY <1>0
  <2>2. Max(1 .. k) = k
    <3>1. \A x \in 1 .. k : (\A y \in 1 .. k : x >= y) <=> x = k
      OBVIOUS
    <3> QED
      BY <2>1, <3>1 DEF Max
  <2>3. (1 .. k) \ {k} = 1 .. k - 1 /\ 1 .. k # {}
    <3>1. k \in Int
      BY <2>1
    <3>2. \A x : x \in (1 .. k) \ {k} <=> x \in 1 .. k - 1
      BY <3>1
    <3> QED
      BY <2>1, <3>2
  <2>4. it[1 .. k] = Mix(w, it[1 .. k - 1], s[k])
    <3>1. it[1 .. k] = IF 1 .. k = {} THEN 0 ELSE Mix(w, it[(1 .. k) \ {Max(1 .. k)}], s[Max(1 .. k)])
      BY <2>1, Zenon DEF Folded
    <3> QED
      BY <2>2, <2>3, <3>1, Zenon
  <2>5. t[k] = it[1 .. k] /\ t[k - 1] = it[1 .. k - 1]
    BY <1>0
  <2> QED
    BY <2>4, <2>5
<1>3. t[n] = it[1 .. n]
  BY <1>0
<1> HIDE DEF t, n
<1>4. 0 \in N
  BY <1>1
<1>5. ASSUME NEW k \in Nat, k \in N PROVE k + 1 \in N
  <2> SUFFICES ASSUME k + 1 <= n PROVE t[k + 1] \in Int
    OBVIOUS
  <2>1. k + 1 \in 1 .. n /\ (k + 1) - 1 = k
    BY <1>0
  <2>2. t[k + 1] = Mix(w, t[k], s[k + 1])
    BY <1>2, <2>1
  <2>3. t[k] \in Int /\ s[k + 1] \in Int
    BY <1>0, <1>5, <2>1
  <2> QED
    BY <2>2, <2>3, MixInt
<1> HIDE DEF N
<1>6. \A k \in Nat : k \in N
  BY <1>4, <1>5, SetInduction
<1>7. \A k \in 0 .. n : t[k] \in Int
  BY <1>0, <1>6 DEF N
<1> QED
  BY <1>1, <1>2, <1>3, <1>7 DEF Accumulates, n

-----------------------------------------------------------------------------
(* The two folds of Frames                                                 *)

\* The base of a big-endian number, under a name.
Base == 256

\* What they compute: the last value of their accumulator.
LEMMA SumAccumulates ==
    ASSUME NEW s \in Seq(Int)
    PROVE  \E t : Accumulates(1, s, t) /\ Sum(s) = t[Len(s)]
<1> DEFINE Eq(it) == it = [S \in SUBSET (DOMAIN s) |->
                             IF S = {} THEN 0 ELSE it[S \ {Max(S)}] + s[Max(S)]]
<1>1. DOMAIN s = 1 .. Len(s) /\ Len(s) \in Nat
  OBVIOUS
<1>2. ASSUME NEW it PROVE Eq(it) <=> Folded(1, s, it, Len(s))
  <2>1. ASSUME NEW S
        PROVE  it[S \ {Max(S)}] + s[Max(S)] = Mix(1, it[S \ {Max(S)}], s[Max(S)])
    BY DEF Mix
  <2> QED
    BY <1>1, <2>1, Zenon DEF Folded
<1>3. \E it : Eq(it)
  <2>1. \E it : Folded(1, s, it, Len(s))
    <3>1. 1 \in Int
      OBVIOUS
    <3> QED
      BY <1>1, <3>1, FoldExists, Zenon
  <2> QED
    BY <1>2, <2>1, Zenon
<1>4. \E it : Eq(it) /\ Sum(s) = it[DOMAIN s]
  BY <1>3, Zenon DEF Sum, FoldLeft, MapThenFoldSet
<1>5. PICK it : Folded(1, s, it, Len(s)) /\ Sum(s) = it[1 .. Len(s)]
  BY <1>1, <1>2, <1>4, Zenon
<1>6. 1 \in Int
  OBVIOUS
<1> QED
  BY <1>5, <1>6, FoldedAccumulates, Zenon

LEMMA BigEndianAccumulates ==
    ASSUME NEW s \in Seq(Int)
    PROVE  \E t : Accumulates(Base, s, t) /\ BigEndian(s) = t[Len(s)]
<1> DEFINE Eq(it) == it = [S \in SUBSET (DOMAIN s) |->
                             IF S = {} THEN 0 ELSE Base * it[S \ {Max(S)}] + s[Max(S)]]
<1>1. DOMAIN s = 1 .. Len(s) /\ Len(s) \in Nat
  OBVIOUS
<1>2. ASSUME NEW it PROVE Eq(it) <=> Folded(Base, s, it, Len(s))
  <2>1. ASSUME NEW S
        PROVE  Base * it[S \ {Max(S)}] + s[Max(S)] = Mix(Base, it[S \ {Max(S)}], s[Max(S)])
    BY DEF Mix, Base
  <2> QED
    BY <1>1, <2>1, Zenon DEF Folded
<1>3. \E it : Eq(it)
  <2>1. \E it : Folded(Base, s, it, Len(s))
    <3>1. Base \in Int
      BY DEF Base
    <3> QED
      BY <1>1, <3>1, FoldExists, Zenon
  <2> QED
    BY <1>2, <2>1, Zenon
<1>4. \E it : Eq(it) /\ BigEndian(s) = it[DOMAIN s]
  BY <1>3, Zenon DEF BigEndian, Base, FoldLeft, MapThenFoldSet
<1>5. PICK it : Folded(Base, s, it, Len(s)) /\ BigEndian(s) = it[1 .. Len(s)]
  BY <1>1, <1>2, <1>4, Zenon
<1>6. Base \in Int
  BY DEF Base
<1> QED
  BY <1>5, <1>6, FoldedAccumulates, Zenon

LEMMA SumIsInt == \A s \in Seq(Int) : Sum(s) \in Int
<1> SUFFICES ASSUME NEW s \in Seq(Int) PROVE Sum(s) \in Int
  OBVIOUS
<1>1. Len(s) \in 0 .. Len(s)
  OBVIOUS
<1> QED
  BY <1>1, SumAccumulates DEF Accumulates

\* Raising one element raises the sum by as much.
LEMMA SumRaised ==
    ASSUME NEW s \in Seq(Int), NEW t \in Seq(Int), Len(t) = Len(s), NEW d \in Int,
           NEW p \in 1 .. Len(s), t[p] = s[p] + d,
           \A k \in 1 .. Len(s) : k # p => t[k] = s[k]
    PROVE  Sum(t) = Sum(s) + d
<1>1. PICK a : Accumulates(1, s, a) /\ Sum(s) = a[Len(s)]
  BY SumAccumulates
<1>2. PICK b : Accumulates(1, t, b) /\ Sum(t) = b[Len(s)]
  BY SumAccumulates
<1> DEFINE n == Len(s)
           N == {k \in Nat : k <= n => b[k] = a[k] + (IF k >= p THEN d ELSE 0)}
<1>3. n \in Nat /\ p \in 1 .. n
  OBVIOUS
<1>4. 0 \in N
  BY <1>1, <1>2, <1>3 DEF Accumulates
<1>5. ASSUME NEW k \in Nat, k \in N PROVE k + 1 \in N
  <2> SUFFICES ASSUME k + 1 <= n PROVE b[k + 1] = a[k + 1] + (IF k + 1 >= p THEN d ELSE 0)
    OBVIOUS
  <2>1. k + 1 \in 1 .. n /\ (k + 1) - 1 = k /\ k \in 0 .. n
    BY <1>3
  <2>2. a[k + 1] = a[k] + s[k + 1] /\ b[k + 1] = b[k] + t[k + 1] /\ a[k] \in Int
    <3>1. a[k + 1] = Mix(1, a[k], s[k + 1]) /\ b[k + 1] = Mix(1, b[k], t[k + 1]) /\ a[k] \in Int
      BY <1>1, <1>2, <2>1 DEF Accumulates
    <3> QED
      BY <3>1 DEF Mix
  <2>3. b[k] = a[k] + (IF k >= p THEN d ELSE 0)
    BY <1>3, <1>5, <2>1
  <2>4. s[k + 1] \in Int /\ t[k + 1] = IF k + 1 = p THEN s[k + 1] + d ELSE s[k + 1]
    BY <2>1
  <2> QED
    BY <1>3, <2>2, <2>3, <2>4
<1> HIDE DEF N
<1>6. \A k \in Nat : k \in N
  BY <1>4, <1>5, SetInduction
<1> QED
  BY <1>1, <1>2, <1>3, <1>6 DEF N

\* A number of at most four bytes, written out.
LEMMA BigEndianIs ==
    ASSUME NEW s \in Seq(Int)
    PROVE  /\ Len(s) = 1 => BigEndian(s) = s[1]
           /\ Len(s) = 2 => BigEndian(s) = 256 * s[1] + s[2]
           /\ Len(s) = 3 => BigEndian(s) = 65536 * s[1] + 256 * s[2] + s[3]
           /\ Len(s) = 4 => BigEndian(s) = 16777216 * s[1] + 65536 * s[2] + 256 * s[3] + s[4]
<1>1. PICK t : Accumulates(Base, s, t) /\ BigEndian(s) = t[Len(s)]
  BY BigEndianAccumulates
<1>2. /\ t[0] = 0
      /\ \A k \in 1 .. Len(s) : t[k] = 256 * t[k - 1] + s[k] /\ s[k] \in Int
  <2>1. t[0] = 0 /\ \A k \in 1 .. Len(s) : s[k] \in Int
    BY <1>1 DEF Accumulates
  <2>2. ASSUME NEW k \in 1 .. Len(s) PROVE t[k] = 256 * t[k - 1] + s[k]
    <3>1. t[k] = Mix(Base, t[k - 1], s[k])
      BY <1>1 DEF Accumulates
    <3> QED
      BY <3>1 DEF Mix, Base
  <2> QED
    BY <2>1, <2>2
<1>3. CASE Len(s) = 1
  BY <1>1, <1>2, <1>3
<1>4. CASE Len(s) = 2
  <2>1. t[1] = s[1] /\ t[2] = 256 * t[1] + s[2]
    BY <1>2, <1>4
  <2> QED
    BY <1>1, <1>4, <2>1
<1>5. CASE Len(s) = 3
  <2>1. t[1] = s[1] /\ t[2] = 256 * t[1] + s[2] /\ t[3] = 256 * t[2] + s[3]
    BY <1>2, <1>5
  <2> QED
    BY <1>1, <1>2, <1>5, <2>1
<1>6. CASE Len(s) = 4
  <2>1. /\ t[1] = s[1] /\ t[2] = 256 * t[1] + s[2] /\ t[3] = 256 * t[2] + s[3]
        /\ t[4] = 256 * t[3] + s[4]
    BY <1>2, <1>6
  <2> QED
    BY <1>1, <1>2, <1>6, <2>1
<1> QED
  BY <1>3, <1>4, <1>5, <1>6
=============================================================================
