-------------------------------- MODULE Lemmas ------------------------------
(***************************************************************************)
(* Facts about numbers, sums and sequences that several proofs need.        *)
(***************************************************************************)
EXTENDS Integers, Sequences, FiniteSets, WellFoundedInduction, FiniteSetTheorems,
        SequenceTheorems, TLAPS

\* A set of numbers that is not empty has a least element.
LEMMA LeastNumber ==
  ASSUME NEW T, T \subseteq Nat, T # {}
  PROVE  \E x \in T : \A y \in T : x <= y
<1>1. IsWellFoundedOn(OpToRel(<, Nat), Nat)
  BY NatLessThanWellFounded
<1>2. PICK x \in T : \A y \in T : ~ (<<y, x>> \in OpToRel(<, Nat))
  BY <1>1, WFMin
<1>3. \A y \in T : ~ (y < x)
  BY <1>2 DEF OpToRel
<1> QED
  BY <1>3

\* Induction, for a property given as the set of the numbers that have it.
LEMMA Induction ==
  ASSUME NEW S, 0 \in S, \A n \in Nat : n \in S => n + 1 \in S
  PROVE  \A n \in Nat : n \in S
<1> SUFFICES ASSUME Nat \ S # {} PROVE FALSE
  OBVIOUS
<1>1. PICK x \in Nat \ S : \A y \in Nat \ S : x <= y
  BY LeastNumber
<1>2. x # 0
  BY <1>1
<1>3. x - 1 \in Nat /\ ~(x <= x - 1)
  BY <1>2
<1> QED
  BY <1>1, <1>3

\* A function defined by recursion on a number up to N, and what it gives ...
IsRecursion(g, base, step, N) ==
  g = [k \in 0 .. N |-> IF k = 0 THEN base ELSE step[<<k, g[k - 1]>>]]

\* ... exists, when the values it steps through stay in a set.
LEMMA Recursion ==
  ASSUME NEW V, NEW base \in V, NEW N \in Nat, NEW step \in [(1 .. N) \X V -> V]
  PROVE  \E g : IsRecursion(g, base, step, N) /\ g \in [0 .. N -> V]
<1> DEFINE S == {n \in Nat : n <= N =>
                   \E g : IsRecursion(g, base, step, n) /\ g \in [0 .. n -> V]}
<1>1. 0 \in S
  <2> DEFINE g == [k \in 0 .. 0 |-> base]
  <2>1. IsRecursion(g, base, step, 0) /\ g \in [0 .. 0 -> V]
    BY DEF IsRecursion
  <2> QED
    BY <2>1
<1>2. ASSUME NEW n \in Nat, n \in S PROVE n + 1 \in S
  <2>1. SUFFICES ASSUME n + 1 <= N
                 PROVE  \E g : IsRecursion(g, base, step, n + 1) /\ g \in [0 .. n + 1 -> V]
    OBVIOUS
  <2>2. PICK g : IsRecursion(g, base, step, n) /\ g \in [0 .. n -> V]
    BY <1>2, <2>1
  <2> DEFINE h == [k \in 0 .. n + 1 |-> IF k <= n THEN g[k] ELSE step[<<n + 1, g[n]>>]]
  <2>3. step[<<n + 1, g[n]>>] \in V
    BY <2>1, <2>2
  <2>4. h \in [0 .. n + 1 -> V]
    BY <2>2, <2>3
  <2>5. ASSUME NEW k \in 0 .. n + 1
        PROVE  h[k] = IF k = 0 THEN base ELSE step[<<k, h[k - 1]>>]
    <3>1. CASE k = n + 1
      <4>1. k # 0 /\ k - 1 = n /\ ~(k <= n)
        BY <3>1
      <4>2. h[k] = step[<<n + 1, g[n]>>] /\ h[n] = g[n]
        BY <3>1
      <4> QED
        BY <3>1, <4>1, <4>2
    <3>2. CASE k \in 0 .. n
      <4>1. g[k] = IF k = 0 THEN base ELSE step[<<k, g[k - 1]>>]
        BY <2>2, <3>2 DEF IsRecursion
      <4>2. h[k] = g[k] /\ (k # 0 => h[k - 1] = g[k - 1])
        BY <3>2
      <4> QED
        BY <4>1, <4>2
    <3> QED
      BY <3>1, <3>2
  <2>6. h = [k \in 0 .. n + 1 |-> h[k]]
    OBVIOUS
  <2> HIDE DEF h
  <2>7. IsRecursion(h, base, step, n + 1)
    BY <2>5, <2>6 DEF IsRecursion
  <2> QED
    BY <2>4, <2>7
<1> HIDE DEF S
<1>3. N \in S
  BY <1>1, <1>2, Induction
<1> QED
  BY <1>3 DEF S

\* A number above all those of a set is counted last.
LEMMA CountNext ==
  ASSUME NEW L \in Nat, NEW S, S \subseteq 1 .. L
  PROVE  /\ Cardinality(S) \in Nat
         /\ Cardinality(S \cup {L + 1}) = Cardinality(S) + 1
         /\ Cardinality({j \in S \cup {L + 1} : j <= L + 1}) = Cardinality(S) + 1
         /\ \A i \in S : /\ Cardinality({j \in S : j <= i}) <= Cardinality(S)
                         /\ {j \in S \cup {L + 1} : j <= i} = {j \in S : j <= i}
<1>1. IsFiniteSet(1 .. L)
  BY FS_Interval
<1>2. IsFiniteSet(S) /\ Cardinality(S) \in Nat
  BY <1>1, FS_Subset, FS_CardinalityType
<1>3. Cardinality(S \cup {L + 1}) = Cardinality(S) + 1
  <2>1. L + 1 \notin S
    OBVIOUS
  <2> QED
    BY <1>2, <2>1, FS_AddElement
<1>4. {j \in S \cup {L + 1} : j <= L + 1} = S \cup {L + 1}
  <2>1. \A j \in S \cup {L + 1} : j \in 1 .. L \/ j = L + 1
    OBVIOUS
  <2>2. \A j \in S \cup {L + 1} : j <= L + 1
    BY <2>1
  <2> QED
    BY <2>2
<1>5. ASSUME NEW i \in S
      PROVE  /\ Cardinality({j \in S : j <= i}) <= Cardinality(S)
             /\ {j \in S \cup {L + 1} : j <= i} = {j \in S : j <= i}
  <2>1. {j \in S : j <= i} \subseteq S
    OBVIOUS
  <2>2. Cardinality({j \in S : j <= i}) <= Cardinality(S)
    BY <1>2, <2>1, FS_Subset
  <2>3. {j \in S \cup {L + 1} : j <= i} = {j \in S : j <= i}
    OBVIOUS
  <2> QED
    BY <2>2, <2>3
<1> QED
  BY <1>2, <1>3, <1>4, <1>5

\* Three things are one just when they are the same.
LEMMA OneOfThree ==
  ASSUME NEW a, NEW b, NEW c
  PROVE  Cardinality({a, b, c}) = 1 <=> a = b /\ b = c
<1>1. IsFiniteSet({a})
  BY FS_Singleton
<1>2. IsFiniteSet({a} \cup {b})
  BY <1>1, FS_AddElement
<1>3. IsFiniteSet(({a} \cup {b}) \cup {c})
  BY <1>2, FS_AddElement
<1>4. {a, b, c} = ({a} \cup {b}) \cup {c}
  OBVIOUS
<1>5. Cardinality({a, b, c}) = 1 <=> \E x : {a, b, c} = {x}
  BY <1>3, <1>4, FS_Singleton
<1>6. (\E x : {a, b, c} = {x}) <=> a = b /\ b = c
  OBVIOUS
<1> QED
  BY <1>5, <1>6

\* A name for the concatenation, which keeps the provers from taking it apart.
IsConcat(c, a, b) == c = a \o b

\* Its elements are those of the one and then those of the other.
LEMMA ConcatIs ==
  ASSUME NEW S, NEW a \in Seq(S), NEW b \in Seq(S), NEW c, IsConcat(c, a, b)
  PROVE  /\ c \in Seq(S) /\ Len(c) = Len(a) + Len(b)
         /\ \A k \in 1 .. Len(c) : c[k] = IF k <= Len(a) THEN a[k] ELSE b[k - Len(a)]
BY ConcatProperties DEF IsConcat
=============================================================================
