------------------------------ MODULE Extrema -------------------------------
(***************************************************************************)
(* What several proofs need of numbers and lists: least and greatest       *)
(* elements of sets of natural numbers, as Min and Max of the community    *)
(* modules choose them; induction, by the least counterexample, which      *)
(* needs no operator parameter; and what a fold over a list returns.       *)
(***************************************************************************)
EXTENDS Integers, FiniteSets, FiniteSetsExt, FiniteSetTheorems, WellFoundedInduction, TLAPS

\* Every nonempty set of naturals has a least element.
LEMMA LeastExists ==
  ASSUME NEW S \in SUBSET Nat, S # {}
  PROVE  \E m \in S : \A n \in S : m <= n
<1> DEFINE R == {ss \in Nat \X Nat : ss[1] < ss[2]}
<1>1. IsWellFoundedOn(R, Nat)
  BY NatLessThanWellFounded DEF OpToRel
<1>2. \A m, n \in Nat : <<n, m>> \in R <=> n < m
  OBVIOUS
<1>3. \E m \in S : \A n \in S : ~(<<n, m>> \in R)
  <2> HIDE DEF R
  <2> QED
    BY <1>1, WFMin
<1>4. PICK m \in S : \A n \in S : ~(<<n, m>> \in R)
  BY <1>3
<1>5. ASSUME NEW n \in S PROVE m <= n
  <2>1. ~(n < m)
    BY <1>2, <1>4
  <2> QED
    BY <2>1
<1> QED
  BY <1>5

\* Min, which picks the next pending migration and the next schema module
\* (plan.rs, apply_inner), picks that element.
LEMMA MinIsLeast ==
  ASSUME NEW S \in SUBSET Nat, S # {}
  PROVE  Min(S) \in S /\ \A n \in S : Min(S) <= n
  BY LeastExists DEF Min

\* Every nonempty finite set of naturals has a greatest element.
LEMMA GreatestExists ==
  ASSUME NEW S \in SUBSET Nat, S # {}, IsFiniteSet(S)
  PROVE  \E m \in S : \A n \in S : m >= n
<1> DEFINE Bounded(T) == \E m \in T : \A n \in T : m >= n
           Bad == {n \in Nat : \E T \in SUBSET S : T # {} /\ ~Bounded(T) /\ Cardinality(T) = n}
<1> SUFFICES ASSUME Bad # {} PROVE FALSE
  <2>1. Cardinality(S) \in Nat
    BY FS_CardinalityType
  <2> QED
    BY <2>1
<1>1. PICK n \in Bad : \A k \in Bad : n <= k
  BY LeastExists
<1>2. PICK T \in SUBSET S : T # {} /\ ~Bounded(T) /\ Cardinality(T) = n
  OBVIOUS
<1>3. PICK e \in T : TRUE
  BY <1>2
<1>4. IsFiniteSet(T) /\ IsFiniteSet(T \ {e}) /\ Cardinality(T \ {e}) = n - 1 /\ n - 1 \in Nat
  <2>1. IsFiniteSet(T)
    BY FS_Subset
  <2>2. IsFiniteSet(T \ {e}) /\ Cardinality(T \ {e}) = n - 1
    BY <2>1, <1>2, FS_RemoveElement
  <2> QED
    BY <2>1, <2>2, FS_CardinalityType
<1>5. T \ {e} # {}
  <2> SUFFICES ASSUME T = {e} PROVE FALSE
    BY <1>3
  <2> QED
    BY <1>2
<1>6. Bounded(T \ {e})
  <2> SUFFICES ASSUME ~Bounded(T \ {e}) PROVE FALSE
    OBVIOUS
  <2>1. n - 1 \in Bad
    BY <1>4, <1>5
  <2> QED
    BY <1>1, <2>1, <1>4
<1> QED
  BY <1>2, <1>3, <1>6

\* Max, which picks the next version to roll back (plan.rs, rollback), picks
\* that element.
LEMMA MaxIsGreatest ==
  ASSUME NEW S \in SUBSET Nat, S # {}, IsFiniteSet(S)
  PROVE  Max(S) \in S /\ \A n \in S : Max(S) >= n
  BY GreatestExists DEF Max

-----------------------------------------------------------------------------
\* Induction over the naturals, for a set.
LEMMA EveryNatural ==
  ASSUME NEW S, 0 \in S, \A n \in Nat : n \in S => n + 1 \in S
  PROVE  Nat \subseteq S
<1> DEFINE T == {n \in Nat : n \notin S}
<1> SUFFICES ASSUME T # {} PROVE FALSE
  OBVIOUS
<1>1. PICK n \in T : \A m \in T : n <= m
  <2>1. T \in SUBSET Nat
    OBVIOUS
  <2> HIDE DEF T
  <2> QED
    BY <2>1, LeastExists
<1>2. n \in Nat \ {0} /\ n - 1 \in Nat /\ (n - 1) + 1 = n /\ n \notin S
  OBVIOUS
<1>3. n - 1 \notin T
  BY <1>1, <1>2
<1> QED
  BY <1>2, <1>3

\* A nonempty set of positions has a last one.
LEMMA LastPosition ==
  ASSUME NEW n \in Nat, NEW s \in SUBSET (1..n), s # {}
  PROVE  /\ Max(s) \in s /\ Max(s) \in 1..n /\ \A i \in s : i <= Max(s)
         /\ s \ {Max(s)} \in SUBSET (1..(Max(s) - 1)) /\ s \ {Max(s)} \in SUBSET (1..n)
<1>1. IsFiniteSet(1..n)
  BY FS_Interval
<1>2. IsFiniteSet(s)
  BY <1>1, FS_Subset
<1>3. s \in SUBSET Nat
  OBVIOUS
<1>4. PICK m : m = Max(s)
  OBVIOUS
<1>5. m \in s /\ \A i \in s : m >= i
  BY <1>2, <1>3, <1>4, MaxIsGreatest
<1>6. m \in 1..n /\ m \in Nat /\ s \subseteq 1..n
  BY <1>5
<1>7. ASSUME NEW i \in s \ {m} PROVE i \in 1..(m - 1)
  <2>1. i \in Nat /\ i >= 1 /\ m >= i /\ i # m
    BY <1>5, <1>6
  <2> QED
    BY <1>6, <2>1
<1>8. \A i \in s : i <= m
  BY <1>3, <1>5, <1>6
<1>9. s \ {m} \in SUBSET (1..(m - 1)) /\ s \ {m} \in SUBSET (1..n)
  BY <1>7
<1> QED
  BY <1>4, <1>5, <1>6, <1>8, <1>9

\* How MapThenFoldSet goes through the positions of a list, for an operation
\* given as a function.
IsFold(g, n, B, base, step) ==
  /\ g \in [SUBSET (1..n) -> B]
  /\ \A s \in SUBSET (1..n) :
       g[s] = IF s = {} THEN base ELSE step[<<Max(s), g[s \ {Max(s)}]>>]

\* There is such a function that it can choose.
LEMMA FoldExists ==
  ASSUME NEW n \in Nat, NEW B, NEW base \in B, NEW step \in [(1..n) \X B -> B]
  PROVE  \E g : IsFold(g, n, B, base, step)
<1> DEFINE Unfolds(k, g) ==
             \A s \in SUBSET (1..k) :
               g[s] = IF s = {} THEN base ELSE step[<<Max(s), g[s \ {Max(s)}]>>]
           Has(k) == k <= n => \E g \in [SUBSET (1..k) -> B] : Unfolds(k, g)
           Good == {k \in Nat : Has(k)}
<1>1. Has(0)
  <2> DEFINE g == [s \in SUBSET (1..0) |-> base]
  <2>1. \A s \in SUBSET (1..0) : s = {}
    OBVIOUS
  <2>2. g \in [SUBSET (1..0) -> B] /\ \A s \in SUBSET (1..0) : g[s] = base
    OBVIOUS
  <2>3. Unfolds(0, g)
    BY <2>1, <2>2
  <2> QED
    BY <2>2, <2>3
<1>2. ASSUME NEW k \in Nat, Has(k) PROVE Has(k + 1)
  <2> SUFFICES ASSUME k + 1 <= n PROVE \E g \in [SUBSET (1..(k + 1)) -> B] : Unfolds(k + 1, g)
    OBVIOUS
  <2>a. k <= n
    OBVIOUS
  <2>1. PICK h \in [SUBSET (1..k) -> B] : Unfolds(k, h)
    <3> HIDE DEF Unfolds
    <3> QED
      BY <1>2, <2>a
  <2> DEFINE g == [s \in SUBSET (1..(k + 1)) |->
                     IF k + 1 \in s THEN step[<<k + 1, h[s \ {k + 1}]>>] ELSE h[s]]
  <2>2. \A s \in SUBSET (1..(k + 1)) : s \ {k + 1} \in SUBSET (1..k) /\ (k + 1 \notin s => s \in SUBSET (1..k))
    OBVIOUS
  <2>3. k + 1 \in 1..n
    OBVIOUS
  <2>4. g \in [SUBSET (1..(k + 1)) -> B]
    BY <2>2, <2>3
  <2>5. \A s \in SUBSET (1..k) : s \in SUBSET (1..(k + 1)) /\ k + 1 \notin s /\ g[s] = h[s]
    OBVIOUS
  <2>6. ASSUME NEW s \in SUBSET (1..(k + 1)), k + 1 \in s
        PROVE  g[s] = step[<<Max(s), g[s \ {Max(s)}]>>] /\ s # {}
    <3>1. Max(s) = k + 1
      BY <2>6, LastPosition
    <3>2. g[s] = step[<<k + 1, h[s \ {k + 1}]>>] /\ g[s \ {k + 1}] = h[s \ {k + 1}]
      BY <2>2, <2>5, <2>6
    <3> QED
      BY <2>6, <3>1, <3>2
  <2>7. ASSUME NEW s \in SUBSET (1..k), s # {}
        PROVE  g[s] = step[<<Max(s), g[s \ {Max(s)}]>>]
    <3>1. s \ {Max(s)} \in SUBSET (1..k)
      BY <2>7, LastPosition
    <3>2. h[s] = step[<<Max(s), h[s \ {Max(s)}]>>]
      BY <2>1, <2>7
    <3>3. g[s] = h[s] /\ g[s \ {Max(s)}] = h[s \ {Max(s)}]
      BY <2>5, <3>1
    <3> QED
      BY <3>2, <3>3
  <2>8. g[{}] = base
    <3>1. h[{}] = base
      BY <2>1
    <3> QED
      BY <2>5, <3>1
  <2> HIDE DEF g
  <2>9. Unfolds(k + 1, g)
    BY <2>2, <2>6, <2>7, <2>8
  <2> QED
    BY <2>4, <2>9
<1> HIDE DEF Has
<1>3. 0 \in Good /\ \A k \in Nat : k \in Good => k + 1 \in Good
  BY <1>1, <1>2
<1> HIDE DEF Good
<1>4. Nat \subseteq Good
  BY <1>3, EveryNatural
<1>5. Has(n)
  BY <1>4 DEF Good
<1>6. n <= n
  OBVIOUS
<1>7. \E g \in [SUBSET (1..n) -> B] : Unfolds(n, g)
  <2> HIDE DEF Unfolds
  <2> QED
    BY <1>5, <1>6 DEF Has
<1> QED
  BY <1>7 DEF IsFold

\* What holds of a fold of no positions, and is kept by every one, holds of
\* all: J[s] are the results of which it holds for the positions s.
LEMMA FoldInduction ==
  ASSUME NEW n \in Nat, NEW g, NEW J, g[{}] \in J[{}],
         \A s \in SUBSET (1..n) : s # {} /\ g[s \ {Max(s)}] \in J[s \ {Max(s)}] => g[s] \in J[s]
  PROVE  \A s \in SUBSET (1..n) : g[s] \in J[s]
<1> DEFINE Has(k) == \A s \in SUBSET (1..n) : s \in SUBSET (1..k) => g[s] \in J[s]
           Good == {k \in Nat : Has(k)}
<1>1. Has(0)
  <2>1. \A s \in SUBSET (1..0) : s = {}
    OBVIOUS
  <2> QED
    BY <2>1
<1>2. ASSUME NEW k \in Nat, Has(k) PROVE Has(k + 1)
  <2> SUFFICES ASSUME NEW s \in SUBSET (1..n), s \in SUBSET (1..(k + 1)), s # {}
               PROVE  g[s] \in J[s]
    OBVIOUS
  <2>1. Max(s) \in 1..(k + 1) /\ s \ {Max(s)} \in SUBSET (1..(Max(s) - 1))
    BY LastPosition
  <2>2. s \ {Max(s)} \in SUBSET (1..k) /\ s \ {Max(s)} \in SUBSET (1..n)
    BY <2>1
  <2>3. g[s \ {Max(s)}] \in J[s \ {Max(s)}]
    BY <1>2, <2>2
  <2> QED
    BY <2>3
<1> HIDE DEF Has
<1>3. 0 \in Good /\ \A k \in Nat : k \in Good => k + 1 \in Good
  BY <1>1, <1>2
<1> HIDE DEF Good
<1>4. n \in Good
  BY <1>3, EveryNatural
<1>5. Has(n)
  BY <1>4 DEF Good
<1> QED
  BY <1>5 DEF Has

\* An operation, given as a function, can be repeated any number of times.
LEMMA IterationExists ==
  ASSUME NEW A, NEW base \in A, NEW step \in [A -> A]
  PROVE  \E g \in [Nat -> A] : g[0] = base /\ \A n \in Nat : g[n + 1] = step[g[n]]
<1> DEFINE Begins(k, h) == /\ h \in [0..k -> A] /\ h[0] = base
                           /\ \A i \in Nat : i < k => h[i + 1] = step[h[i]]
           Has(k) == \E h : Begins(k, h)
           Good == {k \in Nat : Has(k)}
<1>1. Has(0)
  <2>1. Begins(0, [i \in 0..0 |-> base])
    OBVIOUS
  <2> QED
    BY <2>1
<1>2. ASSUME NEW k \in Nat, Has(k) PROVE Has(k + 1)
  <2>1. PICK h : Begins(k, h)
    BY <1>2
  <2> DEFINE f == [i \in 0..(k + 1) |-> IF i = k + 1 THEN step[h[k]] ELSE h[i]]
  <2>2. h[k] \in A /\ \A i \in 0..(k + 1) : i # k + 1 => i \in 0..k /\ h[i] \in A
    BY <2>1
  <2>3. step[h[k]] \in A
    BY <2>2
  <2>4. f \in [0..(k + 1) -> A] /\ f[0] = base
    BY <2>1, <2>2, <2>3
  <2>5. ASSUME NEW i \in Nat, i < k + 1 PROVE f[i + 1] = step[f[i]]
    <3>1. i \in 0..k /\ i + 1 \in 0..(k + 1) /\ i # k + 1 /\ f[i] = h[i]
      BY <2>5
    <3>2. CASE i = k
      BY <3>1, <3>2
    <3>3. CASE i < k
      <4>1. f[i + 1] = h[i + 1]
        BY <3>1, <3>3
      <4> QED
        BY <2>1, <3>1, <3>3, <4>1
    <3> QED
      BY <3>1, <3>2, <3>3
  <2> HIDE DEF f
  <2>6. Begins(k + 1, f)
    BY <2>4, <2>5
  <2> QED
    BY <2>6
<1>3. ASSUME NEW m \in Nat, NEW k \in Nat, m <= k, NEW h, NEW f, Begins(m, h), Begins(k, f)
      PROVE  h[m] = f[m]
  <2> DEFINE Same == {i \in Nat : i <= m => h[i] = f[i]}
  <2>1. 0 \in Same
    BY <1>3
  <2>2. ASSUME NEW i \in Nat, i \in Same PROVE i + 1 \in Same
    <3> SUFFICES ASSUME i + 1 <= m PROVE h[i + 1] = f[i + 1]
      OBVIOUS
    <3>1. i <= m /\ i < m /\ i < k
      BY <1>3
    <3>2. h[i] = f[i]
      BY <2>2, <3>1
    <3> QED
      BY <1>3, <3>1, <3>2
  <2>3. m \in Same
    <3> HIDE DEF Same
    <3> QED
      BY <2>1, <2>2, EveryNatural
  <2> QED
    BY <2>3
<1> HIDE DEF Begins
<1>4. \A k \in Nat : Has(k)
  <2>1. 0 \in Good /\ \A k \in Nat : k \in Good => k + 1 \in Good
    BY <1>1, <1>2
  <2>2. Nat \subseteq Good
    <3> HIDE DEF Good
    <3> QED
      BY <2>1, EveryNatural
  <2> QED
    BY <2>2
<1> DEFINE it(k) == CHOOSE h : Begins(k, h)
           g == [k \in Nat |-> it(k)[k]]
<1>5. \A k \in Nat : Begins(k, it(k))
  BY <1>4
<1> HIDE DEF it
<1>6. ASSUME NEW k \in Nat PROVE g[k] \in A
  BY <1>5 DEF Begins
<1>7. g[0] = base
  BY <1>5 DEF Begins
<1>8. ASSUME NEW k \in Nat PROVE g[k + 1] = step[g[k]]
  <2>1. it(k)[k] = it(k + 1)[k]
    BY <1>3, <1>5
  <2>2. it(k + 1)[k + 1] = step[it(k + 1)[k]]
    BY <1>5 DEF Begins
  <2> QED
    BY <2>1, <2>2
<1>9. g \in [Nat -> A]
  BY <1>6
<1> HIDE DEF g
<1> QED
  BY <1>7, <1>8, <1>9
=============================================================================
