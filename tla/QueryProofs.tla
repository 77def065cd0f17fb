---------------------------- MODULE QueryProofs ----------------------------
(***************************************************************************)
(* What reading a text clause after clause comes to, for any kind of       *)
(* statement: where a text leads the parser, what is read again of clauses *)
(* that were written in the order of the stages, and what a tree has that  *)
(* was read; and from this the statements whose clauses are kept as they   *)
(* are, or of which few are not: the queries, most others, and ALTER with  *)
(* its permissions.                                                        *)
(***************************************************************************)
EXTENDS RoundTrip, Extrema

-----------------------------------------------------------------------------
(* Reading a text, clause after clause.                                    *)

\* From the parsers P a text leads to the parsers Q.
LeadsTo(s, P, text, Q) ==
  \E h : /\ h[0] = P /\ h[Len(text)] = Q
         /\ \A i \in 1..Len(text) : h[i] = ReadOn(s, h[i - 1], text[i])

IsText(text) == Len(text) \in Nat /\ DOMAIN text = 1..Len(text)

\* A function that reads a text of n clauses, as the fold goes through it.
Follows(s, text, base, n, g) ==
  g = [S \in SUBSET (1..n) |-> IF S = {} THEN base ELSE ReadOn(s, g[S \ {Max(S)}], text[Max(S)])]

\* There is one that the fold can choose.
LEMMA ReadingExists ==
  ASSUME NEW s, NEW text, NEW base, NEW n \in Nat
  PROVE  \E g : Follows(s, text, base, n, g)
<1> DEFINE Next1(S, x) == ReadOn(s, x, text[Max(S)])
           Reads1(k, g) == g = [S \in SUBSET (1..k) |-> IF S = {} THEN base ELSE Next1(S, g[S \ {Max(S)}])]
           Goes(k) == \E g : Reads1(k, g)
           Good == {k \in Nat : Goes(k)}
<1>1. Goes(0)
  <2>1. \A S \in SUBSET (1..0) : S = {}
    OBVIOUS
  <2>2. Reads1(0, [S \in SUBSET (1..0) |-> base])
    BY <2>1
  <2> QED
    BY <2>2
<1>2. ASSUME NEW k \in Nat, Goes(k) PROVE Goes(k + 1)
  <2>1. PICK h : Reads1(k, h)
    BY <1>2
  <2> DEFINE g == [S \in SUBSET (1..(k + 1)) |->
                     IF k + 1 \in S THEN Next1(S, h[S \ {k + 1}]) ELSE h[S]]
  <2>2. \A S \in SUBSET (1..(k + 1)) : S \ {k + 1} \in SUBSET (1..k) /\ (k + 1 \notin S => S \in SUBSET (1..k))
    OBVIOUS
  <2>3. \A S \in SUBSET (1..k) : S \in SUBSET (1..(k + 1)) /\ k + 1 \notin S /\ g[S] = h[S]
    OBVIOUS
  <2>4. \A S \in SUBSET (1..k) : h[S] = IF S = {} THEN base ELSE Next1(S, h[S \ {Max(S)}])
    <3> HIDE DEF Next1
    <3> QED
      BY <2>1
  <2>5. ASSUME NEW S \in SUBSET (1..(k + 1)), k + 1 \in S
        PROVE  g[S] = Next1(S, g[S \ {Max(S)}]) /\ S # {}
    <3>1. Max(S) = k + 1
      BY <2>5, LastPosition
    <3>2. g[S] = Next1(S, h[S \ {k + 1}]) /\ g[S \ {k + 1}] = h[S \ {k + 1}]
      <4> HIDE DEF Next1
      <4> QED
        BY <2>2, <2>3, <2>5
    <3> HIDE DEF Next1, g
    <3> QED
      BY <2>5, <3>1, <3>2
  <2>6. ASSUME NEW S \in SUBSET (1..k), S # {}
        PROVE  g[S] = Next1(S, g[S \ {Max(S)}])
    <3>1. S \ {Max(S)} \in SUBSET (1..k)
      BY <2>6, LastPosition
    <3>2. g[S] = h[S] /\ g[S \ {Max(S)}] = h[S \ {Max(S)}]
      BY <2>3, <3>1
    <3> HIDE DEF Next1, g
    <3> QED
      BY <2>4, <2>6, <3>2
  <2>7. g[{}] = base
    BY <2>3, <2>4
  <2>8. g = [S \in SUBSET (1..(k + 1)) |-> g[S]]
    OBVIOUS
  <2> HIDE DEF g, Next1
  <2>9. \A S \in SUBSET (1..(k + 1)) : g[S] = IF S = {} THEN base ELSE Next1(S, g[S \ {Max(S)}])
    BY <2>2, <2>5, <2>6, <2>7
  <2>10. Reads1(k + 1, g)
    BY <2>8, <2>9
  <2> QED
    BY <2>10
<1>3. Goes(n)
  <2> HIDE DEF Goes
  <2>1. 0 \in Good /\ \A k \in Nat : k \in Good => k + 1 \in Good
    BY <1>1, <1>2
  <2>2. Nat \subseteq Good
    <3> HIDE DEF Good
    <3> QED
      BY <2>1, EveryNatural
  <2> QED
    BY <2>2
<1> QED
  BY <1>3 DEF Follows

\* What a text leads to is what the parser reads.
LEMMA ReadAllLeads ==
  ASSUME NEW s, NEW text, IsText(text), NEW Q, LeadsTo(s, {Begin(Default(s))}, text, Q)
  PROVE  ReadAll(s, text) = Q
<1> DEFINE n == Len(text)
           base == {Begin(Default(s))}
           Next1(S, x) == ReadOn(s, x, text[Max(S)])
           Unfolds(g) == g = [S \in SUBSET (DOMAIN text) |-> IF S = {} THEN base ELSE Next1(S, g[S \ {Max(S)}])]
           it == CHOOSE g : Unfolds(g)
<1>1. n \in Nat /\ DOMAIN text = 1..n
  BY DEF IsText
<1>2. \E g : Unfolds(g)
  <2>1. n \in Nat
    BY <1>1
  <2>2. PICK g : Follows(s, text, base, n, g)
    <3> HIDE DEF n, base
    <3> QED
      BY <2>1, ReadingExists
  <2>3. Unfolds(g)
    <3> HIDE DEF n, base
    <3> QED
      BY <1>1, <2>2 DEF Follows
  <2> QED
    BY <2>3
<1>3. Unfolds(it)
  <2> HIDE DEF Unfolds
  <2> QED
    BY <1>2
<1>4. ReadAll(s, text) = it[DOMAIN text]
  BY DEF ReadAll, FoldLeft, MapThenFoldSet
<1> HIDE DEF it
<1>5. it[{}] = base /\ \A S \in SUBSET (1..n) : S # {} => it[S] = Next1(S, it[S \ {Max(S)}])
  <2> HIDE DEF base, Next1, n
  <2> QED
    BY <1>1, <1>3
<1> HIDE DEF Unfolds
<1>6. PICK h : h[0] = base /\ h[n] = Q /\ \A i \in 1..n : h[i] = ReadOn(s, h[i - 1], text[i])
  BY DEF LeadsTo
<1> HIDE DEF n, base
<1> DEFINE Same == {k \in Nat : k <= n => it[1..k] = h[k]}
<1>7. 0 \in Same
  <2>1. 1..0 = {}
    OBVIOUS
  <2> QED
    BY <1>5, <1>6, <2>1
<1>8. ASSUME NEW k \in Nat, k \in Same PROVE k + 1 \in Same
  <2> SUFFICES ASSUME k + 1 <= n PROVE it[1..(k + 1)] = h[k + 1]
    OBVIOUS
  <2>1. it[1..k] = h[k]
    BY <1>1, <1>8
  <2>2. 1..(k + 1) \in SUBSET (1..n) /\ 1..(k + 1) # {} /\ k + 1 \in 1..n /\ (k + 1) - 1 = k
    <3>1. \A i \in 1..(k + 1) : i \in 1..n
      BY <1>1
    <3>2. k + 1 \in 1..(k + 1) /\ k + 1 \in 1..n
      BY <1>1
    <3> QED
      BY <3>1, <3>2
  <2>3. Max(1..(k + 1)) = k + 1
    <3>1. 1..(k + 1) \in SUBSET (1..(k + 1)) /\ k + 1 \in Nat /\ k + 1 \in 1..(k + 1)
      OBVIOUS
    <3>2. Max(1..(k + 1)) \in 1..(k + 1) /\ \A i \in 1..(k + 1) : i <= Max(1..(k + 1))
      BY <2>2, <3>1, LastPosition
    <3> QED
      BY <3>1, <3>2
  <2>4. (1..(k + 1)) \ {k + 1} = 1..k
    OBVIOUS
  <2>5. it[1..(k + 1)] = ReadOn(s, it[1..k], text[k + 1])
    BY <1>5, <2>2, <2>3, <2>4
  <2> QED
    BY <1>6, <2>1, <2>2, <2>5
<1>9. n \in Same
  <2> HIDE DEF Same
  <2> QED
    BY <1>1, <1>7, <1>8, EveryNatural
<1> QED
  BY <1>1, <1>4, <1>6, <1>9

\* No clause leads nowhere else; one clause leads where it is read on.
LEMMA LeadsNowhere ==
  ASSUME NEW s, NEW P
  PROVE  LeadsTo(s, P, <<>>, P)
<1> DEFINE h == [i \in {0} |-> P]
<1>1. h[0] = P /\ h[Len(<<>>)] = P /\ 1..Len(<<>>) = {}
  OBVIOUS
<1> HIDE DEF h
<1> QED
  BY <1>1 DEF LeadsTo

LEMMA LeadsOn ==
  ASSUME NEW s, NEW P, NEW c
  PROVE  LeadsTo(s, P, <<c>>, ReadOn(s, P, c))
<1> DEFINE h == [i \in {0, 1} |-> IF i = 0 THEN P ELSE ReadOn(s, P, c)]
<1>1. /\ h[0] = P /\ h[1] = ReadOn(s, P, c) /\ Len(<<c>>) = 1
      /\ <<c>>[1] = c /\ 1 - 1 = 0 /\ \A i \in 1..1 : i = 1
  OBVIOUS
<1> HIDE DEF h
<1>2. h[0] = P /\ h[Len(<<c>>)] = ReadOn(s, P, c)
  BY <1>1
<1>3. ASSUME NEW i \in 1..Len(<<c>>) PROVE h[i] = ReadOn(s, h[i - 1], <<c>>[i])
  <2>1. i = 1
    BY <1>1
  <2> QED
    BY <1>1, <2>1
<1> QED
  BY <1>2, <1>3 DEF LeadsTo

\* A text after another one.
LEMMA LeadsThrough ==
  ASSUME NEW s, NEW P, NEW Q, NEW R, NEW U, NEW x \in Seq(U), NEW y \in Seq(U),
         LeadsTo(s, P, x, Q), LeadsTo(s, Q, y, R)
  PROVE  LeadsTo(s, P, x \o y, R)
<1>1. PICK g : /\ g[0] = P /\ g[Len(x)] = Q
               /\ \A i \in 1..Len(x) : g[i] = ReadOn(s, g[i - 1], x[i])
  BY DEF LeadsTo
<1>2. PICK h : /\ h[0] = Q /\ h[Len(y)] = R
               /\ \A i \in 1..Len(y) : h[i] = ReadOn(s, h[i - 1], y[i])
  BY DEF LeadsTo
<1>3. PICK m \in Nat, n \in Nat : m = Len(x) /\ n = Len(y)
  OBVIOUS
<1> DEFINE f == [i \in 0..(m + n) |-> IF i <= m THEN g[i] ELSE h[i - m]]
<1>4. /\ Len(x \o y) = m + n
      /\ \A i \in 1..m : (x \o y)[i] = x[i]
      /\ \A i \in 1..n : (x \o y)[m + i] = y[i]
  BY <1>3
<1>5. f[0] = P
  BY <1>1
<1>6. \A i \in 0..n : f[m + i] = h[i]
  <2>1. ASSUME NEW i \in 0..n PROVE f[m + i] = h[i]
    <3>1. m + i \in 0..(m + n) /\ (m + i) - m = i
      OBVIOUS
    <3>2. CASE i = 0
      BY <1>1, <1>2, <1>3, <3>1, <3>2
    <3>3. CASE i # 0
      BY <3>1, <3>3
    <3> QED
      BY <3>2, <3>3
  <2> QED
    BY <2>1
<1>7. ASSUME NEW i \in 1..(m + n) PROVE f[i] = ReadOn(s, f[i - 1], (x \o y)[i])
  <2>1. CASE i <= m
    <3>1. i \in 1..m /\ i - 1 \in 0..(m + n) /\ i - 1 <= m /\ f[i] = g[i] /\ f[i - 1] = g[i - 1]
      BY <2>1
    <3> HIDE DEF f
    <3> QED
      BY <1>1, <1>3, <1>4, <3>1
  <2>2. CASE i > m
    <3>1. PICK j \in 1..n : i = m + j
      <4>1. i - m \in 1..n /\ i = m + (i - m)
        BY <2>2
      <4> QED
        BY <4>1
    <3>2. j \in 0..n /\ j - 1 \in 0..n /\ i - 1 = m + (j - 1)
      BY <3>1
    <3> HIDE DEF f
    <3>3. f[i] = h[j] /\ f[i - 1] = h[j - 1]
      BY <1>6, <3>1, <3>2
    <3> QED
      BY <1>2, <1>3, <1>4, <3>1, <3>3
  <2>3. i <= m \/ i > m
    OBVIOUS
  <2> HIDE DEF f
  <2> QED
    BY <2>1, <2>2, <2>3
<1> HIDE DEF f
<1>8. f[Len(x \o y)] = R
  BY <1>2, <1>3, <1>4, <1>6
<1>9. \A i \in 1..Len(x \o y) : f[i] = ReadOn(s, f[i - 1], (x \o y)[i])
  BY <1>4, <1>7
<1> QED
  BY <1>5, <1>8, <1>9 DEF LeadsTo

LEMMA NoElements ==
  ASSUME NEW U, NEW x \in Seq(U), Len(x) = 0
  PROVE  x = <<>>
  OBVIOUS

\* FlattenSeq puts the texts one after the other.
LEMMA Flattened ==
  ASSUME NEW U, NEW ss \in Seq(Seq(U))
  PROVE  \E h \in [0..Len(ss) -> Seq(U)] :
           /\ h[0] = <<>> /\ h[Len(ss)] = FlattenSeq(ss)
           /\ \A i \in 1..Len(ss) : h[i] = h[i - 1] \o ss[i]
<1>1. PICK n \in Nat : n = Len(ss)
  OBVIOUS
<1>2. DOMAIN ss = 1..n /\ \A i \in 1..n : ss[i] \in Seq(U)
  BY <1>1
<1> DEFINE Joins(k, h) == /\ h \in [0..k -> Seq(U)] /\ h[0] = <<>>
                          /\ \A i \in 1..k : h[i] = h[i - 1] \o ss[i]
           Goes(k) == k <= n => \E h : Joins(k, h)
           Good == {k \in Nat : Goes(k)}
<1>3. Goes(0)
  <2>1. Joins(0, [i \in 0..0 |-> <<>>])
    OBVIOUS
  <2> QED
    BY <2>1
<1>4. ASSUME NEW k \in Nat, Goes(k) PROVE Goes(k + 1)
  <2> SUFFICES ASSUME k + 1 <= n PROVE \E h : Joins(k + 1, h)
    OBVIOUS
  <2>1. PICK h : Joins(k, h)
    <3>1. k <= n
      BY <1>1
    <3> HIDE DEF Joins
    <3> QED
      BY <1>4, <3>1
  <2> DEFINE f == [i \in 0..(k + 1) |-> IF i = k + 1 THEN h[k] \o ss[k + 1] ELSE h[i]]
  <2>2. k + 1 \in 1..n /\ h[k] \in Seq(U) /\ \A i \in 0..(k + 1) : i # k + 1 => i \in 0..k /\ h[i] \in Seq(U)
    BY <1>1, <2>1
  <2>3. h[k] \o ss[k + 1] \in Seq(U)
    BY <1>2, <2>2
  <2>4. f \in [0..(k + 1) -> Seq(U)] /\ f[0] = <<>>
    BY <2>1, <2>2, <2>3
  <2>a. f[k + 1] = h[k] \o ss[k + 1] /\ \A i \in 0..k : f[i] = h[i]
    <3>1. k + 1 \in 0..(k + 1) /\ \A i \in 0..k : i \in 0..(k + 1) /\ i # k + 1
      OBVIOUS
    <3>2. f[k + 1] = h[k] \o ss[k + 1]
      BY <3>1, Zenon
    <3> QED
      BY <3>1, <3>2
  <2> HIDE DEF f
  <2>5. ASSUME NEW i \in 1..(k + 1) PROVE f[i] = f[i - 1] \o ss[i]
    <3>1. i - 1 \in 0..k /\ f[i - 1] = h[i - 1]
      BY <2>a
    <3>2. CASE i = k + 1
      <4>1. i - 1 = k
        BY <3>2
      <4> QED
        BY <2>a, <3>1, <3>2, <4>1
    <3>3. CASE i # k + 1
      <4>1. i \in 1..k /\ f[i] = h[i]
        BY <2>a, <3>3
      <4> QED
        BY <2>1, <3>1, <4>1
    <3> QED
      BY <3>2, <3>3
  <2>6. Joins(k + 1, f)
    BY <2>4, <2>5
  <2> QED
    BY <2>6
<1>5. PICK h : Joins(n, h)
  <2> HIDE DEF Goes
  <2>1. 0 \in Good /\ \A k \in Nat : k \in Good => k + 1 \in Good
    BY <1>3, <1>4
  <2> HIDE DEF Good
  <2>2. n \in Good
    BY <1>1, <2>1, EveryNatural
  <2>3. Goes(n) /\ n <= n
    BY <1>1, <2>2 DEF Good
  <2> HIDE DEF Joins
  <2> QED
    BY <2>3 DEF Goes
<1>a. h \in [0..n -> Seq(U)] /\ h[0] = <<>> /\ \A i \in 1..n : h[i] = h[i - 1] \o ss[i]
  BY <1>5
<1> HIDE DEF Joins, Goes, Good
<1>b. n # 0 => 1 \in 1..n /\ h[1] = ss[1]
  <2> SUFFICES ASSUME n # 0 PROVE 1 \in 1..n /\ h[1] = ss[1]
    OBVIOUS
  <2>1. 1 \in 1..n /\ 1 - 1 = 0
    BY <1>1
  <2>2. h[1] = <<>> \o ss[1] /\ ss[1] \in Seq(U)
    BY <1>2, <1>a, <2>1
  <2>3. <<>> \o ss[1] = ss[1]
    BY <2>2
  <2> QED
    BY <2>1, <2>2, <2>3
<1>6. h[n] = FlattenSeq(ss)
  <2>1. CASE n = 0
    <3>1. ss = <<>>
      BY <1>1, <2>1, NoElements
    <3> QED
      BY <1>1, <1>a, <2>1, <3>1 DEF FlattenSeq
  <2>2. CASE n # 0
    <3> DEFINE Unfolds(g) == g = [i \in 1..Len(ss) |-> IF i = 1 THEN ss[i] ELSE g[i - 1] \o ss[i]]
               flatten == CHOOSE g : Unfolds(g)
    <3>1. FlattenSeq(ss) = flatten[Len(ss)]
      BY <1>1, <2>2 DEF FlattenSeq
    <3> DEFINE g == [i \in 1..n |-> h[i]]
    <3>2. ASSUME NEW i \in 1..n PROVE g[i] = IF i = 1 THEN ss[i] ELSE g[i - 1] \o ss[i]
      <4>1. CASE i = 1
        <5>1. n # 0
          BY <4>1
        <5> QED
          BY <1>b, <4>1, <5>1
      <4>2. CASE i # 1
        <5>1. i - 1 \in 1..n /\ g[i - 1] = h[i - 1] /\ g[i] = h[i]
          BY <4>2
        <5> QED
          BY <1>a, <4>2, <5>1
      <4> QED
        BY <4>1, <4>2
    <3>3. Unfolds(g)
      <4>1. g = [i \in 1..n |-> g[i]]
        OBVIOUS
      <4> HIDE DEF g
      <4> QED
        BY <1>1, <3>2, <4>1
    <3>4. Unfolds(flatten)
      <4> HIDE DEF Unfolds, g
      <4> QED
        BY <3>3
    <3> HIDE DEF flatten
    <3>5. \A i \in 1..n : flatten[i] = IF i = 1 THEN ss[i] ELSE flatten[i - 1] \o ss[i]
      BY <1>1, <3>4
    <3> HIDE DEF Unfolds
    <3> DEFINE Same == {k \in Nat : k + 1 <= n => flatten[k + 1] = h[k + 1]}
    <3>6. 0 \in Same
      <4>1. 1 \in 1..n /\ h[1] = ss[1] /\ 0 + 1 = 1
        BY <1>b, <2>2
      <4>2. flatten[1] = ss[1]
        BY <3>5, <4>1
      <4> QED
        BY <4>1, <4>2
    <3>7. ASSUME NEW k \in Nat, k \in Same PROVE k + 1 \in Same
      <4> SUFFICES ASSUME (k + 1) + 1 <= n PROVE flatten[(k + 1) + 1] = h[(k + 1) + 1]
        OBVIOUS
      <4>1. flatten[k + 1] = h[k + 1] /\ (k + 1) + 1 \in 1..n /\ (k + 1) + 1 # 1 /\ ((k + 1) + 1) - 1 = k + 1
        BY <1>1, <3>7
      <4> HIDE DEF Same
      <4>2. PICK j \in 1..n : j = (k + 1) + 1
        BY <4>1
      <4>3. flatten[j] = flatten[k + 1] \o ss[j] /\ h[j] = h[k + 1] \o ss[j]
        BY <1>a, <3>5, <4>1, <4>2
      <4> QED
        BY <4>1, <4>2, <4>3
    <3>8. n - 1 \in Nat /\ (n - 1) + 1 = n
      BY <1>1, <2>2
    <3>9. n - 1 \in Same
      <4> HIDE DEF Same
      <4> QED
        BY <3>6, <3>7, <3>8, EveryNatural
    <3> QED
      BY <1>1, <3>1, <3>8, <3>9
  <2> QED
    BY <2>1, <2>2
<1> QED
  BY <1>1, <1>a, <1>6

\* Texts one after the other lead from parsers to parsers.
LEMMA FlattenedLeads ==
  ASSUME NEW s, NEW U, NEW ss \in Seq(Seq(U)), NEW pr,
         \A i \in 1..Len(ss) : LeadsTo(s, pr[i - 1], ss[i], pr[i])
  PROVE  FlattenSeq(ss) \in Seq(U) /\ LeadsTo(s, pr[0], FlattenSeq(ss), pr[Len(ss)])
<1>1. PICK n \in Nat : n = Len(ss)
  OBVIOUS
<1>2. PICK h \in [0..n -> Seq(U)] : /\ h[0] = <<>> /\ h[n] = FlattenSeq(ss)
                                    /\ \A i \in 1..n : h[i] = h[i - 1] \o ss[i]
  BY <1>1, Flattened
<1> DEFINE Good == {k \in Nat : k <= n => LeadsTo(s, pr[0], h[k], pr[k])}
<1>3. 0 \in Good
  BY <1>2, LeadsNowhere
<1>4. ASSUME NEW k \in Nat, k \in Good PROVE k + 1 \in Good
  <2> SUFFICES ASSUME k + 1 <= n PROVE LeadsTo(s, pr[0], h[k + 1], pr[k + 1])
    OBVIOUS
  <2>1. k + 1 \in 1..n /\ (k + 1) - 1 = k /\ k \in 0..n
    BY <1>1
  <2>2. LeadsTo(s, pr[0], h[k], pr[k])
    BY <1>1, <1>4
  <2>3. LeadsTo(s, pr[k], ss[k + 1], pr[k + 1]) /\ ss[k + 1] \in Seq(U)
    BY <1>1, <2>1
  <2>4. h[k + 1] = h[k] \o ss[k + 1] /\ h[k] \in Seq(U)
    BY <1>2, <2>1
  <2> QED
    BY <2>2, <2>3, <2>4, LeadsThrough
<1>5. n \in Good
  <2> HIDE DEF Good
  <2> QED
    BY <1>1, <1>3, <1>4, EveryNatural
<1> QED
  BY <1>1, <1>2, <1>5

-----------------------------------------------------------------------------
(* Reading what was written.                                               *)

\* Optional clauses: the i-th is the keyword key[i] with the argument arg[i]
\* if i is in G, and is not written otherwise.
Optional(n, G, key, arg) == [i \in 1..n |-> IF i \in G THEN << <<key[i], arg[i]>> >> ELSE <<>>]

\* Where the parser is, taken apart.
LEMMA AtParts ==
  ASSUME NEW x, NEW y
  PROVE  At(x, y).stage = x /\ At(x, y).tree = y
  BY DEF At

\* Clauses that each take the parser from one stage and tree to the next.
StepByStep(s, n, G, key, arg, sg, tr) ==
  \A i \in 1..n :
    IF i \in G
    THEN /\ Takes(Syntax[s], At(sg[i - 1], tr[i - 1]), key[i]) # {}
         /\ Min(Takes(Syntax[s], At(sg[i - 1], tr[i - 1]), key[i])) = sg[i]
         /\ Read(s, tr[i - 1], key[i], arg[i]) = {tr[i]}
    ELSE sg[i] = sg[i - 1] /\ tr[i] = tr[i - 1]

LEMMA ClausesReread ==
  ASSUME NEW s, NEW n \in Nat, NEW G, NEW key, NEW arg, NEW sg, NEW tr,
         sg[0] = 0, tr[0] = Default(s),
         StepByStep(s, n, G, key, arg, sg, tr)
  PROVE  ReadAll(s, FlattenSeq(Optional(n, G, key, arg))) = {At(sg[n], tr[n])}
<1> DEFINE ss == Optional(n, G, key, arg)
           U == {<<key[i], arg[i]>> : i \in 1..n}
           pr == [i \in 0..n |-> {At(sg[i], tr[i])}]
<1>1. ss = [i \in 1..n |-> ss[i]] /\ \A i \in 1..n : ss[i] = IF i \in G THEN << <<key[i], arg[i]>> >> ELSE <<>>
  BY DEF Optional
<1> HIDE DEF ss
<1>2. ASSUME NEW i \in 1..n PROVE ss[i] \in Seq(U)
  <2>1. PICK c \in U : c = <<key[i], arg[i]>>
    OBVIOUS
  <2> HIDE DEF U
  <2>2. <<>> \in Seq(U) /\ <<c>> \in Seq(U)
    OBVIOUS
  <2> QED
    BY <1>1, <2>1, <2>2
<1>3. ss \in Seq(Seq(U)) /\ Len(ss) = n
  <2> HIDE DEF U
  <2> QED
    BY <1>1, <1>2
<1>4. \A i \in 1..n : i \in 0..n /\ i - 1 \in 0..n
  OBVIOUS
<1>5. \A i \in 1..n : pr[i] = {At(sg[i], tr[i])} /\ pr[i - 1] = {At(sg[i - 1], tr[i - 1])}
  BY <1>4
<1>6. pr[0] = {Begin(Default(s))} /\ pr[n] = {At(sg[n], tr[n])}
  BY DEF Begin
<1> HIDE DEF pr
<1>7. ASSUME NEW i \in 1..n, i \in G PROVE ReadOn(s, pr[i - 1], <<key[i], arg[i]>>) = pr[i]
  <2>1. PICK p : p = At(sg[i - 1], tr[i - 1])
    OBVIOUS
  <2>2. p.tree = tr[i - 1] /\ StepByStep(s, n, G, key, arg, sg, tr)
    BY <2>1, AtParts
  <2>a. /\ Takes(Syntax[s], p, key[i]) # {} /\ Min(Takes(Syntax[s], p, key[i])) = sg[i]
        /\ Read(s, tr[i - 1], key[i], arg[i]) = {tr[i]}
    BY <1>7, <2>1, <2>2 DEF StepByStep
  <2>3. Step(s, p, key[i], arg[i]) = {At(sg[i], tr[i])}
    <3>1. Reads(Syntax[s], p, key[i], {tr[i]}) = {At(sg[i], t) : t \in {tr[i]}}
      <4>1. PICK K : K = Takes(Syntax[s], p, key[i])
        OBVIOUS
      <4> QED
        BY <2>a, <4>1 DEF Reads
    <3>2. Read(s, p.tree, key[i], arg[i]) = {tr[i]}
      BY <2>2, <2>a
    <3> QED
      BY <3>1, <3>2 DEF Step
  <2>4. ReadOn(s, {p}, <<key[i], arg[i]>>) = Step(s, p, key[i], arg[i])
    BY DEF ReadOn
  <2> QED
    BY <1>5, <2>1, <2>3, <2>4
<1>8. ASSUME NEW i \in 1..n PROVE LeadsTo(s, pr[i - 1], ss[i], pr[i])
  <2>1. CASE i \in G
    BY <1>1, <1>7, <2>1, LeadsOn
  <2>2. CASE i \notin G
    <3>1. sg[i] = sg[i - 1] /\ tr[i] = tr[i - 1]
      BY <2>2 DEF StepByStep
    <3>2. ss[i] = <<>> /\ pr[i] = pr[i - 1]
      BY <1>1, <1>5, <2>2, <3>1
    <3>3. LeadsTo(s, pr[i], <<>>, pr[i])
      BY LeadsNowhere
    <3> QED
      BY <3>2, <3>3
  <2> QED
    BY <2>1, <2>2
<1>9. FlattenSeq(ss) \in Seq(U) /\ LeadsTo(s, pr[0], FlattenSeq(ss), pr[n])
  <2> HIDE DEF U
  <2> QED
    BY <1>3, <1>8, FlattenedLeads
<1>10. IsText(FlattenSeq(ss))
  <2> HIDE DEF U
  <2> QED
    BY <1>9 DEF IsText
<1> QED
  BY <1>6, <1>9, <1>10, ReadAllLeads DEF ss

\* The clauses come in the order of the stages that take them, st[i] the i-th:
\* more than one clause only in a stage that loops, and one in each stage that
\* must not be skipped; a stage before st[i] that has the keyword is over.
InOrder(syn, n, G, key, st) ==
  /\ \A i \in G : i \in 1..n /\ st[i] \in DOMAIN syn /\ key[i] \in syn[st[i]].keys
  /\ \A i, j \in G : i < j => st[i] < st[j] \/ (st[i] = st[j] /\ syn[st[i]].loops)
  /\ \A a \in DOMAIN syn : syn[a].must => \E i \in G : st[i] = a
  /\ \A i \in G : \A a \in DOMAIN syn : a < st[i] /\ key[i] \in syn[a].keys =>
       \E j \in G : j < i /\ (a < st[j] \/ (a = st[j] /\ ~syn[a].loops))

\* The stage the parser is in after i clauses.
Passed(G, st, i) == {0} \cup {st[j] : j \in {k \in G : k <= i}}
StageAfter(G, st, i) == Max(Passed(G, st, i))

LEMMA StagesPassed ==
  ASSUME NEW n \in Nat, NEW m \in Nat, NEW G, NEW st, \A i \in G : i \in 1..n /\ st[i] \in 1..m,
         NEW i \in Nat
  PROVE  /\ StageAfter(G, st, i) \in 0..m
         /\ StageAfter(G, st, i) \in Passed(G, st, i)
         /\ \A a \in Passed(G, st, i) : a \in 0..m /\ a <= StageAfter(G, st, i)
<1>1. PICK P : P = Passed(G, st, i)
  OBVIOUS
<1>2. P \subseteq 0..m /\ P # {} /\ P \in SUBSET Nat
  BY <1>1 DEF Passed
<1>3. IsFiniteSet(P)
  <2>1. IsFiniteSet(0..m)
    BY FS_Interval
  <2> QED
    BY <1>2, <2>1, FS_Subset
<1>4. Max(P) \in P /\ \A a \in P : Max(P) >= a
  BY <1>2, <1>3, MaxIsGreatest
<1>5. PICK x \in P : x = Max(P)
  BY <1>4
<1> QED
  BY <1>1, <1>2, <1>4, <1>5 DEF StageAfter

\* A clause in the order takes the parser to its stage.
LEMMA TakenInOrder ==
  ASSUME NEW syn, NEW n \in Nat, NEW m \in Nat, DOMAIN syn = 1..m, NEW G, NEW key, NEW st,
         InOrder(syn, n, G, key, st), NEW i \in G,
         NEW p, p.stage = StageAfter(G, st, i - 1)
  PROVE  /\ StageAfter(G, st, i) = st[i]
         /\ Takes(syn, p, key[i]) # {}
         /\ Min(Takes(syn, p, key[i])) = st[i]
<1>1. \A j \in G : j \in 1..n /\ st[j] \in 1..m /\ key[j] \in syn[st[j]].keys
  BY DEF InOrder
<1>2. \A j, k \in G : j < k => st[j] < st[k] \/ (st[j] = st[k] /\ syn[st[j]].loops)
  BY DEF InOrder
<1>3. PICK a \in 1..m : a = st[i] /\ key[i] \in syn[a].keys
  BY <1>1
<1>4. i \in 1..n /\ i - 1 \in Nat
  BY <1>1
<1>5. PICK z : z = StageAfter(G, st, i - 1)
  OBVIOUS
<1>6. z \in 0..m /\ z \in Passed(G, st, i - 1) /\ \A b \in Passed(G, st, i - 1) : b \in 0..m /\ b <= z
  BY <1>1, <1>4, <1>5, StagesPassed
<1>7. StageAfter(G, st, i) = a
  <2>1. PICK y : y = StageAfter(G, st, i)
    OBVIOUS
  <2>a. i \in Nat
    BY <1>4
  <2>2. y \in 0..m /\ y \in Passed(G, st, i) /\ \A b \in Passed(G, st, i) : b \in 0..m /\ b <= y
    BY <2>a, <1>1, <1>4, <2>1, StagesPassed
  <2>3. a \in Passed(G, st, i)
    BY <1>3, <1>4 DEF Passed
  <2>4. y <= a
    <3>1. CASE y = 0
      BY <3>1
    <3>2. CASE y # 0
      <4>1. PICK j \in G : j <= i /\ y = st[j]
        BY <2>2, <3>2 DEF Passed
      <4>2. CASE j = i
        BY <1>3, <4>1, <4>2
      <4>3. CASE j < i
        BY <1>1, <1>2, <1>3, <4>1, <4>3
      <4> QED
        BY <1>1, <4>1, <4>2, <4>3
    <3> QED
      BY <3>1, <3>2
  <2> QED
    BY <2>1, <2>2, <2>3, <2>4
<1>8. a > z \/ (a = z /\ syn[a].loops)
  <2>1. CASE z = 0
    BY <2>1
  <2>2. CASE z # 0
    <3>1. PICK j \in G : j <= i - 1 /\ z = st[j]
      BY <1>6, <2>2 DEF Passed
    <3>2. j < i
      BY <1>1, <3>1
    <3> QED
      BY <1>1, <1>2, <1>3, <3>1, <3>2
  <2> QED
    BY <2>1, <2>2
<1>9. ASSUME NEW b \in z + 1..a - 1 PROVE ~syn[b].must
  <2> SUFFICES ASSUME syn[b].must PROVE FALSE
    OBVIOUS
  <2>1. b \in 1..m /\ b > z /\ b < a
    BY <1>6
  <2>2. PICK j \in G : st[j] = b
    BY <2>1 DEF InOrder
  <2>3. CASE j < i
    <3>1. j <= i - 1
      BY <1>1, <2>3
    <3>2. b \in Passed(G, st, i - 1)
      BY <2>2, <3>1 DEF Passed
    <3> QED
      BY <1>6, <2>1, <3>2
  <2>4. CASE j = i
    BY <1>3, <2>1, <2>2, <2>4
  <2>5. CASE j > i
    BY <1>1, <1>2, <1>3, <2>1, <2>2, <2>5
  <2> QED
    BY <1>1, <2>3, <2>4, <2>5
<1>10. a \in Takes(syn, p, key[i])
  <2>1. a \in Reachable(syn, p)
    BY <1>5, <1>8, <1>9 DEF Reachable
  <2> QED
    BY <1>3, <2>1 DEF Takes
<1>11. ASSUME NEW b \in Takes(syn, p, key[i]) PROVE b \in 1..m /\ a <= b
  <2>1. b \in 1..m /\ key[i] \in syn[b].keys /\ (b > z \/ (b = z /\ syn[b].loops))
    BY <1>5 DEF Takes, Reachable
  <2>2. ASSUME b < a PROVE FALSE
    <3>1. PICK j \in G : j < i /\ (b < st[j] \/ (b = st[j] /\ ~syn[b].loops))
      BY <1>3, <2>1, <2>2 DEF InOrder
    <3>2. st[j] \in Passed(G, st, i - 1)
      <4>1. j <= i - 1
        BY <1>1, <3>1
      <4> QED
        BY <4>1 DEF Passed
    <3>3. st[j] <= z /\ st[j] \in 1..m
      BY <1>1, <1>6, <3>2
    <3> QED
      BY <1>6, <2>1, <3>1, <3>3
  <2> QED
    BY <2>1, <2>2
<1>12. Min(Takes(syn, p, key[i])) = a
  <2>1. PICK T : T = Takes(syn, p, key[i])
    OBVIOUS
  <2>a. \A b \in T : b \in Nat /\ a <= b
    <3>1. ASSUME NEW b \in T PROVE b \in 1..m /\ a <= b
      BY <1>11, <2>1, <3>1
    <3> QED
      BY <3>1
  <2>2. T \in SUBSET Nat /\ T # {} /\ a \in T
    BY <1>10, <2>1, <2>a
  <2>3. Min(T) \in T /\ \A b \in T : Min(T) <= b
    BY <2>2, MinIsLeast
  <2>4. PICK y \in Nat : y = Min(T)
    BY <2>2, <2>3
  <2> QED
    BY <2>1, <2>2, <2>3, <2>4, <2>a
<1> QED
  BY <1>3, <1>7, <1>10, <1>12

\* The statement may end when every clause was read.
LEMMA EndsInOrder ==
  ASSUME NEW syn, NEW n \in Nat, NEW m \in Nat, Len(syn) = m, DOMAIN syn = 1..m, NEW G, NEW key, NEW st,
         InOrder(syn, n, G, key, st), NEW p, p.stage = StageAfter(G, st, n)
  PROVE  Ends(syn, p)
<1>1. \A j \in G : j \in 1..n /\ st[j] \in 1..m
  BY DEF InOrder
<1>2. PICK z : z = p.stage
  OBVIOUS
<1>3. z \in 0..m /\ z \in Passed(G, st, n) /\ \A b \in Passed(G, st, n) : b \in 0..m /\ b <= z
  BY <1>1, <1>2, StagesPassed
<1>4. ASSUME NEW b \in z + 1..m, syn[b].must PROVE FALSE
  <2>1. b \in 1..m /\ b > z
    BY <1>3
  <2>2. PICK j \in G : st[j] = b
    BY <1>4, <2>1 DEF InOrder
  <2>3. b \in Passed(G, st, n)
    BY <1>1, <2>2 DEF Passed
  <2> QED
    BY <1>3, <2>1, <2>3
<1> QED
  BY <1>2, <1>4 DEF Ends

IsSyntax(syn) == \E m \in Nat : Len(syn) = m /\ DOMAIN syn = 1..m

\* Clauses in the order, the i-th of which takes the tree tr[i - 1] to tr[i].
Reread(s, n, G, key, arg, tr) ==
  \A i \in 1..n : IF i \in G THEN Read(s, tr[i - 1], key[i], arg[i]) = {tr[i]} ELSE tr[i] = tr[i - 1]

LEMMA InOrderStepByStep ==
  ASSUME NEW s, NEW n \in Nat, NEW G, NEW key, NEW arg, NEW st, NEW tr, NEW m \in Nat,
         DOMAIN Syntax[s] = 1..m, InOrder(Syntax[s], n, G, key, st), Reread(s, n, G, key, arg, tr)
  PROVE  StepByStep(s, n, G, key, arg, [i \in 0..n |-> StageAfter(G, st, i)], tr)
<1> DEFINE sg == [i \in 0..n |-> StageAfter(G, st, i)]
<1>1. \A j \in G : j \in 1..n /\ st[j] \in 1..m
  BY DEF InOrder
<1>2. \A i \in 1..n : i \in Nat /\ i - 1 \in Nat /\ sg[i] = StageAfter(G, st, i) /\ sg[i - 1] = StageAfter(G, st, i - 1)
  OBVIOUS
<1> HIDE DEF sg
<1>3. ASSUME NEW i \in 1..n, i \in G
      PROVE  /\ Takes(Syntax[s], At(sg[i - 1], tr[i - 1]), key[i]) # {}
             /\ Min(Takes(Syntax[s], At(sg[i - 1], tr[i - 1]), key[i])) = sg[i]
             /\ Read(s, tr[i - 1], key[i], arg[i]) = {tr[i]}
  <2>1. PICK p : p = At(sg[i - 1], tr[i - 1]) /\ p.stage = StageAfter(G, st, i - 1)
    BY <1>2, AtParts
  <2>2. /\ StageAfter(G, st, i) = st[i] /\ Takes(Syntax[s], p, key[i]) # {}
        /\ Min(Takes(Syntax[s], p, key[i])) = st[i]
    BY <1>3, <2>1, TakenInOrder
  <2>3. Read(s, tr[i - 1], key[i], arg[i]) = {tr[i]}
    BY <1>3 DEF Reread
  <2> QED
    BY <1>2, <2>1, <2>2, <2>3
<1>4. ASSUME NEW i \in 1..n, i \notin G
      PROVE  sg[i] = sg[i - 1] /\ tr[i] = tr[i - 1]
  <2>1. \A j \in G : j <= i <=> j <= i - 1
    BY <1>1, <1>4
  <2>2. Passed(G, st, i) = Passed(G, st, i - 1)
    BY <2>1 DEF Passed
  <2> QED
    BY <1>2, <1>4, <2>2 DEF StageAfter, Reread
<1>5. StepByStep(s, n, G, key, arg, sg, tr)
  BY <1>3, <1>4 DEF StepByStep
<1> QED
  BY <1>5 DEF sg

LEMMA NothingPassed ==
  ASSUME NEW n \in Nat, NEW G, NEW st, \A i \in G : i \in 1..n
  PROVE  StageAfter(G, st, 0) = 0
<1>1. Passed(G, st, 0) = {0}
  BY DEF Passed
<1>2. Max({0}) = 0
  <2>1. {0} \in SUBSET Nat /\ {0} # {} /\ IsFiniteSet({0})
    BY FS_Singleton
  <2>2. Max({0}) \in {0}
    BY <2>1, MaxIsGreatest
  <2> QED
    BY <2>2
<1> QED
  BY <1>1, <1>2 DEF StageAfter

\* The trees tr, from the one before the first clause to one that is complete.
Regular(s, n, G, key, arg, st, tr) ==
  /\ n \in Nat /\ IsSyntax(Syntax[s]) /\ InOrder(Syntax[s], n, G, key, st)
  /\ tr[0] = Default(s) /\ Complete(s, tr[n]) /\ Reread(s, n, G, key, arg, tr)

LEMMA OrderedReread ==
  ASSUME NEW s, NEW n, NEW G, NEW key, NEW arg, NEW st, NEW tr, Regular(s, n, G, key, arg, st, tr)
  PROVE  TreesOf(s, FlattenSeq(Optional(n, G, key, arg))) = {AstOf(s, tr[n])}
<1>a. /\ n \in Nat /\ IsSyntax(Syntax[s]) /\ InOrder(Syntax[s], n, G, key, st)
      /\ tr[0] = Default(s) /\ Complete(s, tr[n]) /\ Reread(s, n, G, key, arg, tr)
  BY DEF Regular
<1>1. PICK m \in Nat : Len(Syntax[s]) = m /\ DOMAIN Syntax[s] = 1..m
  BY <1>a DEF IsSyntax
<1>2. PICK sg : sg = [i \in 0..n |-> StageAfter(G, st, i)]
  OBVIOUS
<1>3. StepByStep(s, n, G, key, arg, sg, tr)
  BY <1>1, <1>2, <1>a, InOrderStepByStep
<1>4. sg[0] = 0 /\ sg[n] = StageAfter(G, st, n)
  <2>1. \A i \in G : i \in 1..n
    BY <1>a DEF InOrder
  <2>2. 0 \in 0..n /\ n \in 0..n
    BY <1>a
  <2> QED
    BY <1>2, <1>a, <2>1, <2>2, NothingPassed
<1>5. ReadAll(s, FlattenSeq(Optional(n, G, key, arg))) = {At(sg[n], tr[n])}
  BY <1>3, <1>4, <1>a, ClausesReread, SMT
<1>6. PICK p : p = At(sg[n], tr[n]) /\ p.stage = sg[n] /\ p.tree = tr[n]
  BY AtParts
<1>7. MayEnd(s, p)
  <2>1. Ends(Syntax[s], p)
    BY <1>1, <1>4, <1>6, <1>a, EndsInOrder
  <2> QED
    BY <1>6, <1>a, <2>1 DEF MayEnd
<1>8. PICK text : text = FlattenSeq(Optional(n, G, key, arg))
  OBVIOUS
<1>9. {q \in ReadAll(s, text) : MayEnd(s, q)} = {p}
  BY <1>5, <1>6, <1>7, <1>8
<1>10. TreesOf(s, text) = {AstOf(s, q.tree) : q \in {p}}
  BY <1>9 DEF TreesOf
<1> QED
  BY <1>6, <1>8, <1>10

\* A text whose c-th clause is refused has no tree.
LEMMA RefusedReread ==
  ASSUME NEW s, NEW n \in Nat, NEW G, NEW key, NEW arg, NEW st, NEW tr, NEW c \in 1..n, c \in G,
         IsSyntax(Syntax[s]), InOrder(Syntax[s], n, G, key, st), tr[0] = Default(s),
         \A i \in 1..n : i < c =>
           IF i \in G THEN Read(s, tr[i - 1], key[i], arg[i]) = {tr[i]} ELSE tr[i] = tr[i - 1],
         Read(s, tr[c - 1], key[c], arg[c]) = {}
  PROVE  TreesOf(s, FlattenSeq(Optional(n, G, key, arg))) = {}
<1>1. PICK m \in Nat : Len(Syntax[s]) = m /\ DOMAIN Syntax[s] = 1..m
  BY DEF IsSyntax
<1>2. PICK sg : sg = [i \in 0..n |-> StageAfter(G, st, i)]
  OBVIOUS
<1>3. \A j \in G : j \in 1..n /\ st[j] \in 1..m
  BY <1>1 DEF InOrder
<1>4. \A i \in 1..n : i \in 0..n /\ i - 1 \in 0..n /\ i \in Nat /\ i - 1 \in Nat
  OBVIOUS
<1> DEFINE ss == Optional(n, G, key, arg)
           U == {<<key[i], arg[i]>> : i \in 1..n}
           pr == [i \in 0..n |-> IF i < c THEN {At(sg[i], tr[i])} ELSE {}]
<1>5. ss = [i \in 1..n |-> ss[i]] /\ \A i \in 1..n : ss[i] = IF i \in G THEN << <<key[i], arg[i]>> >> ELSE <<>>
  BY DEF Optional
<1> HIDE DEF ss
<1>6. ASSUME NEW i \in 1..n PROVE ss[i] \in Seq(U)
  <2>1. PICK d \in U : d = <<key[i], arg[i]>>
    OBVIOUS
  <2> HIDE DEF U
  <2>2. <<>> \in Seq(U) /\ <<d>> \in Seq(U)
    OBVIOUS
  <2> QED
    BY <1>5, <2>1, <2>2
<1>7. ss \in Seq(Seq(U)) /\ Len(ss) = n
  <2> HIDE DEF U
  <2> QED
    BY <1>5, <1>6
<1>8. \A i \in 0..n : pr[i] = IF i < c THEN {At(sg[i], tr[i])} ELSE {}
  OBVIOUS
<1> HIDE DEF pr
<1>9. \A d : ReadOn(s, {}, d) = {}
  BY DEF ReadOn
<1>10. ASSUME NEW i \in 1..n, i <= c PROVE pr[i - 1] = {At(sg[i - 1], tr[i - 1])}
  <2>1. i - 1 \in 0..n /\ i - 1 < c
    BY <1>10
  <2> QED
    BY <1>8, <2>1
<1>11. ASSUME NEW i \in 1..n, i \in G, i <= c
       PROVE  ReadOn(s, pr[i - 1], <<key[i], arg[i]>>) = pr[i]
  <2>1. PICK p : p = At(sg[i - 1], tr[i - 1]) /\ p.stage = sg[i - 1] /\ p.tree = tr[i - 1]
    BY AtParts
  <2>2. ReadOn(s, {p}, <<key[i], arg[i]>>) = Step(s, p, key[i], arg[i])
    BY DEF ReadOn
  <2>3. CASE i = c
    <3>1. Read(s, p.tree, key[i], arg[i]) = {}
      BY <2>1, <2>3
    <3>2. Step(s, p, key[i], arg[i]) = {}
      <4>1. \A y : {At(y, t) : t \in {}} = {}
        OBVIOUS
      <4>2. Reads(Syntax[s], p, key[i], {}) = {}
        BY <4>1 DEF Reads
      <4> QED
        BY <3>1, <4>2 DEF Step
    <3>3. pr[i] = {}
      BY <1>4, <1>8, <2>3
    <3> QED
      BY <1>10, <1>11, <2>1, <2>2, <3>2, <3>3
  <2>4. CASE i < c
    <3>1. sg[i] = StageAfter(G, st, i) /\ p.stage = StageAfter(G, st, i - 1)
      BY <1>2, <1>4, <2>1
    <3>2. Takes(Syntax[s], p, key[i]) # {} /\ Min(Takes(Syntax[s], p, key[i])) = sg[i]
      BY <1>1, <1>11, <3>1, TakenInOrder
    <3>3. Read(s, p.tree, key[i], arg[i]) = {tr[i]}
      BY <1>11, <2>1, <2>4
    <3>4. Reads(Syntax[s], p, key[i], {tr[i]}) = {At(sg[i], t) : t \in {tr[i]}}
      <4>1. PICK K : K = Takes(Syntax[s], p, key[i])
        OBVIOUS
      <4> QED
        BY <3>2, <4>1 DEF Reads
    <3>5. Step(s, p, key[i], arg[i]) = {At(sg[i], tr[i])}
      BY <3>3, <3>4 DEF Step
    <3>6. pr[i] = {At(sg[i], tr[i])}
      BY <1>4, <1>8, <2>4
    <3> QED
      BY <1>10, <1>11, <2>1, <2>2, <3>5, <3>6
  <2> QED
    BY <1>11, <2>3, <2>4
<1>12. ASSUME NEW i \in 1..n PROVE LeadsTo(s, pr[i - 1], ss[i], pr[i])
  <2>1. CASE i \in G /\ i <= c
    BY <1>5, <1>11, <2>1, LeadsOn
  <2>2. CASE i \in G /\ i > c
    <3>1. i - 1 \in 0..n /\ i \in 0..n /\ ~(i - 1 < c) /\ ~(i < c)
      BY <2>2
    <3>2. pr[i - 1] = {} /\ pr[i] = {}
      BY <1>8, <3>1
    <3>3. LeadsTo(s, {}, << <<key[i], arg[i]>> >>, {})
      BY <1>9, LeadsOn
    <3>4. ss[i] = << <<key[i], arg[i]>> >>
      BY <1>5, <2>2
    <3> QED
      BY <3>2, <3>3, <3>4
  <2>3. CASE i \notin G
    <3>1. i # c
      BY <2>3
    <3>2. pr[i] = pr[i - 1]
      <4>1. CASE i < c
        <5>1. sg[i] = sg[i - 1]
          <6>1. \A j \in G : j <= i <=> j <= i - 1
            BY <1>3, <2>3
          <6>2. Passed(G, st, i) = Passed(G, st, i - 1)
            BY <6>1 DEF Passed
          <6> QED
            BY <1>2, <1>4, <6>2 DEF StageAfter
        <5>2. tr[i] = tr[i - 1]
          BY <2>3, <4>1
        <5>3. i - 1 < c
          BY <4>1
        <5> QED
          BY <1>4, <1>8, <4>1, <5>1, <5>2, <5>3
      <4>2. CASE i > c
        <5>1. ~(i - 1 < c) /\ ~(i < c)
          BY <4>2
        <5> QED
          BY <1>4, <1>8, <5>1
      <4> QED
        BY <3>1, <4>1, <4>2
    <3>3. ss[i] = <<>>
      BY <1>5, <2>3
    <3>4. LeadsTo(s, pr[i], <<>>, pr[i])
      BY LeadsNowhere
    <3> QED
      BY <3>2, <3>3, <3>4
  <2>4. i <= c \/ i > c
    OBVIOUS
  <2> QED
    BY <2>1, <2>2, <2>3, <2>4
<1>13. FlattenSeq(ss) \in Seq(U) /\ LeadsTo(s, pr[0], FlattenSeq(ss), pr[n])
  <2> HIDE DEF U
  <2> QED
    BY <1>7, <1>12, FlattenedLeads
<1>14. pr[0] = {Begin(Default(s))} /\ pr[n] = {}
  <2>1. sg[0] = 0
    <3>1. StageAfter(G, st, 0) = 0
      BY <1>3, NothingPassed
    <3>2. 0 \in 0..n
      OBVIOUS
    <3> QED
      BY <1>2, <3>1, <3>2
  <2>2. 0 < c /\ ~(n < c) /\ 0 \in 0..n /\ n \in 0..n
    OBVIOUS
  <2> QED
    BY <1>8, <2>1, <2>2 DEF Begin
<1>15. ReadAll(s, FlattenSeq(ss)) = {}
  <2>1. IsText(FlattenSeq(ss))
    <3> HIDE DEF U
    <3> QED
      BY <1>13 DEF IsText
  <2> QED
    BY <1>13, <1>14, <2>1, ReadAllLeads
<1> QED
  BY <1>15 DEF ss, TreesOf

-----------------------------------------------------------------------------
(* The trees between: what was given so far is as in the tree K, the rest  *)
(* as before the first clause.  at[i] are the keys the i-th clause gives.  *)

GivenBy(G, at, i) == UNION {at[j] : j \in {k \in G : k <= i}}
Part(s, K, G, at, i) ==
  [k \in DOMAIN Default(s) \cup GivenBy(G, at, i) |-> IF k \in GivenBy(G, at, i) THEN K[k] ELSE Default(s)[k]]
Overlaid(t, keys, K) == [k \in DOMAIN t \cup keys |-> IF k \in keys THEN K[k] ELSE t[k]]
IsTree(t) == t = [k \in DOMAIN t |-> t[k]]

\* K is what the clauses give, each by itself, and the defaults of the rest.
Gives(s, n, G, key, arg, st, at, K) ==
  /\ n \in Nat /\ IsSyntax(Syntax[s]) /\ InOrder(Syntax[s], n, G, key, st)
  /\ IsTree(Default(s)) /\ IsTree(K)
  /\ DOMAIN K = DOMAIN Default(s) \cup GivenBy(G, at, n)
  /\ \A k \in DOMAIN Default(s) : k \notin GivenBy(G, at, n) => K[k] = Default(s)[k]
  /\ \A i \in G : Read(s, Part(s, K, G, at, i - 1), key[i], arg[i])
                    = {Overlaid(Part(s, K, G, at, i - 1), at[i], K)}
  /\ Complete(s, K)

LEMMA WrittenReread ==
  ASSUME NEW s, NEW n, NEW G, NEW key, NEW arg, NEW st, NEW at, NEW K,
         Gives(s, n, G, key, arg, st, at, K)
  PROVE  TreesOf(s, FlattenSeq(Optional(n, G, key, arg))) = {AstOf(s, K)}
<1>a. /\ n \in Nat /\ IsSyntax(Syntax[s]) /\ InOrder(Syntax[s], n, G, key, st) /\ Complete(s, K)
  BY DEF Gives
<1>b. /\ IsTree(Default(s)) /\ IsTree(K) /\ DOMAIN K = DOMAIN Default(s) \cup GivenBy(G, at, n)
      /\ \A k \in DOMAIN Default(s) : k \notin GivenBy(G, at, n) => K[k] = Default(s)[k]
  BY DEF Gives
<1>c. \A i \in G : Read(s, Part(s, K, G, at, i - 1), key[i], arg[i])
                    = {Overlaid(Part(s, K, G, at, i - 1), at[i], K)}
  BY DEF Gives
<1>1. \A i \in G : i \in 1..n
  BY <1>a DEF InOrder
<1> DEFINE tr == [i \in 0..n |-> Part(s, K, G, at, i)]
<1>2. tr[0] = Default(s)
  <2>1. GivenBy(G, at, 0) = {}
    BY <1>1 DEF GivenBy
  <2>2. PICK d : d = Default(s)
    OBVIOUS
  <2>3. Part(s, K, G, at, 0) = d
    BY <1>b, <2>1, <2>2 DEF Part, IsTree
  <2>4. tr[0] = Part(s, K, G, at, 0)
    BY <1>a
  <2> QED
    BY <2>2, <2>3, <2>4
<1>3. tr[n] = K
  <2>1. Part(s, K, G, at, n) = K
    BY <1>b DEF Part, IsTree
  <2>2. n \in 0..n
    BY <1>a
  <2> QED
    BY <2>1, <2>2
<1>4. \A i \in 1..n : tr[i] = Part(s, K, G, at, i) /\ tr[i - 1] = Part(s, K, G, at, i - 1)
  BY <1>a
<1> HIDE DEF tr
<1>5. ASSUME NEW i \in 1..n, i \in G
      PROVE  Overlaid(Part(s, K, G, at, i - 1), at[i], K) = Part(s, K, G, at, i)
  <2>1. GivenBy(G, at, i) = GivenBy(G, at, i - 1) \cup at[i]
    <3>1. \A j \in G : j <= i <=> j <= i - 1 \/ j = i
      BY <1>1, <1>a
    <3> QED
      BY <1>5, <3>1 DEF GivenBy
  <2>2. PICK A, B : A = GivenBy(G, at, i - 1) /\ B = GivenBy(G, at, i)
    OBVIOUS
  <2> QED
    BY <2>1, <2>2 DEF Overlaid, Part
<1>6. ASSUME NEW i \in 1..n, i \notin G
      PROVE  Part(s, K, G, at, i) = Part(s, K, G, at, i - 1)
  <2>1. \A j \in G : j <= i <=> j <= i - 1
    BY <1>1, <1>6, <1>a
  <2>2. GivenBy(G, at, i) = GivenBy(G, at, i - 1)
    BY <2>1 DEF GivenBy
  <2> QED
    BY <2>2 DEF Part
<1>7. Reread(s, n, G, key, arg, tr)
  <2>1. ASSUME NEW i \in 1..n, i \in G PROVE Read(s, tr[i - 1], key[i], arg[i]) = {tr[i]}
    BY <1>4, <1>5, <1>c, <2>1
  <2>2. ASSUME NEW i \in 1..n, i \notin G PROVE tr[i] = tr[i - 1]
    BY <1>4, <1>6, <2>2
  <2> QED
    BY <2>1, <2>2 DEF Reread
<1>8. Complete(s, tr[n])
  BY <1>3, <1>a
<1>9. PICK f : f[n] = K /\ Regular(s, n, G, key, arg, st, f)
  BY <1>2, <1>3, <1>7, <1>8, <1>a DEF Regular
<1> QED
  BY <1>9, OrderedReread

-----------------------------------------------------------------------------
(* The statements that are written clause after clause.                    *)

Words(txt) == {txt[i] : i \in DOMAIN txt}
\* Keywords of which a stage that does not loop takes one.
Rivals(k, l) ==
  \/ {k, l} \subseteq {"DIFF", "fields"} \/ {k, l} \subseteq {"TABLE", "DATABASE"}
  \/ {k, l} \subseteq {"ROOT", "NAMESPACE", "DATABASE", "TABLE", "USER", "INDEX"}
  \/ {k, l} \subseteq {"VERSION", "ON"}

\* The words of a text are in the order of the stages: rk[i] is the one that
\* takes the i-th.  D are the keywords that have a default.
Fits(syn, txt, rk, D) ==
  /\ IsSyntax(syn) /\ IsText(txt)
  /\ \A i \in DOMAIN txt : \A a \in DOMAIN syn : txt[i] \in syn[a].keys => rk[i] = a
  /\ \A i, j \in DOMAIN txt : i < j => /\ txt[i] # txt[j]
                                       /\ \/ rk[i] < rk[j]
                                          \/ rk[i] = rk[j] /\ (syn[rk[i]].loops \/ Rivals(txt[i], txt[j]))
  /\ \A i \in DOMAIN txt : txt[i] \in D => \E a \in DOMAIN syn : txt[i] \in syn[a].keys
  /\ D \subseteq Words(txt)

\* What the tree has was read in the stages so far, and what they must have
\* read is in it.
Held(syn, txt, D, Lost, p) ==
  /\ p.stage \in 0..Len(syn) /\ IsTree(p.tree) /\ D \subseteq DOMAIN p.tree
  /\ \A k \in DOMAIN p.tree :
       k \in Lost \/ (k \in Words(txt) /\ (k \in D \/ \E a \in DOMAIN syn : a <= p.stage /\ k \in syn[a].keys))
  /\ \A a \in DOMAIN syn : a <= p.stage /\ syn[a].must =>
       \E k \in syn[a].keys : k \in Words(txt) /\ k \in DOMAIN p.tree

GivenIn(t, txt) == {i \in DOMAIN txt : Given(t, txt[i])}
Compatible(t, txt) == \A i, j \in GivenIn(t, txt) : i < j => ~Rivals(txt[i], txt[j])

LEMMA HeldInOrder ==
  ASSUME NEW syn, NEW txt, NEW rk, NEW D, NEW Lost, NEW p, NEW n \in Nat, n = Len(txt),
         Fits(syn, txt, rk, D), Held(syn, txt, D, Lost, p), Ends(syn, p), Compatible(p.tree, txt),
         Lost \cap Words(txt) = {}
  PROVE  InOrder(syn, n, GivenIn(p.tree, txt), txt, rk)
<1>1. PICK m \in Nat : Len(syn) = m /\ DOMAIN syn = 1..m
  BY DEF Fits, IsSyntax
<1>2. PICK t, G : t = p.tree /\ G = GivenIn(t, txt)
  OBVIOUS
<1>3. DOMAIN txt = 1..n /\ \A i \in G : i \in 1..n /\ txt[i] \in DOMAIN t /\ txt[i] \in Words(txt)
  BY <1>2 DEF GivenIn, Given, Fits, IsText, Words
<1>4. ASSUME NEW i \in G PROVE rk[i] \in DOMAIN syn /\ txt[i] \in syn[rk[i]].keys
  <2>1. txt[i] \in D \/ \E a \in DOMAIN syn : txt[i] \in syn[a].keys
    BY <1>2, <1>3 DEF Held
  <2>2. PICK a \in DOMAIN syn : txt[i] \in syn[a].keys
    BY <1>3, <2>1 DEF Fits
  <2>3. rk[i] = a
    BY <1>3, <2>2 DEF Fits
  <2> QED
    BY <2>2, <2>3
<1>5. ASSUME NEW i \in G, NEW j \in G, i < j
      PROVE  rk[i] < rk[j] \/ (rk[i] = rk[j] /\ syn[rk[i]].loops)
  <2>1. ~Rivals(txt[i], txt[j])
    BY <1>2, <1>5 DEF Compatible
  <2> QED
    BY <1>3, <1>5, <2>1 DEF Fits
<1>6. ASSUME NEW a \in DOMAIN syn, syn[a].must PROVE \E i \in G : rk[i] = a
  <2>1. a <= p.stage
    <3>1. PICK z \in 0..m : z = p.stage
      BY <1>1 DEF Held
    <3>2. \A j \in z + 1..m : ~syn[j].must
      BY <1>1, <3>1 DEF Ends
    <3> QED
      BY <1>1, <1>6, <3>1, <3>2
  <2>2. PICK k \in syn[a].keys : k \in Words(txt) /\ k \in DOMAIN t
    BY <1>2, <1>6, <2>1 DEF Held
  <2>3. PICK i \in DOMAIN txt : k = txt[i]
    BY <2>2 DEF Words
  <2>4. i \in G
    BY <1>2, <2>2, <2>3 DEF GivenIn, Given
  <2>5. rk[i] = a
    BY <2>2, <2>3 DEF Fits
  <2> QED
    BY <2>4, <2>5
<1>7. ASSUME NEW i \in G, NEW a \in DOMAIN syn, a < rk[i], txt[i] \in syn[a].keys PROVE FALSE
  <2>1. rk[i] = a
    BY <1>3, <1>7 DEF Fits
  <2> QED
    BY <1>1, <1>7, <2>1
<1>8. InOrder(syn, n, G, txt, rk)
  BY <1>3, <1>4, <1>5, <1>6, <1>7 DEF InOrder
<1> QED
  BY <1>2, <1>8

\* The tree when the i-th clause is read again.
Earlier(K, txt, i) == {txt[j] : j \in {l \in DOMAIN txt : l < i /\ txt[l] \in DOMAIN K}}
Before(s, K, txt, i) ==
  [k \in DOMAIN Default(s) \cup Earlier(K, txt, i) |-> IF k \in Earlier(K, txt, i) THEN K[k] ELSE Default(s)[k]]

\* Each clause of the tree t is read again as it is in K.
Rereads(s, txt, t, K) ==
  /\ IsTree(K) /\ DOMAIN K = DOMAIN t \cap Words(txt) /\ Complete(s, K)
  /\ \A i \in DOMAIN txt : Given(t, txt[i]) =>
       Read(s, Before(s, K, txt, i), txt[i], WriteArg(txt[i], t[txt[i]])) = {With(Before(s, K, txt, i), txt[i], K[txt[i]])}

\* All that was shown is read again.
Shown(s, txt, rk, Lost, p) ==
  /\ Fits(Syntax[s], txt, rk, DOMAIN Default(s)) /\ IsTree(Default(s)) /\ Lost \cap Words(txt) = {}
  /\ Held(Syntax[s], txt, DOMAIN Default(s), Lost, p) /\ Ends(Syntax[s], p) /\ Compatible(p.tree, txt)

LEMMA ShownGives ==
  ASSUME NEW s, NEW txt, NEW rk, NEW Lost, NEW p, NEW K, NEW n \in Nat, n = Len(txt),
         Shown(s, txt, rk, Lost, p), Rereads(s, txt, p.tree, K)
  PROVE  Gives(s, n, GivenIn(p.tree, txt), txt, [i \in 1..n |-> WriteArg(txt[i], p.tree[txt[i]])], rk,
               [i \in 1..n |-> {txt[i]}], K)
<1>1. PICK t, G, D : t = p.tree /\ G = GivenIn(t, txt) /\ D = DOMAIN Default(s)
  OBVIOUS
<1>2. PICK at : at = [i \in 1..n |-> {txt[i]}]
  OBVIOUS
<1>3. PICK arg : arg = [i \in 1..n |-> WriteArg(txt[i], t[txt[i]])]
  OBVIOUS
<1>4. DOMAIN txt = 1..n /\ D \subseteq Words(txt) /\ D \subseteq DOMAIN t
  BY <1>1 DEF Shown, Fits, IsText, Held
<1>5. IsSyntax(Syntax[s]) /\ IsTree(Default(s)) /\ IsTree(K) /\ Complete(s, K) /\ DOMAIN K = DOMAIN t \cap Words(txt)
  BY <1>1 DEF Shown, Fits, Rereads
<1>6. InOrder(Syntax[s], n, G, txt, rk)
  <2>1. /\ Fits(Syntax[s], txt, rk, D) /\ Held(Syntax[s], txt, D, Lost, p) /\ Ends(Syntax[s], p)
        /\ Compatible(p.tree, txt) /\ Lost \cap Words(txt) = {}
    BY <1>1 DEF Shown
  <2> QED
    BY <1>1, <2>1, HeldInOrder
<1>7. \A i \in 1..n : i \in G <=> txt[i] \in DOMAIN K
  BY <1>1, <1>4, <1>5 DEF GivenIn, Given, Words
<1>8. \A i : GivenBy(G, at, i) = {txt[j] : j \in {k \in G : k <= i}}
  <2>1. ASSUME NEW i PROVE GivenBy(G, at, i) = {txt[j] : j \in {k \in G : k <= i}}
    <3>1. \A j \in G : j \in 1..n /\ at[j] = {txt[j]}
      BY <1>1, <1>2, <1>4 DEF GivenIn
    <3>2. PICK H : H = {k \in G : k <= i}
      OBVIOUS
    <3>3. \A j \in H : at[j] = {txt[j]}
      BY <3>1, <3>2
    <3> QED
      BY <3>2, <3>3 DEF GivenBy
  <2> QED
    BY <2>1
<1>9. GivenBy(G, at, n) = DOMAIN K
  <2>1. {k \in G : k <= n} = G
    BY <1>1, <1>4 DEF GivenIn
  <2>2. {txt[j] : j \in G} = DOMAIN K
    BY <1>1, <1>4, <1>5 DEF GivenIn, Given, Words
  <2> QED
    BY <1>8, <2>1, <2>2
<1>10. ASSUME NEW i \in 1..n PROVE GivenBy(G, at, i - 1) = Earlier(K, txt, i)
  <2>1. {k \in G : k <= i - 1} = {l \in DOMAIN txt : l < i /\ txt[l] \in DOMAIN K}
    <3>1. G \subseteq 1..n
      BY <1>1, <1>4 DEF GivenIn
    <3>2. ASSUME NEW k \in 1..n PROVE k <= i - 1 <=> k < i
      OBVIOUS
    <3> QED
      BY <1>4, <1>7, <3>1, <3>2
  <2> QED
    BY <1>8, <2>1 DEF Earlier
<1>11. ASSUME NEW i \in G
       PROVE  Read(s, Part(s, K, G, at, i - 1), txt[i], arg[i]) = {Overlaid(Part(s, K, G, at, i - 1), at[i], K)}
  <2>1. i \in 1..n /\ Given(t, txt[i])
    BY <1>1, <1>4 DEF GivenIn
  <2>2. PICK b : b = Before(s, K, txt, i)
    OBVIOUS
  <2>3. Part(s, K, G, at, i - 1) = b
    BY <1>10, <2>1, <2>2 DEF Part, Before
  <2>4. Read(s, b, txt[i], arg[i]) = {With(b, txt[i], K[txt[i]])}
    BY <1>1, <1>3, <1>4, <2>1, <2>2 DEF Rereads
  <2>5. Overlaid(b, at[i], K) = With(b, txt[i], K[txt[i]])
    BY <1>2, <2>1 DEF Overlaid, With
  <2> QED
    BY <2>3, <2>4, <2>5
<1>12. Gives(s, n, G, txt, arg, rk, at, K)
  BY <1>1, <1>4, <1>5, <1>6, <1>9, <1>11 DEF Gives
<1> QED
  BY <1>1, <1>2, <1>3, <1>12

LEMMA ShownReread ==
  ASSUME NEW s, NEW txt, NEW rk, NEW Lost, NEW p, NEW K,
         Shown(s, txt, rk, Lost, p), Rereads(s, txt, p.tree, K)
  PROVE  TreesOf(s, ShowAll(p.tree, txt)) = {AstOf(s, K)}
<1>1. PICK n \in Nat : n = Len(txt) /\ DOMAIN txt = 1..n
  BY DEF Shown, Fits, IsText
<1>2. PICK t, G, arg, at : /\ t = p.tree /\ G = GivenIn(t, txt) /\ at = [i \in 1..n |-> {txt[i]}]
                           /\ arg = [i \in 1..n |-> WriteArg(txt[i], t[txt[i]])]
  OBVIOUS
<1>3. Gives(s, n, G, txt, arg, rk, at, K)
  BY <1>1, <1>2, ShownGives
<1>4. TreesOf(s, FlattenSeq(Optional(n, G, txt, arg))) = {AstOf(s, K)}
  BY <1>3, WrittenReread
<1>5. ShowAll(t, txt) = FlattenSeq(Optional(n, G, txt, arg))
  <2>1. ASSUME NEW i \in 1..n
        PROVE  Show(t, txt[i]) = IF i \in G THEN << <<txt[i], arg[i]>> >> ELSE <<>>
    BY <1>1, <1>2, <2>1 DEF Show, GivenIn
  <2>2. [i \in DOMAIN txt |-> Show(t, txt[i])] = Optional(n, G, txt, arg)
    BY <1>1, <2>1 DEF Optional
  <2> QED
    BY <2>2 DEF ShowAll
<1> QED
  BY <1>2, <1>4, <1>5

-----------------------------------------------------------------------------
(* One clause more.                                                        *)

\* Where a clause takes the parser.
LEMMA StepParts ==
  ASSUME NEW syn, IsSyntax(syn), NEW p, p.stage \in Nat, NEW key, NEW trees, NEW q \in Reads(syn, p, key, trees)
  PROVE  /\ q.tree \in trees /\ q.stage \in DOMAIN syn /\ key \in syn[q.stage].keys
         /\ q.stage > p.stage \/ (q.stage = p.stage /\ syn[q.stage].loops)
         /\ \A b \in DOMAIN syn : p.stage < b /\ b < q.stage => ~syn[b].must
<1>1. PICK m \in Nat : Len(syn) = m /\ DOMAIN syn = 1..m
  BY DEF IsSyntax
<1>2. PICK T : T = Takes(syn, p, key)
  OBVIOUS
<1>3. T # {}
  BY <1>2 DEF Reads
<1>4. PICK t \in trees : q = At(Min(T), t)
  BY <1>2, <1>3 DEF Reads
<1>5. T \in SUBSET Nat
  BY <1>1, <1>2 DEF Takes, Reachable
<1>6. PICK a : a = Min(T) /\ a \in T
  BY <1>3, <1>5, MinIsLeast
<1>7. /\ a \in 1..m /\ key \in syn[a].keys /\ (a > p.stage \/ (a = p.stage /\ syn[a].loops))
      /\ \A j \in p.stage + 1..a - 1 : ~syn[j].must
  BY <1>1, <1>2, <1>6 DEF Takes, Reachable
<1>8. q.stage = a /\ q.tree = t
  BY <1>4, <1>6, AtParts
<1>9. ASSUME NEW b \in DOMAIN syn, p.stage < b, b < a PROVE ~syn[b].must
  <2>1. b \in p.stage + 1..a - 1
    BY <1>1, <1>7, <1>9
  <2> QED
    BY <1>7, <2>1
<1> QED
  BY <1>1, <1>7, <1>8, <1>9

\* What the clause of a keyword may do to the tree t: what it adds has its
\* place in the text, and what it drops may be absent.
Tame(syn, txt, D, Lost, t, key, u) ==
  /\ IsTree(u)
  /\ \A k \in DOMAIN t : k \notin DOMAIN u => k \notin D /\ \A a \in DOMAIN syn : k \in syn[a].keys => ~syn[a].must
  /\ \A a \in DOMAIN syn : key \in syn[a].keys =>
       /\ \A k \in DOMAIN u : k \in DOMAIN t \/ k \in Lost \/ (k \in Words(txt) /\ (k \in D \/ k \in syn[a].keys))
       /\ syn[a].must => \E k \in syn[a].keys : k \in Words(txt) /\ k \in DOMAIN u

LEMMA HeldBegins ==
  ASSUME NEW syn, NEW txt, NEW D, NEW Lost, NEW t, IsSyntax(syn), IsTree(t), DOMAIN t = D, D \subseteq Words(txt)
  PROVE  Held(syn, txt, D, Lost, Begin(t))
<1>1. PICK p : p = Begin(t) /\ p.stage = 0 /\ p.tree = t
  BY AtParts DEF Begin
<1>2. PICK m \in Nat : Len(syn) = m /\ DOMAIN syn = 1..m
  BY DEF IsSyntax
<1>3. Held(syn, txt, D, Lost, p)
  BY <1>1, <1>2 DEF Held
<1> QED
  BY <1>1, <1>3

LEMMA HeldStep ==
  ASSUME NEW syn, NEW txt, NEW D, NEW Lost, NEW p, NEW key, NEW trees, NEW q \in Reads(syn, p, key, trees),
         IsSyntax(syn), Held(syn, txt, D, Lost, p), Tame(syn, txt, D, Lost, p.tree, key, q.tree)
  PROVE  Held(syn, txt, D, Lost, q)
<1>1. PICK m \in Nat : Len(syn) = m /\ DOMAIN syn = 1..m
  BY DEF IsSyntax
<1>1a. PICK z \in Nat : z = p.stage
  BY <1>1 DEF Held
<1>2. PICK t, u : z = p.stage /\ t = p.tree /\ u = q.tree /\ z \in 0..m
  BY <1>1, <1>1a DEF Held
<1>3. PICK a \in 1..m : a = q.stage /\ key \in syn[a].keys /\ z <= a /\ \A b \in 1..m : z < b /\ b < a => ~syn[b].must
  <2>1. /\ q.stage \in DOMAIN syn /\ key \in syn[q.stage].keys
        /\ q.stage > p.stage \/ (q.stage = p.stage /\ syn[q.stage].loops)
        /\ \A b \in DOMAIN syn : p.stage < b /\ b < q.stage => ~syn[b].must
    BY <1>2, StepParts
  <2> QED
    BY <1>1, <1>2, <2>1
<1>4. Tame(syn, txt, D, Lost, t, key, u)
  BY <1>2
<1>5. D \subseteq DOMAIN u
  <2>1. D \subseteq DOMAIN t
    BY <1>2 DEF Held
  <2> QED
    BY <1>4, <2>1 DEF Tame
<1>6. ASSUME NEW k \in DOMAIN u
      PROVE  k \in Lost \/ (k \in Words(txt) /\ (k \in D \/ \E b \in DOMAIN syn : b <= a /\ k \in syn[b].keys))
  <2>1. CASE k \in DOMAIN t
    <3>1. k \in Lost \/ (k \in Words(txt) /\ (k \in D \/ \E b \in DOMAIN syn : b <= z /\ k \in syn[b].keys))
      BY <1>2, <2>1 DEF Held
    <3> QED
      BY <1>1, <1>2, <1>3, <3>1
  <2>2. CASE k \notin DOMAIN t
    <3>1. k \in Lost \/ (k \in Words(txt) /\ (k \in D \/ k \in syn[a].keys))
      BY <1>1, <1>3, <1>4, <2>2 DEF Tame
    <3> QED
      BY <1>1, <1>3, <3>1
  <2> QED
    BY <2>1, <2>2
<1>7. ASSUME NEW b \in DOMAIN syn, b <= a, syn[b].must
      PROVE  \E k \in syn[b].keys : k \in Words(txt) /\ k \in DOMAIN u
  <2>1. CASE b <= z
    <3>1. PICK k \in syn[b].keys : k \in Words(txt) /\ k \in DOMAIN t
      BY <1>2, <1>7, <2>1 DEF Held
    <3>2. k \in DOMAIN u
      BY <1>4, <1>7, <3>1 DEF Tame
    <3> QED
      BY <3>1, <3>2
  <2>2. CASE b = a
    BY <1>1, <1>3, <1>4, <1>7, <2>2 DEF Tame
  <2> QED
    BY <1>1, <1>2, <1>3, <1>7, <2>1, <2>2
<1>8. IsTree(u)
  BY <1>4 DEF Tame
<1> QED
  BY <1>1, <1>2, <1>3, <1>5, <1>6, <1>7, <1>8 DEF Held

\* The clauses that only give their keyword its argument, take it away, or
\* leave the tree as it was.
Simple(syn, txt, D, Lost, key) ==
  \A a \in DOMAIN syn : key \in syn[a].keys =>
    (key \in Lost /\ ~syn[a].must) \/ key \in Words(txt)

LEMMA GivingIsTame ==
  ASSUME NEW syn, NEW txt, NEW D, NEW Lost, NEW t, NEW key, NEW x, IsTree(t), Simple(syn, txt, D, Lost, key)
  PROVE  Tame(syn, txt, D, Lost, t, key, With(t, key, x))
<1>1. PICK u : u = With(t, key, x)
  OBVIOUS
<1>2. IsTree(u) /\ DOMAIN u = DOMAIN t \cup {key}
  BY <1>1 DEF With, IsTree
<1>3. Tame(syn, txt, D, Lost, t, key, u)
  BY <1>2 DEF Tame, Simple
<1> QED
  BY <1>1, <1>3

LEMMA LeavingIsTame ==
  ASSUME NEW syn, NEW txt, NEW D, NEW Lost, NEW t, NEW key, IsTree(t),
         \A a \in DOMAIN syn : key \in syn[a].keys => ~syn[a].must
  PROVE  Tame(syn, txt, D, Lost, t, key, t)
BY DEF Tame

LEMMA TakingIsTame ==
  ASSUME NEW syn, NEW txt, NEW D, NEW Lost, NEW t, NEW key, IsTree(t), key \notin D,
         \A a \in DOMAIN syn : key \in syn[a].keys => ~syn[a].must
  PROVE  Tame(syn, txt, D, Lost, t, key, Without(t, {key}))
<1>1. PICK u : u = Without(t, {key})
  OBVIOUS
<1>2. IsTree(u) /\ DOMAIN u = DOMAIN t \ {key}
  BY <1>1 DEF Without, IsTree
<1>3. Tame(syn, txt, D, Lost, t, key, u)
  BY <1>2 DEF Tame
<1> QED
  BY <1>1, <1>3

-----------------------------------------------------------------------------
(* The step of the parser, for any kind of statement.                      *)

\* What the stages and the text of a kind of statement have to do with each
\* other: of two rivals the one stage that knows both takes only one.
Planned(syn, txt, rk, D, Lost) ==
  /\ Fits(syn, txt, rk, D) /\ Lost \cap Words(txt) = {}
  /\ \A i, j \in DOMAIN txt : i < j /\ Rivals(txt[i], txt[j]) =>
       txt[i] \notin D /\ txt[j] \notin D /\ rk[i] = rk[j] /\ ~syn[rk[i]].loops

\* The parser while it reads a statement of that kind.
Sound(syn, txt, rk, D, Lost, p) ==
  Planned(syn, txt, rk, D, Lost) /\ Held(syn, txt, D, Lost, p) /\ Compatible(p.tree, txt)

Skippable(syn, key) == \A a \in DOMAIN syn : key \in syn[a].keys => ~syn[a].must

\* A clause that gives its keyword an argument, or takes it away, or nothing.
Ordinary(syn, txt, D, Lost, t, key, u) ==
  \/ Simple(syn, txt, D, Lost, key) /\ \E x : u = With(t, key, x)
  \/ Skippable(syn, key) /\ u = t
  \/ Skippable(syn, key) /\ key \notin D /\ u = Without(t, {key})

LEMMA OrdinaryIsTame ==
  ASSUME NEW syn, NEW txt, NEW D, NEW Lost, NEW t, NEW key, NEW u, IsTree(t),
         Ordinary(syn, txt, D, Lost, t, key, u)
  PROVE  Tame(syn, txt, D, Lost, t, key, u) /\ DOMAIN u \subseteq DOMAIN t \cup {key}
<1>1. CASE Simple(syn, txt, D, Lost, key) /\ \E x : u = With(t, key, x)
  <2>1. PICK x : u = With(t, key, x)
    BY <1>1
  <2>2. DOMAIN u = DOMAIN t \cup {key}
    BY <2>1 DEF With
  <2> QED
    BY <1>1, <2>1, <2>2, GivingIsTame
<1>2. CASE Skippable(syn, key) /\ u = t
  BY <1>2, LeavingIsTame DEF Skippable
<1>3. CASE Skippable(syn, key) /\ key \notin D /\ u = Without(t, {key})
  <2>1. DOMAIN u \subseteq DOMAIN t
    BY <1>3 DEF Without
  <2> QED
    BY <1>3, <2>1, TakingIsTame DEF Skippable
<1> QED
  BY <1>1, <1>2, <1>3 DEF Ordinary

LEMMA Advance ==
  ASSUME NEW syn, NEW txt, NEW rk, NEW D, NEW Lost, NEW p, Sound(syn, txt, rk, D, Lost, p),
         NEW key, NEW trees, NEW q \in Reads(syn, p, key, trees),
         Ordinary(syn, txt, D, Lost, p.tree, key, q.tree)
  PROVE  Sound(syn, txt, rk, D, Lost, q)
<1>1. /\ Planned(syn, txt, rk, D, Lost) /\ Held(syn, txt, D, Lost, p) /\ Compatible(p.tree, txt)
      /\ Fits(syn, txt, rk, D) /\ IsSyntax(syn)
  BY DEF Sound, Planned, Fits
<1>2. PICK t, u, z, y : t = p.tree /\ u = q.tree /\ z = p.stage /\ y = q.stage
  OBVIOUS
<1>3. Tame(syn, txt, D, Lost, t, key, u) /\ DOMAIN u \subseteq DOMAIN t \cup {key}
  <2>1. IsTree(t)
    BY <1>1, <1>2 DEF Held
  <2> QED
    BY <1>2, <2>1, OrdinaryIsTame
<1>4. Held(syn, txt, D, Lost, q)
  BY <1>1, <1>2, <1>3, HeldStep
<1>5. PICK m \in Nat : Len(syn) = m /\ DOMAIN syn = 1..m /\ z \in 0..m
  BY <1>1, <1>2 DEF IsSyntax, Held
<1>6. y \in 1..m /\ key \in syn[y].keys /\ (y > z \/ (y = z /\ syn[y].loops))
  BY <1>1, <1>2, <1>5, StepParts
<1>7. ASSUME NEW l \in DOMAIN t, l \in Words(txt), l \notin D
      PROVE  \E a \in 1..m : a <= z /\ l \in syn[a].keys
  <2>1. l \notin Lost
    BY <1>1, <1>7 DEF Planned
  <2> QED
    BY <1>1, <1>2, <1>5, <1>7, <2>1 DEF Held
<1>8. Compatible(u, txt)
  <2> SUFFICES ASSUME NEW i \in DOMAIN txt, NEW j \in DOMAIN txt, i < j, Rivals(txt[i], txt[j]),
                      txt[i] \in DOMAIN u, txt[j] \in DOMAIN u
               PROVE  FALSE
    BY DEF Compatible, GivenIn, Given
  <2>1. /\ txt[i] \notin D /\ txt[j] \notin D /\ rk[i] = rk[j] /\ ~syn[rk[i]].loops /\ txt[i] # txt[j]
        /\ txt[i] \in Words(txt) /\ txt[j] \in Words(txt)
    BY <1>1 DEF Planned, Fits, Words
  <2>2. ~(txt[i] \in DOMAIN t /\ txt[j] \in DOMAIN t)
    BY <1>1, <1>2 DEF Compatible, GivenIn, Given
  <2>3. ASSUME NEW k \in DOMAIN txt, txt[k] \in DOMAIN t, txt[k] \notin D
        PROVE  rk[k] \in 1..m /\ rk[k] <= z
    <3>1. PICK a \in 1..m : a <= z /\ txt[k] \in syn[a].keys
      BY <1>7, <2>3 DEF Words
    <3>2. rk[k] = a
      BY <1>1, <1>5, <3>1 DEF Fits
    <3> QED
      BY <3>1, <3>2
  <2>4. ASSUME NEW k \in DOMAIN txt, txt[k] = key
        PROVE  rk[k] = y
    BY <1>1, <1>5, <1>6, <2>4 DEF Fits
  <2>5. CASE txt[i] \in DOMAIN t /\ txt[j] = key
    <3>1. rk[i] \in 1..m /\ rk[i] <= z /\ rk[j] = y
      BY <2>1, <2>3, <2>4, <2>5
    <3> QED
      BY <1>5, <1>6, <2>1, <3>1
  <2>6. CASE txt[j] \in DOMAIN t /\ txt[i] = key
    <3>1. rk[j] \in 1..m /\ rk[j] <= z /\ rk[i] = y
      BY <2>1, <2>3, <2>4, <2>6
    <3> QED
      BY <1>5, <1>6, <2>1, <3>1
  <2> QED
    BY <1>3, <2>1, <2>2, <2>5, <2>6
<1> QED
  BY <1>1, <1>2, <1>4, <1>8 DEF Sound

\* A statement of that kind that may end.
Finished(s, txt, rk, Lost, p) ==
  Sound(Syntax[s], txt, rk, DOMAIN Default(s), Lost, p) /\ IsTree(Default(s)) /\ MayEnd(s, p)

\* What is shown of its tree is read again as K.
LEMMA SoundReread ==
  ASSUME NEW s, NEW txt, NEW rk, NEW Lost, NEW p, NEW K, Finished(s, txt, rk, Lost, p), Rereads(s, txt, p.tree, K)
  PROVE  TreesOf(s, ShowAll(p.tree, txt)) = {AstOf(s, K)}
<1>1. Shown(s, txt, rk, Lost, p)
  BY DEF Shown, Finished, Sound, Planned, MayEnd
<1> QED
  BY <1>1, ShownReread

\* K is what a text says of t.
Said(t, txt, K) ==
  IsTree(K) /\ DOMAIN K = DOMAIN t \cap Words(txt) /\ \A k \in DOMAIN t \cap Words(txt) : K[k] = t[k]

LEMMA WithoutLost ==
  ASSUME NEW syn, NEW txt, NEW rk, NEW D, NEW Lost, NEW p, Sound(syn, txt, rk, D, Lost, p)
  PROVE  Said(p.tree, txt, Without(p.tree, Lost)) /\ (Lost = {} => Without(p.tree, Lost) = p.tree)
<1>1. PICK t, K : t = p.tree /\ K = Without(t, Lost)
  OBVIOUS
<1>2. IsTree(t) /\ \A k \in DOMAIN t : k \in Lost \/ k \in Words(txt)
  BY <1>1 DEF Sound, Held
<1>3. Lost \cap Words(txt) = {}
  BY DEF Sound, Planned
<1>4. K = [k \in DOMAIN t \ Lost |-> t[k]]
  BY <1>1 DEF Without
<1>5. Said(t, txt, K)
  BY <1>2, <1>3, <1>4 DEF Said, IsTree
<1>6. ASSUME Lost = {}
      PROVE  K = t
  BY <1>2, <1>4, <1>6 DEF IsTree
<1> QED
  BY <1>1, <1>5, <1>6

\* The clauses of t are read as they are written, whatever was read before.
AsWritten(s, txt, t) ==
  \A i \in DOMAIN txt : Given(t, txt[i]) =>
    \A b : Read(s, b, txt[i], WriteArg(txt[i], t[txt[i]])) = {With(b, txt[i], t[txt[i]])}

LEMMA AsWrittenReread ==
  ASSUME NEW s, NEW txt, NEW rk, NEW Lost, NEW p, Finished(s, txt, rk, Lost, p),
         AsWritten(s, txt, p.tree), Complete(s, Without(p.tree, Lost))
  PROVE  TreesOf(s, ShowAll(p.tree, txt)) = {AstOf(s, Without(p.tree, Lost))}
<1>1. PICK t, K : t = p.tree /\ K = Without(p.tree, Lost)
  OBVIOUS
<1>2. Said(t, txt, K)
  BY <1>1, WithoutLost DEF Finished
<1>3. ASSUME NEW i \in DOMAIN txt, Given(t, txt[i]), NEW b
      PROVE  Read(s, b, txt[i], WriteArg(txt[i], t[txt[i]])) = {With(b, txt[i], K[txt[i]])}
  <2>1. K[txt[i]] = t[txt[i]]
    BY <1>2, <1>3 DEF Said, Given, Words
  <2> QED
    BY <1>1, <1>3, <2>1 DEF AsWritten
<1>4. Rereads(s, txt, t, K)
  BY <1>1, <1>2, <1>3 DEF Rereads, Said
<1>5. TreesOf(s, ShowAll(p.tree, txt)) = {AstOf(s, K)}
  BY <1>1, <1>4, SoundReread
<1> QED
  BY <1>1, <1>5

-----------------------------------------------------------------------------
(* The statements whose clauses are kept as they are, but for a COMMENT     *)
(* that is NONE.                                                           *)

\* The facts about their stages and texts.
Plain(syn, txt, D, Lost) ==
  /\ \A a \in DOMAIN syn : \A k \in syn[a].keys : k \in Words(txt) \/ (k \in Lost /\ ~syn[a].must)
  /\ \A i \in DOMAIN txt : txt[i] \notin {"PERMISSIONS", "TYPE"}
  /\ Skippable(syn, "COMMENT") /\ "COMMENT" \notin D
PlainTree(t) == "COMMENT" \in DOMAIN t => t["COMMENT"] # "NONE"

LEMMA EachIsSimple ==
  ASSUME NEW syn, NEW txt, NEW D, NEW Lost, NEW key,
         \A a \in DOMAIN syn : \A k \in syn[a].keys : k \in Words(txt) \/ (k \in Lost /\ ~syn[a].must)
  PROVE  Simple(syn, txt, D, Lost, key)
BY DEF Simple

LEMMA ReadPlainIsOrdinary ==
  ASSUME NEW syn, NEW txt, NEW D, NEW Lost, NEW t, NEW key, NEW arg, NEW u \in ReadPlain(t, key, arg),
         Simple(syn, txt, D, Lost, key), Skippable(syn, "COMMENT"), "COMMENT" \notin D, PlainTree(t)
  PROVE  Ordinary(syn, txt, D, Lost, t, key, u) /\ PlainTree(u)
<1>1. CASE key # "COMMENT" \/ arg # "NONE"
  <2>1. u = With(t, key, arg)
    BY <1>1 DEF ReadPlain, WithComment
  <2>2. PlainTree(u)
    BY <1>1, <2>1 DEF PlainTree, With
  <2> QED
    BY <2>1, <2>2 DEF Ordinary
<1>2. CASE key = "COMMENT" /\ arg = "NONE"
  <2>1. u = Without(t, {"COMMENT"})
    BY <1>2 DEF ReadPlain, WithComment
  <2>2. PlainTree(u)
    BY <2>1 DEF PlainTree, Without
  <2> QED
    BY <1>2, <2>1, <2>2 DEF Ordinary
<1> QED
  BY <1>1, <1>2

-----------------------------------------------------------------------------
(* The stages, the text and the first tree of each kind of statement.      *)
Laid(s, syn, txt, t) == Syntax[s] = syn /\ Text[s] = txt /\ Default(s) = t /\ IsTree(t)
ExplainDefault == [FORMAT |-> "TEXT"]

LEMMA Layouts ==
  /\ Laid("update", UpdateSyntax, UpdateText, NoTree)
  /\ Laid("upsert", UpdateSyntax, UpdateText, NoTree)
  /\ Laid("live", LiveSyntax, LiveText, NoTree)
  /\ Laid("show", ShowSyntax, ShowText, NoTree)
  /\ Laid("rebuild", RebuildSyntax, RebuildText, NoTree)
  /\ Laid("for", ForSyntax, ForText, NoTree)
  /\ Laid("let", LetSyntax, LetText, NoTree)
  /\ Laid("return", ReturnSyntax, ReturnText, NoTree)
  /\ Laid("kill", KillSyntax, KillText, NoTree)
  /\ Laid("sleep", KillSyntax, KillText, NoTree)
  /\ Laid("explain", ExplainSyntax, ExplainText, ExplainDefault)
  /\ Laid("alterNamespace", AlterDatabaseSyntax, AlterDatabaseText, NoTree)
  /\ Laid("alterDatabase", AlterDatabaseSyntax, AlterDatabaseText, NoTree)
  /\ Laid("alterIndex", AlterIndexSyntax, AlterIndexText, NoTree)
  /\ Laid("alterSystem", AlterSystemSyntax, AlterSystemText, NoTree)
  /\ Laid("alterSequence", AlterSequenceSyntax, AlterSequenceText, NoTree)
  /\ Laid("defineNamespace", NamespaceSyntax, NamespaceText, NoTree)
  /\ Laid("defineDatabase", DatabaseSyntax, DatabaseText, NoTree)
  /\ Laid("defineFunction", FunctionSyntax, FunctionText, PermissionDefault)
  /\ Laid("defineModule", ModuleSyntax, ModuleText, PermissionDefault)
  /\ Laid("defineParam", ParamSyntax, ParamText, ParamDefault)
  /\ Laid("defineAnalyzer", AnalyzerSyntax, AnalyzerText, NoTree)
  /\ Laid("defineBucket", BucketSyntax, BucketText, PermissionDefault)
  /\ Laid("defineSequence", SequenceSyntax, SequenceText, SequenceDefault)
  /\ Laid("configApi", ConfigApiSyntax, ConfigApiText, PermissionDefault)
  /\ Laid("removeNamespace", Expunging, RemoveText, NoTree)
  /\ Laid("removeDatabase", Expunging, RemoveText, NoTree)
  /\ Laid("removeTable", Expunging, RemoveText, NoTree)
  /\ Laid("removeFunction", Named, RemoveText, NoTree)
  /\ Laid("removeModule", Named, RemoveText, NoTree)
  /\ Laid("removeParam", Named, RemoveText, NoTree)
  /\ Laid("removeAccess", NamedOn, RemoveText, NoTree)
  /\ Laid("removeAnalyzer", Named, RemoveText, NoTree)
  /\ Laid("removeSequence", Named, RemoveText, NoTree)
  /\ Laid("removeApi", Named, RemoveText, NoTree)
  /\ Laid("removeBucket", Named, RemoveText, NoTree)
  /\ Laid("removeEvent", NamedOn, RemoveText, NoTree)
  /\ Laid("removeField", NamedOn, RemoveText, NoTree)
  /\ Laid("removeIndex", NamedOn, RemoveText, NoTree)
  /\ Laid("removeUser", NamedOn, RemoveText, NoTree)
  /\ Laid("create", CreateSyntax, CreateText, NoTree)
  /\ Laid("insert", InsertSyntax, InsertText, NoTree)
  /\ Laid("delete", DeleteSyntax, DeleteText, NoTree)
  /\ Laid("transaction", TransactionSyntax, TransactionText, NoTree)
  /\ Laid("option", OptionSyntax, OptionText, NoTree)
  /\ Laid("relate", RelateSyntax, RelateText, NoTree)
  /\ Laid("select", SelectSyntax, SelectText, NoTree)
  /\ Laid("info", InfoSyntax, InfoText, NoTree)
  /\ Laid("alterField", AlterFieldSyntax, AlterFieldText, NoTree)
  /\ Laid("defineTable", TableSyntax, TableText, TableDefault)
  /\ Laid("defineField", FieldSyntax, FieldText, FieldDefault)
  /\ Laid("defineEvent", EventSyntax, EventText, EventDefault)
  /\ Laid("configGraphQl", GraphQlSyntax, GraphQlText, GraphQlDefault)
<1> USE DEF Laid, Syntax, Text, Over, Removals, RemoveSyntax, RemoveOnTableSyntax, RemoveOtherSyntax,
            Default, Defaults, IsTree, NoTree
<1>1. Laid("update", UpdateSyntax, UpdateText, NoTree)
  OBVIOUS
<1>2. Laid("upsert", UpdateSyntax, UpdateText, NoTree)
  BY DEF UpsertSyntax, UpsertText
<1>3. Laid("live", LiveSyntax, LiveText, NoTree)
  OBVIOUS
<1>4. Laid("show", ShowSyntax, ShowText, NoTree)
  OBVIOUS
<1>5. Laid("rebuild", RebuildSyntax, RebuildText, NoTree)
  OBVIOUS
<1>6. Laid("for", ForSyntax, ForText, NoTree)
  OBVIOUS
<1>7. Laid("let", LetSyntax, LetText, NoTree)
  OBVIOUS
<1>8. Laid("return", ReturnSyntax, ReturnText, NoTree)
  OBVIOUS
<1>9. Laid("kill", KillSyntax, KillText, NoTree)
  OBVIOUS
<1>10. Laid("sleep", KillSyntax, KillText, NoTree)
  BY DEF SleepSyntax, SleepText, KillSyntax, KillText
<1>11. Laid("explain", ExplainSyntax, ExplainText, ExplainDefault)
  BY DEF ExplainDefault
<1>12. Laid("alterNamespace", AlterDatabaseSyntax, AlterDatabaseText, NoTree)
  BY DEF AlterNamespaceSyntax, AlterNamespaceText, AlterDatabaseSyntax, AlterDatabaseText
<1>13. Laid("alterDatabase", AlterDatabaseSyntax, AlterDatabaseText, NoTree)
  OBVIOUS
<1>14. Laid("alterIndex", AlterIndexSyntax, AlterIndexText, NoTree)
  OBVIOUS
<1>15. Laid("alterSystem", AlterSystemSyntax, AlterSystemText, NoTree)
  OBVIOUS
<1>16. Laid("alterSequence", AlterSequenceSyntax, AlterSequenceText, NoTree)
  OBVIOUS
<1>17. Laid("defineNamespace", NamespaceSyntax, NamespaceText, NoTree)
  OBVIOUS
<1>18. Laid("defineDatabase", DatabaseSyntax, DatabaseText, NoTree)
  OBVIOUS
<1>19. Laid("defineFunction", FunctionSyntax, FunctionText, PermissionDefault)
  BY DEF PermissionDefault
<1>20. Laid("defineModule", ModuleSyntax, ModuleText, PermissionDefault)
  BY DEF PermissionDefault
<1>21. Laid("defineParam", ParamSyntax, ParamText, ParamDefault)
  BY DEF ParamDefault
<1>22. Laid("defineAnalyzer", AnalyzerSyntax, AnalyzerText, NoTree)
  OBVIOUS
<1>23. Laid("defineBucket", BucketSyntax, BucketText, PermissionDefault)
  BY DEF PermissionDefault
<1>24. Laid("defineSequence", SequenceSyntax, SequenceText, SequenceDefault)
  BY DEF SequenceDefault
<1>25. Laid("configApi", ConfigApiSyntax, ConfigApiText, PermissionDefault)
  BY DEF ConfigApiDefault, PermissionDefault
<1>26. Laid("removeNamespace", Expunging, RemoveText, NoTree)
  OBVIOUS
<1>27. Laid("removeDatabase", Expunging, RemoveText, NoTree)
  OBVIOUS
<1>28. Laid("removeTable", Expunging, RemoveText, NoTree)
  OBVIOUS
<1>29. Laid("removeFunction", Named, RemoveText, NoTree)
  OBVIOUS
<1>30. Laid("removeModule", Named, RemoveText, NoTree)
  OBVIOUS
<1>31. Laid("removeParam", Named, RemoveText, NoTree)
  OBVIOUS
<1>32. Laid("removeAccess", NamedOn, RemoveText, NoTree)
  OBVIOUS
<1>33. Laid("removeAnalyzer", Named, RemoveText, NoTree)
  OBVIOUS
<1>34. Laid("removeSequence", Named, RemoveText, NoTree)
  OBVIOUS
<1>35. Laid("removeApi", Named, RemoveText, NoTree)
  OBVIOUS
<1>36. Laid("removeBucket", Named, RemoveText, NoTree)
  OBVIOUS
<1>37. Laid("removeEvent", NamedOn, RemoveText, NoTree)
  OBVIOUS
<1>38. Laid("removeField", NamedOn, RemoveText, NoTree)
  OBVIOUS
<1>39. Laid("removeIndex", NamedOn, RemoveText, NoTree)
  OBVIOUS
<1>40. Laid("removeUser", NamedOn, RemoveText, NoTree)
  OBVIOUS
<1>41. Laid("create", CreateSyntax, CreateText, NoTree)
  OBVIOUS
<1>42. Laid("insert", InsertSyntax, InsertText, NoTree)
  OBVIOUS
<1>43. Laid("delete", DeleteSyntax, DeleteText, NoTree)
  OBVIOUS
<1>44. Laid("transaction", TransactionSyntax, TransactionText, NoTree)
  OBVIOUS
<1>45. Laid("option", OptionSyntax, OptionText, NoTree)
  OBVIOUS
<1>46. Laid("relate", RelateSyntax, RelateText, NoTree)
  OBVIOUS
<1>47. Laid("select", SelectSyntax, SelectText, NoTree)
  OBVIOUS
<1>48. Laid("info", InfoSyntax, InfoText, NoTree)
  OBVIOUS
<1>49. Laid("alterField", AlterFieldSyntax, AlterFieldText, NoTree)
  OBVIOUS
<1>50. Laid("defineTable", TableSyntax, TableText, TableDefault)
  BY DEF TableDefault
<1>51. Laid("defineField", FieldSyntax, FieldText, FieldDefault)
  BY DEF FieldDefault
<1>52. Laid("defineEvent", EventSyntax, EventText, EventDefault)
  BY DEF EventDefault
<1>53. Laid("configGraphQl", GraphQlSyntax, GraphQlText, GraphQlDefault)
  BY DEF GraphQlDefault
<1> HIDE DEF Laid
<1> QED
  BY <1>1, <1>2, <1>3, <1>4, <1>5, <1>6, <1>7, <1>8, <1>9, <1>10, <1>11, <1>12, <1>13, <1>14, <1>15,
     <1>16, <1>17, <1>18, <1>19, <1>20, <1>21, <1>22, <1>23, <1>24, <1>25, <1>26, <1>27, <1>28,
     <1>29, <1>30, <1>31, <1>32, <1>33, <1>34, <1>35, <1>36, <1>37, <1>38, <1>39, <1>40, <1>41,
     <1>42, <1>43, <1>44, <1>45, <1>46, <1>47, <1>48, <1>49, <1>50, <1>51, <1>52, <1>53

\* That the stages and the texts fit each other.
LEMMA Plans ==
  /\ Planned(UpdateSyntax, UpdateText, <<1, 2, 3, 4, 5, 6, 7, 8>>, DOMAIN NoTree, {})
  /\ Plain(UpdateSyntax, UpdateText, DOMAIN NoTree, {})
  /\ Planned(LiveSyntax, LiveText, <<1, 1, 2, 3, 4>>, DOMAIN NoTree, {})
  /\ Plain(LiveSyntax, LiveText, DOMAIN NoTree, {})
  /\ Planned(ShowSyntax, ShowText, <<1, 1, 2, 3>>, DOMAIN NoTree, {})
  /\ Plain(ShowSyntax, ShowText, DOMAIN NoTree, {})
  /\ Planned(RebuildSyntax, RebuildText, <<1, 2, 3, 4>>, DOMAIN NoTree, {})
  /\ Plain(RebuildSyntax, RebuildText, DOMAIN NoTree, {})
  /\ Planned(ForSyntax, ForText, <<1, 2, 3>>, DOMAIN NoTree, {})
  /\ Plain(ForSyntax, ForText, DOMAIN NoTree, {})
  /\ Planned(LetSyntax, LetText, <<1, 2, 3>>, DOMAIN NoTree, {})
  /\ Plain(LetSyntax, LetText, DOMAIN NoTree, {})
  /\ Planned(ReturnSyntax, ReturnText, <<1, 2>>, DOMAIN NoTree, {})
  /\ Plain(ReturnSyntax, ReturnText, DOMAIN NoTree, {})
  /\ Planned(KillSyntax, KillText, <<1>>, DOMAIN NoTree, {})
  /\ Plain(KillSyntax, KillText, DOMAIN NoTree, {})
  /\ Planned(ExplainSyntax, ExplainText, <<1, 2, 3>>, DOMAIN ExplainDefault, {})
  /\ Plain(ExplainSyntax, ExplainText, DOMAIN ExplainDefault, {})
  /\ Planned(AlterDatabaseSyntax, AlterDatabaseText, <<1>>, DOMAIN NoTree, {})
  /\ Plain(AlterDatabaseSyntax, AlterDatabaseText, DOMAIN NoTree, {})
  /\ Planned(AlterIndexSyntax, AlterIndexText, <<1, 2, 3, 4, 4>>, DOMAIN NoTree, {})
  /\ Plain(AlterIndexSyntax, AlterIndexText, DOMAIN NoTree, {})
  /\ Planned(AlterSystemSyntax, AlterSystemText, <<1, 1>>, DOMAIN NoTree, {})
  /\ Plain(AlterSystemSyntax, AlterSystemText, DOMAIN NoTree, {})
  /\ Planned(AlterSequenceSyntax, AlterSequenceText, <<1, 2, 3>>, DOMAIN NoTree, {})
  /\ Plain(AlterSequenceSyntax, AlterSequenceText, DOMAIN NoTree, {})
  /\ \A Lost \in {{}, {"AND_EXPUNGE"}} :
          Planned(Named, RemoveText, <<1, 2, 3>>, DOMAIN NoTree, Lost) /\ Plain(Named, RemoveText, DOMAIN NoTree, Lost)
  /\ \A Lost \in {{}, {"AND_EXPUNGE"}} :
          Planned(NamedOn, RemoveText, <<1, 2, 3>>, DOMAIN NoTree, Lost) /\ Plain(NamedOn, RemoveText, DOMAIN NoTree, Lost)
  /\ Planned(Expunging, RemoveText, <<2, 3, 4>>, DOMAIN NoTree, {"AND_EXPUNGE"})
  /\ Plain(Expunging, RemoveText, DOMAIN NoTree, {"AND_EXPUNGE"})
  /\ Planned(NamespaceSyntax, NamespaceText, <<1, 2, 3>>, DOMAIN NoTree, {})
  /\ Plain(NamespaceSyntax, NamespaceText, DOMAIN NoTree, {})
  /\ Planned(DatabaseSyntax, DatabaseText, <<1, 2, 3, 3, 3>>, DOMAIN NoTree, {})
  /\ Plain(DatabaseSyntax, DatabaseText, DOMAIN NoTree, {})
  /\ Planned(FunctionSyntax, FunctionText, <<1, 2, 3, 4, 5, 6, 6>>, DOMAIN PermissionDefault, {})
  /\ Plain(FunctionSyntax, FunctionText, DOMAIN PermissionDefault, {})
  /\ Planned(ModuleSyntax, ModuleText, <<1, 2, 3, 4, 4>>, DOMAIN PermissionDefault, {})
  /\ Plain(ModuleSyntax, ModuleText, DOMAIN PermissionDefault, {})
  /\ Planned(ParamSyntax, ParamText, <<1, 2, 3, 3, 3>>, DOMAIN ParamDefault, {})
  /\ Plain(ParamSyntax, ParamText, DOMAIN ParamDefault, {})
  /\ Planned(AnalyzerSyntax, AnalyzerText, <<1, 2, 3, 3, 3, 3>>, DOMAIN NoTree, {})
  /\ Plain(AnalyzerSyntax, AnalyzerText, DOMAIN NoTree, {})
  /\ Planned(BucketSyntax, BucketText, <<1, 2, 3, 3, 3, 3>>, DOMAIN PermissionDefault, {})
  /\ Plain(BucketSyntax, BucketText, DOMAIN PermissionDefault, {})
  /\ Planned(SequenceSyntax, SequenceText, <<1, 2, 3, 4, 5>>, DOMAIN SequenceDefault, {})
  /\ Plain(SequenceSyntax, SequenceText, DOMAIN SequenceDefault, {})
  /\ Planned(ConfigApiSyntax, ConfigApiText, <<1, 2, 2>>, DOMAIN PermissionDefault, {})
  /\ Plain(ConfigApiSyntax, ConfigApiText, DOMAIN PermissionDefault, {})
  /\ Planned(CreateSyntax, CreateText, <<1, 2, 3, 4, 6>>, DOMAIN NoTree, {})
  /\ Planned(InsertSyntax, InsertText, <<1, 2, 3, 4, 5, 6, 8>>, DOMAIN NoTree, {})
  /\ Planned(DeleteSyntax, DeleteText, <<2, 3, 4, 5, 6, 7, 8>>, DOMAIN NoTree, {})
  /\ Planned(TransactionSyntax, TransactionText, <<>>, DOMAIN NoTree, {})
  /\ Planned(OptionSyntax, OptionText, <<1, 2>>, DOMAIN NoTree, {})
  /\ Planned(RelateSyntax, RelateText, <<1, 2, 4, 5, 6>>, DOMAIN NoTree, {})
  /\ Planned(SelectSyntax, SelectText, <<1, 2, 3, 4, 5, 6, 7, 8, 9, 10, 10, 11, 12, 13, 15>>, DOMAIN NoTree, {"TEMPFILES"})
  /\ Planned(InfoSyntax, InfoText, <<1, 1, 1, 1, 1, 1, 2, 2, 3>>, DOMAIN NoTree, {})
  /\ Planned(AlterTableSyntax, AlterTableText, <<1, 2, 3, 3, 3, 3, 3, 3>>, DOMAIN NoTree, {})
  /\ Planned(AlterFieldSyntax, AlterFieldText, <<1, 2, 3, 4, 4, 4, 4, 4, 4, 4, 4, 4>>, DOMAIN NoTree, {})
  /\ Planned(TableSyntax, TableText, <<1, 2, 3, 3, 3, 3, 3, 3, 3>>, DOMAIN TableDefault, {"typed"})
  /\ Planned(FieldSyntax, FieldText, <<1, 2, 3, 4, 4, 4, 4, 4, 4, 4, 4, 4>>, DOMAIN FieldDefault, {})
  /\ Planned(EventSyntax, EventText, <<1, 2, 3, 4, 4, 4, 4, 4, 4>>, DOMAIN EventDefault, {})
  /\ Planned(UserSyntax, UserText, <<1, 2, 3, 4, 4, 4, 4, 4, 4>>, DOMAIN UserDefault, {})
  /\ Planned(GraphQlSyntax, GraphQlText, <<1, 2, 2, 2, 2, 2>>, DOMAIN GraphQlDefault, {})
<1> USE DEF Planned, Plain, Skippable, Fits, IsSyntax, IsText, Words, Rivals, NoTree,
            May, Must, OneOf, MayOneOf, Loop, Stage, Headed, HeadedOn, With
<1>1. /\ Planned(UpdateSyntax, UpdateText, <<1, 2, 3, 4, 5, 6, 7, 8>>, DOMAIN NoTree, {})
      /\ Plain(UpdateSyntax, UpdateText, DOMAIN NoTree, {})
  BY DEF UpdateSyntax, UpdateText
<1>2. /\ Planned(LiveSyntax, LiveText, <<1, 1, 2, 3, 4>>, DOMAIN NoTree, {})
      /\ Plain(LiveSyntax, LiveText, DOMAIN NoTree, {})
  BY DEF LiveSyntax, LiveText
<1>3. /\ Planned(ShowSyntax, ShowText, <<1, 1, 2, 3>>, DOMAIN NoTree, {})
      /\ Plain(ShowSyntax, ShowText, DOMAIN NoTree, {})
  BY DEF ShowSyntax, ShowText
<1>4. /\ Planned(RebuildSyntax, RebuildText, <<1, 2, 3, 4>>, DOMAIN NoTree, {})
      /\ Plain(RebuildSyntax, RebuildText, DOMAIN NoTree, {})
  BY DEF RebuildSyntax, RebuildText
<1>5. /\ Planned(ForSyntax, ForText, <<1, 2, 3>>, DOMAIN NoTree, {})
      /\ Plain(ForSyntax, ForText, DOMAIN NoTree, {})
  BY DEF ForSyntax, ForText
<1>6. /\ Planned(LetSyntax, LetText, <<1, 2, 3>>, DOMAIN NoTree, {})
      /\ Plain(LetSyntax, LetText, DOMAIN NoTree, {})
  BY DEF LetSyntax, LetText
<1>7. /\ Planned(ReturnSyntax, ReturnText, <<1, 2>>, DOMAIN NoTree, {})
      /\ Plain(ReturnSyntax, ReturnText, DOMAIN NoTree, {})
  BY DEF ReturnSyntax, ReturnText
<1>8. /\ Planned(KillSyntax, KillText, <<1>>, DOMAIN NoTree, {})
      /\ Plain(KillSyntax, KillText, DOMAIN NoTree, {})
  BY DEF KillSyntax, KillText
<1>9. /\ Planned(ExplainSyntax, ExplainText, <<1, 2, 3>>, DOMAIN ExplainDefault, {})
      /\ Plain(ExplainSyntax, ExplainText, DOMAIN ExplainDefault, {})
  BY DEF ExplainSyntax, ExplainText, ExplainDefault
<1>10. /\ Planned(AlterDatabaseSyntax, AlterDatabaseText, <<1>>, DOMAIN NoTree, {})
      /\ Plain(AlterDatabaseSyntax, AlterDatabaseText, DOMAIN NoTree, {})
  BY DEF AlterDatabaseSyntax, AlterDatabaseText
<1>11. /\ Planned(AlterIndexSyntax, AlterIndexText, <<1, 2, 3, 4, 4>>, DOMAIN NoTree, {})
      /\ Plain(AlterIndexSyntax, AlterIndexText, DOMAIN NoTree, {})
  BY DEF AlterIndexSyntax, AlterIndexText
<1>12. /\ Planned(AlterSystemSyntax, AlterSystemText, <<1, 1>>, DOMAIN NoTree, {})
      /\ Plain(AlterSystemSyntax, AlterSystemText, DOMAIN NoTree, {})
  BY DEF AlterSystemSyntax, AlterSystemText
<1>13. /\ Planned(AlterSequenceSyntax, AlterSequenceText, <<1, 2, 3>>, DOMAIN NoTree, {})
      /\ Plain(AlterSequenceSyntax, AlterSequenceText, DOMAIN NoTree, {})
  BY DEF AlterSequenceSyntax, AlterSequenceText
<1>14. \A Lost \in {{}, {"AND_EXPUNGE"}} :
        Planned(Named, RemoveText, <<1, 2, 3>>, DOMAIN NoTree, Lost) /\ Plain(Named, RemoveText, DOMAIN NoTree, Lost)
  BY DEF Named, RemoveText
<1>15. \A Lost \in {{}, {"AND_EXPUNGE"}} :
        Planned(NamedOn, RemoveText, <<1, 2, 3>>, DOMAIN NoTree, Lost) /\ Plain(NamedOn, RemoveText, DOMAIN NoTree, Lost)
  BY DEF NamedOn, RemoveText
<1>16. /\ Planned(Expunging, RemoveText, <<2, 3, 4>>, DOMAIN NoTree, {"AND_EXPUNGE"})
      /\ Plain(Expunging, RemoveText, DOMAIN NoTree, {"AND_EXPUNGE"})
  BY DEF Expunging, RemoveText
<1>17. /\ Planned(NamespaceSyntax, NamespaceText, <<1, 2, 3>>, DOMAIN NoTree, {})
      /\ Plain(NamespaceSyntax, NamespaceText, DOMAIN NoTree, {})
  BY DEF NamespaceSyntax, NamespaceText
<1>18. /\ Planned(DatabaseSyntax, DatabaseText, <<1, 2, 3, 3, 3>>, DOMAIN NoTree, {})
      /\ Plain(DatabaseSyntax, DatabaseText, DOMAIN NoTree, {})
  BY DEF DatabaseSyntax, DatabaseText
<1>19. /\ Planned(FunctionSyntax, FunctionText, <<1, 2, 3, 4, 5, 6, 6>>, DOMAIN PermissionDefault, {})
      /\ Plain(FunctionSyntax, FunctionText, DOMAIN PermissionDefault, {})
  BY DEF FunctionSyntax, FunctionText, PermissionDefault
<1>20. /\ Planned(ModuleSyntax, ModuleText, <<1, 2, 3, 4, 4>>, DOMAIN PermissionDefault, {})
      /\ Plain(ModuleSyntax, ModuleText, DOMAIN PermissionDefault, {})
  BY DEF ModuleSyntax, ModuleText, PermissionDefault
<1>21. /\ Planned(ParamSyntax, ParamText, <<1, 2, 3, 3, 3>>, DOMAIN ParamDefault, {})
      /\ Plain(ParamSyntax, ParamText, DOMAIN ParamDefault, {})
  BY DEF ParamSyntax, ParamText, ParamDefault
<1>22. /\ Planned(AnalyzerSyntax, AnalyzerText, <<1, 2, 3, 3, 3, 3>>, DOMAIN NoTree, {})
      /\ Plain(AnalyzerSyntax, AnalyzerText, DOMAIN NoTree, {})
  BY DEF AnalyzerSyntax, AnalyzerText
<1>23. /\ Planned(BucketSyntax, BucketText, <<1, 2, 3, 3, 3, 3>>, DOMAIN PermissionDefault, {})
      /\ Plain(BucketSyntax, BucketText, DOMAIN PermissionDefault, {})
  BY DEF BucketSyntax, BucketText, PermissionDefault
<1>24. /\ Planned(SequenceSyntax, SequenceText, <<1, 2, 3, 4, 5>>, DOMAIN SequenceDefault, {})
      /\ Plain(SequenceSyntax, SequenceText, DOMAIN SequenceDefault, {})
  BY DEF SequenceSyntax, SequenceText, SequenceDefault
<1>25. /\ Planned(ConfigApiSyntax, ConfigApiText, <<1, 2, 2>>, DOMAIN PermissionDefault, {})
      /\ Plain(ConfigApiSyntax, ConfigApiText, DOMAIN PermissionDefault, {})
  BY DEF ConfigApiSyntax, ConfigApiText, PermissionDefault
<1>26. Planned(CreateSyntax, CreateText, <<1, 2, 3, 4, 6>>, DOMAIN NoTree, {})
  BY DEF CreateSyntax, CreateText
<1>27. Planned(InsertSyntax, InsertText, <<1, 2, 3, 4, 5, 6, 8>>, DOMAIN NoTree, {})
  BY DEF InsertSyntax, InsertText
<1>28. Planned(DeleteSyntax, DeleteText, <<2, 3, 4, 5, 6, 7, 8>>, DOMAIN NoTree, {})
  BY DEF DeleteSyntax, DeleteText
<1>29. Planned(TransactionSyntax, TransactionText, <<>>, DOMAIN NoTree, {})
  BY DEF TransactionSyntax, TransactionText
<1>30. Planned(OptionSyntax, OptionText, <<1, 2>>, DOMAIN NoTree, {})
  BY DEF OptionSyntax, OptionText
<1>31. Planned(RelateSyntax, RelateText, <<1, 2, 4, 5, 6>>, DOMAIN NoTree, {})
  BY DEF RelateSyntax, RelateText
<1>32. /\ Planned(SelectSyntax, SelectText, <<1, 2, 3, 4, 5, 6, 7, 8, 9, 10, 10, 11, 12, 13, 15>>, DOMAIN NoTree, {"TEMPFILES"})
  BY DEF SelectSyntax, SelectText
<1>33. Planned(InfoSyntax, InfoText, <<1, 1, 1, 1, 1, 1, 2, 2, 3>>, DOMAIN NoTree, {})
  BY DEF InfoSyntax, InfoText
<1>34. Planned(AlterTableSyntax, AlterTableText, <<1, 2, 3, 3, 3, 3, 3, 3>>, DOMAIN NoTree, {})
  BY DEF AlterTableSyntax, AlterTableText
<1>35. /\ Planned(AlterFieldSyntax, AlterFieldText, <<1, 2, 3, 4, 4, 4, 4, 4, 4, 4, 4, 4>>, DOMAIN NoTree, {})
  BY DEF AlterFieldSyntax, AlterFieldText
<1>36. Planned(TableSyntax, TableText, <<1, 2, 3, 3, 3, 3, 3, 3, 3>>, DOMAIN TableDefault, {"typed"})
  BY DEF TableSyntax, TableText, TableDefault
<1>37. /\ Planned(FieldSyntax, FieldText, <<1, 2, 3, 4, 4, 4, 4, 4, 4, 4, 4, 4>>, DOMAIN FieldDefault, {})
  BY DEF FieldSyntax, FieldText, FieldDefault
<1>38. Planned(EventSyntax, EventText, <<1, 2, 3, 4, 4, 4, 4, 4, 4>>, DOMAIN EventDefault, {})
  BY DEF EventSyntax, EventText, EventDefault
<1>39. Planned(UserSyntax, UserText, <<1, 2, 3, 4, 4, 4, 4, 4, 4>>, DOMAIN UserDefault, {})
  BY DEF UserSyntax, UserText, UserDefault
<1>40. Planned(GraphQlSyntax, GraphQlText, <<1, 2, 2, 2, 2, 2>>, DOMAIN GraphQlDefault, {})
  BY DEF GraphQlSyntax, GraphQlText, GraphQlDefault
<1> HIDE DEF Planned, Plain
<1> QED
  BY <1>1, <1>2, <1>3, <1>4, <1>5, <1>6, <1>7, <1>8, <1>9, <1>10, <1>11, <1>12, <1>13, <1>14, <1>15,
     <1>16, <1>17, <1>18, <1>19, <1>20, <1>21, <1>22, <1>23, <1>24, <1>25, <1>26, <1>27, <1>28,
     <1>29, <1>30, <1>31, <1>32, <1>33, <1>34, <1>35, <1>36, <1>37, <1>38, <1>39, <1>40

\* The kinds that are plain, and what they lose.
PlainKind(s, Lost) ==
  \E rk : /\ Planned(Syntax[s], Text[s], rk, DOMAIN Default(s), Lost)
          /\ Plain(Syntax[s], Text[s], DOMAIN Default(s), Lost) /\ IsTree(Default(s))
LostOf(s) == IF s \in DOMAIN RemoveSyntax THEN {"AND_EXPUNGE"} ELSE {}

LEMMA LaidIsPlain ==
  ASSUME NEW s, NEW syn, NEW txt, NEW t, NEW rk, NEW Lost, Laid(s, syn, txt, t),
         Planned(syn, txt, rk, DOMAIN t, Lost), Plain(syn, txt, DOMAIN t, Lost)
  PROVE  PlainKind(s, Lost)
BY DEF Laid, PlainKind

PlainKinds ==
  {"update", "upsert", "live", "show", "rebuild", "for", "let", "return", "kill", "sleep",
   "explain", "alterNamespace", "alterDatabase", "defineNamespace", "defineDatabase",
   "defineFunction", "defineModule", "defineParam", "defineAnalyzer", "defineBucket",
   "defineSequence", "configApi", "removeNamespace", "removeDatabase", "removeTable",
   "removeFunction", "removeModule", "removeParam", "removeAccess", "removeAnalyzer",
   "removeSequence", "removeApi", "removeBucket", "removeEvent", "removeField",
   "removeIndex", "removeUser"}

LEMMA PlainKindsArePlain ==
  /\ \A s \in PlainKinds : PlainKind(s, LostOf(s))
  /\ \A s \in {"alterIndex", "alterSystem", "alterSequence"} : PlainKind(s, {})
<1>1. PlainKind("update", {}) /\ PlainKind("upsert", {})
  <2>1. Planned(UpdateSyntax, UpdateText, <<1, 2, 3, 4, 5, 6, 7, 8>>, DOMAIN NoTree, {}) /\ Plain(UpdateSyntax, UpdateText, DOMAIN NoTree, {})
    BY Plans
  <2> QED
    BY <2>1, Layouts, LaidIsPlain
<1>2. PlainKind("live", {})
  <2>1. Planned(LiveSyntax, LiveText, <<1, 1, 2, 3, 4>>, DOMAIN NoTree, {}) /\ Plain(LiveSyntax, LiveText, DOMAIN NoTree, {})
    BY Plans
  <2> QED
    BY <2>1, Layouts, LaidIsPlain
<1>3. PlainKind("show", {})
  <2>1. Planned(ShowSyntax, ShowText, <<1, 1, 2, 3>>, DOMAIN NoTree, {}) /\ Plain(ShowSyntax, ShowText, DOMAIN NoTree, {})
    BY Plans
  <2> QED
    BY <2>1, Layouts, LaidIsPlain
<1>4. PlainKind("rebuild", {})
  <2>1. Planned(RebuildSyntax, RebuildText, <<1, 2, 3, 4>>, DOMAIN NoTree, {}) /\ Plain(RebuildSyntax, RebuildText, DOMAIN NoTree, {})
    BY Plans
  <2> QED
    BY <2>1, Layouts, LaidIsPlain
<1>5. PlainKind("for", {})
  <2>1. Planned(ForSyntax, ForText, <<1, 2, 3>>, DOMAIN NoTree, {}) /\ Plain(ForSyntax, ForText, DOMAIN NoTree, {})
    BY Plans
  <2> QED
    BY <2>1, Layouts, LaidIsPlain
<1>6. PlainKind("let", {})
  <2>1. Planned(LetSyntax, LetText, <<1, 2, 3>>, DOMAIN NoTree, {}) /\ Plain(LetSyntax, LetText, DOMAIN NoTree, {})
    BY Plans
  <2> QED
    BY <2>1, Layouts, LaidIsPlain
<1>7. PlainKind("return", {})
  <2>1. Planned(ReturnSyntax, ReturnText, <<1, 2>>, DOMAIN NoTree, {}) /\ Plain(ReturnSyntax, ReturnText, DOMAIN NoTree, {})
    BY Plans
  <2> QED
    BY <2>1, Layouts, LaidIsPlain
<1>8. PlainKind("kill", {}) /\ PlainKind("sleep", {})
  <2>1. Planned(KillSyntax, KillText, <<1>>, DOMAIN NoTree, {}) /\ Plain(KillSyntax, KillText, DOMAIN NoTree, {})
    BY Plans
  <2> QED
    BY <2>1, Layouts, LaidIsPlain
<1>9. PlainKind("explain", {})
  <2>1. Planned(ExplainSyntax, ExplainText, <<1, 2, 3>>, DOMAIN ExplainDefault, {}) /\ Plain(ExplainSyntax, ExplainText, DOMAIN ExplainDefault, {})
    BY Plans
  <2> QED
    BY <2>1, Layouts, LaidIsPlain
<1>10. PlainKind("alterNamespace", {}) /\ PlainKind("alterDatabase", {})
  <2>1. Planned(AlterDatabaseSyntax, AlterDatabaseText, <<1>>, DOMAIN NoTree, {}) /\ Plain(AlterDatabaseSyntax, AlterDatabaseText, DOMAIN NoTree, {})
    BY Plans
  <2> QED
    BY <2>1, Layouts, LaidIsPlain
<1>11. PlainKind("alterIndex", {})
  <2>1. Planned(AlterIndexSyntax, AlterIndexText, <<1, 2, 3, 4, 4>>, DOMAIN NoTree, {}) /\ Plain(AlterIndexSyntax, AlterIndexText, DOMAIN NoTree, {})
    BY Plans
  <2> QED
    BY <2>1, Layouts, LaidIsPlain
<1>12. PlainKind("alterSystem", {})
  <2>1. Planned(AlterSystemSyntax, AlterSystemText, <<1, 1>>, DOMAIN NoTree, {}) /\ Plain(AlterSystemSyntax, AlterSystemText, DOMAIN NoTree, {})
    BY Plans
  <2> QED
    BY <2>1, Layouts, LaidIsPlain
<1>13. PlainKind("alterSequence", {})
  <2>1. Planned(AlterSequenceSyntax, AlterSequenceText, <<1, 2, 3>>, DOMAIN NoTree, {}) /\ Plain(AlterSequenceSyntax, AlterSequenceText, DOMAIN NoTree, {})
    BY Plans
  <2> QED
    BY <2>1, Layouts, LaidIsPlain
<1>14. PlainKind("defineNamespace", {})
  <2>1. Planned(NamespaceSyntax, NamespaceText, <<1, 2, 3>>, DOMAIN NoTree, {}) /\ Plain(NamespaceSyntax, NamespaceText, DOMAIN NoTree, {})
    BY Plans
  <2> QED
    BY <2>1, Layouts, LaidIsPlain
<1>15. PlainKind("defineDatabase", {})
  <2>1. Planned(DatabaseSyntax, DatabaseText, <<1, 2, 3, 3, 3>>, DOMAIN NoTree, {}) /\ Plain(DatabaseSyntax, DatabaseText, DOMAIN NoTree, {})
    BY Plans
  <2> QED
    BY <2>1, Layouts, LaidIsPlain
<1>16. PlainKind("defineFunction", {})
  <2>1. Planned(FunctionSyntax, FunctionText, <<1, 2, 3, 4, 5, 6, 6>>, DOMAIN PermissionDefault, {}) /\ Plain(FunctionSyntax, FunctionText, DOMAIN PermissionDefault, {})
    BY Plans
  <2> QED
    BY <2>1, Layouts, LaidIsPlain
<1>17. PlainKind("defineModule", {})
  <2>1. Planned(ModuleSyntax, ModuleText, <<1, 2, 3, 4, 4>>, DOMAIN PermissionDefault, {}) /\ Plain(ModuleSyntax, ModuleText, DOMAIN PermissionDefault, {})
    BY Plans
  <2> QED
    BY <2>1, Layouts, LaidIsPlain
<1>18. PlainKind("defineParam", {})
  <2>1. Planned(ParamSyntax, ParamText, <<1, 2, 3, 3, 3>>, DOMAIN ParamDefault, {}) /\ Plain(ParamSyntax, ParamText, DOMAIN ParamDefault, {})
    BY Plans
  <2> QED
    BY <2>1, Layouts, LaidIsPlain
<1>19. PlainKind("defineAnalyzer", {})
  <2>1. Planned(AnalyzerSyntax, AnalyzerText, <<1, 2, 3, 3, 3, 3>>, DOMAIN NoTree, {}) /\ Plain(AnalyzerSyntax, AnalyzerText, DOMAIN NoTree, {})
    BY Plans
  <2> QED
    BY <2>1, Layouts, LaidIsPlain
<1>20. PlainKind("defineBucket", {})
  <2>1. Planned(BucketSyntax, BucketText, <<1, 2, 3, 3, 3, 3>>, DOMAIN PermissionDefault, {}) /\ Plain(BucketSyntax, BucketText, DOMAIN PermissionDefault, {})
    BY Plans
  <2> QED
    BY <2>1, Layouts, LaidIsPlain
<1>21. PlainKind("defineSequence", {})
  <2>1. Planned(SequenceSyntax, SequenceText, <<1, 2, 3, 4, 5>>, DOMAIN SequenceDefault, {}) /\ Plain(SequenceSyntax, SequenceText, DOMAIN SequenceDefault, {})
    BY Plans
  <2> QED
    BY <2>1, Layouts, LaidIsPlain
<1>22. PlainKind("configApi", {})
  <2>1. Planned(ConfigApiSyntax, ConfigApiText, <<1, 2, 2>>, DOMAIN PermissionDefault, {}) /\ Plain(ConfigApiSyntax, ConfigApiText, DOMAIN PermissionDefault, {})
    BY Plans
  <2> QED
    BY <2>1, Layouts, LaidIsPlain
<1>23. PlainKind("removeNamespace", {"AND_EXPUNGE"}) /\ PlainKind("removeDatabase", {"AND_EXPUNGE"}) /\ PlainKind("removeTable", {"AND_EXPUNGE"})
  <2>1. Planned(Expunging, RemoveText, <<2, 3, 4>>, DOMAIN NoTree, {"AND_EXPUNGE"}) /\ Plain(Expunging, RemoveText, DOMAIN NoTree, {"AND_EXPUNGE"})
    BY Plans
  <2> QED
    BY <2>1, Layouts, LaidIsPlain
<1>24. PlainKind("removeFunction", {"AND_EXPUNGE"}) /\ PlainKind("removeModule", {"AND_EXPUNGE"}) /\ PlainKind("removeParam", {"AND_EXPUNGE"})
  <2>1. Planned(Named, RemoveText, <<1, 2, 3>>, DOMAIN NoTree, {"AND_EXPUNGE"}) /\ Plain(Named, RemoveText, DOMAIN NoTree, {"AND_EXPUNGE"})
    BY Plans
  <2> QED
    BY <2>1, Layouts, LaidIsPlain
<1>25. PlainKind("removeAccess", {"AND_EXPUNGE"})
  <2>1. Planned(NamedOn, RemoveText, <<1, 2, 3>>, DOMAIN NoTree, {"AND_EXPUNGE"}) /\ Plain(NamedOn, RemoveText, DOMAIN NoTree, {"AND_EXPUNGE"})
    BY Plans
  <2> QED
    BY <2>1, Layouts, LaidIsPlain
<1>26. PlainKind("removeAnalyzer", {}) /\ PlainKind("removeSequence", {}) /\ PlainKind("removeApi", {}) /\ PlainKind("removeBucket", {})
  <2>1. Planned(Named, RemoveText, <<1, 2, 3>>, DOMAIN NoTree, {}) /\ Plain(Named, RemoveText, DOMAIN NoTree, {})
    BY Plans
  <2> QED
    BY <2>1, Layouts, LaidIsPlain
<1>27. PlainKind("removeEvent", {}) /\ PlainKind("removeField", {}) /\ PlainKind("removeIndex", {}) /\ PlainKind("removeUser", {})
  <2>1. Planned(NamedOn, RemoveText, <<1, 2, 3>>, DOMAIN NoTree, {}) /\ Plain(NamedOn, RemoveText, DOMAIN NoTree, {})
    BY Plans
  <2> QED
    BY <2>1, Layouts, LaidIsPlain
<1>28. \A s \in PlainKinds : LostOf(s) = IF s \in {"removeNamespace", "removeDatabase", "removeTable", "removeFunction", "removeModule",
                                              "removeParam", "removeAccess"} THEN {"AND_EXPUNGE"} ELSE {}
  BY DEF LostOf, RemoveSyntax, PlainKinds
<1> QED
  BY <1>1, <1>2, <1>3, <1>4, <1>5, <1>6, <1>7, <1>8, <1>9, <1>10, <1>11, <1>12, <1>13, <1>14, <1>15,
     <1>16, <1>17, <1>18, <1>19, <1>20, <1>21, <1>22, <1>23, <1>24, <1>25, <1>26, <1>27, <1>28 DEF
     PlainKinds

-----------------------------------------------------------------------------
(* A kind of statement keeps an invariant: it holds before the first        *)
(* clause, a clause keeps it, and where it holds and the statement may end, *)
(* the text that is written is read again.                                 *)
Returns(s, p) ==
  TreesOf(s, Written(s, p.tree)) =
    IF Unreadable(s, p.tree) THEN {} ELSE {AstOf(s, Kept(s, p.tree))}

LEMMA SoundBegins ==
  ASSUME NEW syn, NEW txt, NEW rk, NEW Lost, NEW t, IsTree(t), Planned(syn, txt, rk, DOMAIN t, Lost)
  PROVE  Sound(syn, txt, rk, DOMAIN t, Lost, Begin(t))
<1>1. PICK p : p = Begin(t) /\ p.tree = t
  BY AtParts DEF Begin
<1>2. IsSyntax(syn) /\ DOMAIN t \subseteq Words(txt)
  BY DEF Planned, Fits
<1>3. Held(syn, txt, DOMAIN t, Lost, p)
  BY <1>1, <1>2, HeldBegins
<1>4. Compatible(t, txt)
  BY DEF Compatible, GivenIn, Given, Planned
<1> QED
  BY <1>1, <1>3, <1>4 DEF Sound

PlainSound(s, Lost, p) ==
  PlainTree(p.tree) /\ \E rk : Sound(Syntax[s], Text[s], rk, DOMAIN Default(s), Lost, p)

LEMMA PlainBegins ==
  ASSUME NEW s, NEW Lost, PlainKind(s, Lost)
  PROVE  PlainSound(s, Lost, Begin(Default(s)))
<1>1. PICK syn, txt, t : syn = Syntax[s] /\ txt = Text[s] /\ t = Default(s)
  OBVIOUS
<1>2. PICK rk : Planned(syn, txt, rk, DOMAIN t, Lost) /\ Plain(syn, txt, DOMAIN t, Lost) /\ IsTree(t)
  BY <1>1 DEF PlainKind
<1>3. Sound(syn, txt, rk, DOMAIN t, Lost, Begin(t))
  BY <1>2, SoundBegins
<1>4. PICK p : p = Begin(t) /\ p.tree = t
  BY AtParts DEF Begin
<1>5. PlainTree(t)
  BY <1>2 DEF Plain, PlainTree
<1> QED
  BY <1>1, <1>3, <1>4, <1>5 DEF PlainSound

LEMMA PlainStep ==
  ASSUME NEW s \in PlainKinds, NEW Lost, PlainKind(s, Lost), NEW p, PlainSound(s, Lost, p),
         NEW key, NEW arg, NEW q \in Step(s, p, key, arg)
  PROVE  PlainSound(s, Lost, q)
<1>1. PICK syn, txt, D, t, u : syn = Syntax[s] /\ txt = Text[s] /\ D = DOMAIN Default(s) /\ t = p.tree /\ u = q.tree
  OBVIOUS
<1>2. PICK rk : Sound(syn, txt, rk, D, Lost, p) /\ PlainTree(t)
  BY <1>1 DEF PlainSound
<1>3. Plain(syn, txt, D, Lost)
  BY <1>1 DEF PlainKind
<1>4. Read(s, t, key, arg) = ReadPlain(t, key, arg)
  BY DEF Read, PlainKinds
<1>5. q \in Reads(syn, p, key, ReadPlain(t, key, arg))
  BY <1>1, <1>4 DEF Step
<1>6. PICK z : z = p.stage /\ z \in Nat /\ IsSyntax(syn)
  BY <1>2 DEF Sound, Held, Planned, Fits, IsSyntax
<1>7. u \in ReadPlain(t, key, arg)
  BY <1>1, <1>5, <1>6, StepParts
<1>8. Simple(syn, txt, D, Lost, key) /\ Skippable(syn, "COMMENT") /\ "COMMENT" \notin D
  BY <1>3, EachIsSimple DEF Plain
<1>9. Ordinary(syn, txt, D, Lost, t, key, u) /\ PlainTree(u)
  BY <1>2, <1>7, <1>8, ReadPlainIsOrdinary
<1>10. Sound(syn, txt, rk, D, Lost, q)
  BY <1>1, <1>2, <1>5, <1>9, Advance
<1> QED
  BY <1>1, <1>9, <1>10 DEF PlainSound

LEMMA PlainReturns ==
  ASSUME NEW s \in PlainKinds, NEW p, PlainKind(s, LostOf(s)), PlainSound(s, LostOf(s), p), MayEnd(s, p)
  PROVE  Returns(s, p)
<1>1. PICK syn, txt, D, t, Lost : syn = Syntax[s] /\ txt = Text[s] /\ D = DOMAIN Default(s) /\ t = p.tree /\ Lost = LostOf(s)
  OBVIOUS
<1>2. PICK rk : Sound(syn, txt, rk, D, Lost, p) /\ PlainTree(t)
  BY <1>1 DEF PlainSound
<1>3. Plain(syn, txt, D, Lost) /\ IsTree(Default(s))
  BY <1>1 DEF PlainKind
<1>4. Finished(s, txt, rk, Lost, p)
  BY <1>1, <1>2, <1>3 DEF Finished
<1>5. ASSUME NEW i \in DOMAIN txt, Given(t, txt[i]), NEW b
      PROVE  Read(s, b, txt[i], WriteArg(txt[i], t[txt[i]])) = {With(b, txt[i], t[txt[i]])}
  <2>1. WriteArg(txt[i], t[txt[i]]) = t[txt[i]]
    BY <1>3 DEF Plain, WriteArg
  <2>2. txt[i] = "COMMENT" => t[txt[i]] # "NONE"
    BY <1>2, <1>5 DEF PlainTree, Given
  <2>3. ReadPlain(b, txt[i], t[txt[i]]) = {With(b, txt[i], t[txt[i]])}
    BY <2>2 DEF ReadPlain, WithComment
  <2>4. Read(s, b, txt[i], t[txt[i]]) = ReadPlain(b, txt[i], t[txt[i]])
    BY DEF Read, PlainKinds
  <2> QED
    BY <2>1, <2>3, <2>4
<1>6. AsWritten(s, txt, p.tree)
  BY <1>1, <1>5 DEF AsWritten
<1>7. Complete(s, Without(p.tree, Lost))
  BY DEF Complete, PlainKinds
<1>8. TreesOf(s, ShowAll(p.tree, txt)) = {AstOf(s, Without(p.tree, Lost))}
  BY <1>4, <1>6, <1>7, AsWrittenReread
<1>9. Written(s, p.tree) = ShowAll(p.tree, txt) /\ ~Unreadable(s, p.tree)
  BY <1>1 DEF Written, Unreadable, PlainKinds
<1>10. Kept(s, p.tree) = Without(p.tree, Lost)
  <2>1. CASE s \in DOMAIN RemoveSyntax
    <3>1. /\ s \notin {"select", "alterTable", "alterField", "defineTable", "defineUser", "defineAccess"}
          /\ Lost = {"AND_EXPUNGE"}
      BY <1>1, <2>1 DEF LostOf, PlainKinds
    <3> QED
      BY <2>1, <3>1 DEF Kept
  <2>2. CASE s \notin DOMAIN RemoveSyntax
    <3>1. Lost = {}
      BY <1>1, <2>2 DEF LostOf
    <3>2. Without(p.tree, Lost) = p.tree
      BY <1>2, <3>1, WithoutLost
    <3>3. Kept(s, p.tree) = p.tree
      BY <2>2 DEF Kept, PlainKinds
    <3> QED
      BY <3>2, <3>3
  <2> QED
    BY <2>1, <2>2
<1> QED
  BY <1>8, <1>9, <1>10 DEF Returns

-----------------------------------------------------------------------------
(* The statements whose clauses are kept as they are, all of them or but    *)
(* for a few that are read and forgotten.                                  *)
LEMMA SoundStep ==
  ASSUME NEW s, NEW txt, NEW rk, NEW D, NEW Lost, NEW p, Sound(Syntax[s], txt, rk, D, Lost, p),
         NEW key, NEW arg, NEW q \in Step(s, p, key, arg),
         \A u \in Read(s, p.tree, key, arg) : Ordinary(Syntax[s], txt, D, Lost, p.tree, key, u)
  PROVE  Sound(Syntax[s], txt, rk, D, Lost, q)
<1>1. PICK syn, z, trees : syn = Syntax[s] /\ z = p.stage /\ trees = Read(s, p.tree, key, arg)
  OBVIOUS
<1>2. z \in Nat /\ IsSyntax(syn)
  BY <1>1 DEF Sound, Held, Planned, Fits, IsSyntax
<1>3. q \in Reads(syn, p, key, trees)
  BY <1>1 DEF Step
<1>4. q.tree \in trees
  BY <1>1, <1>2, <1>3, StepParts
<1> QED
  BY <1>1, <1>3, <1>4, Advance

\* The stages and the tree a step leaves.
LEMMA StepTaken ==
  ASSUME NEW s, IsSyntax(Syntax[s]), NEW p, p.stage \in Nat, NEW key, NEW arg, NEW q \in Step(s, p, key, arg)
  PROVE  /\ q.tree \in Read(s, p.tree, key, arg) /\ q.stage \in DOMAIN Syntax[s] /\ key \in Syntax[s][q.stage].keys
         /\ q.stage > p.stage \/ (q.stage = p.stage /\ Syntax[s][q.stage].loops)
         /\ \A b \in DOMAIN Syntax[s] : p.stage < b /\ b < q.stage => ~Syntax[s][b].must
BY StepParts DEF Step

BareKinds == {"alterIndex", "alterSystem", "alterSequence"}
BareSound(s, p) == \E rk : Sound(Syntax[s], Text[s], rk, DOMAIN Default(s), {}, p)

LEMMA BareBegins ==
  ASSUME NEW s \in BareKinds
  PROVE  BareSound(s, Begin(Default(s)))
<1>1. PlainKind(s, {})
  BY PlainKindsArePlain DEF BareKinds
<1> QED
  BY <1>1, PlainBegins DEF PlainSound, BareSound

LEMMA BareStep ==
  ASSUME NEW s \in BareKinds, NEW p, BareSound(s, p), NEW key, NEW arg, NEW q \in Step(s, p, key, arg)
  PROVE  BareSound(s, q)
<1>1. PICK syn, txt, D, t : syn = Syntax[s] /\ txt = Text[s] /\ D = DOMAIN Default(s) /\ t = p.tree
  OBVIOUS
<1>2. PICK rk : Sound(syn, txt, rk, D, {}, p)
  BY <1>1 DEF BareSound
<1>3. Plain(syn, txt, D, {})
  BY <1>1, PlainKindsArePlain DEF BareKinds, PlainKind
<1>4. Simple(syn, txt, D, {}, key)
  BY <1>3, EachIsSimple DEF Plain
<1>5. Read(s, t, key, arg) = {With(t, key, arg)}
  BY DEF Read, BareKinds
<1>6. \A u \in Read(s, t, key, arg) : Ordinary(syn, txt, D, {}, t, key, u)
  BY <1>4, <1>5 DEF Ordinary
<1> QED
  BY <1>1, <1>2, <1>6, SoundStep DEF BareSound

LEMMA BareReturns ==
  ASSUME NEW s \in BareKinds, NEW p, BareSound(s, p), MayEnd(s, p)
  PROVE  Returns(s, p)
<1>1. PICK syn, txt, D, t : syn = Syntax[s] /\ txt = Text[s] /\ D = DOMAIN Default(s) /\ t = p.tree
  OBVIOUS
<1>2. PICK rk : Sound(syn, txt, rk, D, {}, p)
  BY <1>1 DEF BareSound
<1>3. Plain(syn, txt, D, {}) /\ IsTree(Default(s))
  BY <1>1, PlainKindsArePlain DEF BareKinds, PlainKind
<1>4. Finished(s, txt, rk, {}, p)
  BY <1>1, <1>2, <1>3 DEF Finished
<1>5. ASSUME NEW i \in DOMAIN txt, NEW b
      PROVE  Read(s, b, txt[i], WriteArg(txt[i], t[txt[i]])) = {With(b, txt[i], t[txt[i]])}
  <2>1. WriteArg(txt[i], t[txt[i]]) = t[txt[i]]
    BY <1>3 DEF Plain, WriteArg
  <2>2. Read(s, b, txt[i], t[txt[i]]) = {With(b, txt[i], t[txt[i]])}
    BY DEF Read, BareKinds
  <2> QED
    BY <2>1, <2>2
<1>6. AsWritten(s, txt, p.tree)
  BY <1>1, <1>5 DEF AsWritten
<1>7. Without(p.tree, {}) = p.tree
  BY <1>2, WithoutLost
<1>8. Complete(s, p.tree)
  BY DEF MayEnd
<1>9. TreesOf(s, ShowAll(p.tree, txt)) = {AstOf(s, Without(p.tree, {}))}
  BY <1>4, <1>6, <1>7, <1>8, AsWrittenReread
<1>10. Written(s, p.tree) = ShowAll(p.tree, txt) /\ ~Unreadable(s, p.tree) /\ Kept(s, p.tree) = p.tree
  BY <1>1 DEF Written, Unreadable, BareKinds, Kept, RemoveSyntax
<1> QED
  BY <1>7, <1>9, <1>10 DEF Returns

\* CREATE, INSERT, DELETE, BEGIN and OPTION: some clauses are read and
\* forgotten, or say what holds anyhow.
RecordKinds == {"create", "insert", "delete", "transaction", "option"}
RecordFacts(s, rk) ==
  /\ Planned(Syntax[s], Text[s], rk, DOMAIN Default(s), {}) /\ IsTree(Default(s))
  /\ \A a \in DOMAIN Syntax[s] : \A k \in Syntax[s][a].keys :
       k \in Words(Text[s]) \/ k \in {"VERSION", "FROM", "TRANSACTION"}
  /\ \A k \in {"VERSION", "FROM", "TRANSACTION", "="} : Skippable(Syntax[s], k)
  /\ \A i \in DOMAIN Text[s] : Text[s][i] \notin {"PERMISSIONS", "TYPE", "VERSION", "FROM", "TRANSACTION"}
OptionTree(s, t) == s = "option" /\ "=" \in DOMAIN t => t["="] # "TRUE"
RecordSound(s, p) ==
  OptionTree(s, p.tree) /\ \E rk : Sound(Syntax[s], Text[s], rk, DOMAIN Default(s), {}, p)

LEMMA RecordKindsFacts ==
  ASSUME NEW s \in RecordKinds
  PROVE  \E rk : RecordFacts(s, rk)
<1> DEFINE Rest(syn, txt) ==
             /\ \A a \in DOMAIN syn : \A k \in syn[a].keys : k \in Words(txt) \/ k \in {"VERSION", "FROM", "TRANSACTION"}
             /\ \A k \in {"VERSION", "FROM", "TRANSACTION", "="} : Skippable(syn, k)
             /\ \A i \in DOMAIN txt : txt[i] \notin {"PERMISSIONS", "TYPE", "VERSION", "FROM", "TRANSACTION"}
<1>1. Rest(CreateSyntax, CreateText)
  BY DEF CreateSyntax, CreateText, Words, Skippable, May, Must, Stage
<1>2. Rest(InsertSyntax, InsertText)
  BY DEF InsertSyntax, InsertText, Words, Skippable, May, Must, Stage
<1>3. Rest(DeleteSyntax, DeleteText)
  BY DEF DeleteSyntax, DeleteText, Words, Skippable, May, Must, Stage
<1>4. Rest(TransactionSyntax, TransactionText)
  BY DEF TransactionSyntax, TransactionText, Words, Skippable, May, Must, Stage
<1>5. Rest(OptionSyntax, OptionText)
  BY DEF OptionSyntax, OptionText, Words, Skippable, May, Must, Stage
<1>6. PICK syn, txt, rk : /\ Syntax[s] = syn /\ Text[s] = txt /\ Default(s) = NoTree /\ IsTree(NoTree)
                          /\ Planned(syn, txt, rk, DOMAIN NoTree, {}) /\ Rest(syn, txt)
  <2> HIDE DEF Rest
  <2>1. CASE s = "create"
    BY <1>1, <2>1, Layouts, Plans DEF Laid
  <2>2. CASE s = "insert"
    BY <1>2, <2>2, Layouts, Plans DEF Laid
  <2>3. CASE s = "delete"
    BY <1>3, <2>3, Layouts, Plans DEF Laid
  <2>4. CASE s = "transaction"
    BY <1>4, <2>4, Layouts, Plans DEF Laid
  <2>5. CASE s = "option"
    BY <1>5, <2>5, Layouts, Plans DEF Laid
  <2> QED
    BY <2>1, <2>2, <2>3, <2>4, <2>5 DEF RecordKinds
<1>7. RecordFacts(s, rk)
  BY <1>6 DEF RecordFacts
<1> QED
  BY <1>7

LEMMA RecordBegins ==
  ASSUME NEW s \in RecordKinds
  PROVE  RecordSound(s, Begin(Default(s)))
<1>1. PICK rk : RecordFacts(s, rk)
  BY RecordKindsFacts
<1>2. PICK syn, txt, t : syn = Syntax[s] /\ txt = Text[s] /\ t = Default(s)
  OBVIOUS
<1>3. Sound(syn, txt, rk, DOMAIN t, {}, Begin(t))
  BY <1>1, <1>2, SoundBegins DEF RecordFacts
<1>4. PICK p : p = Begin(t) /\ p.tree = t
  BY AtParts DEF Begin
<1>5. OptionTree(s, t)
  <2>1. s = "option" => t = NoTree
    BY <1>2, Layouts DEF Laid
  <2> QED
    BY <2>1 DEF OptionTree, NoTree
<1> QED
  BY <1>2, <1>3, <1>4, <1>5 DEF RecordSound

LEMMA RecordStep ==
  ASSUME NEW s \in RecordKinds, NEW p, RecordSound(s, p), NEW key, NEW arg, NEW q \in Step(s, p, key, arg)
  PROVE  RecordSound(s, q)
<1>1. PICK syn, txt, D, t, u : syn = Syntax[s] /\ txt = Text[s] /\ D = DOMAIN Default(s) /\ t = p.tree /\ u = q.tree
  OBVIOUS
<1>2. PICK rk : Sound(syn, txt, rk, D, {}, p) /\ OptionTree(s, t)
  BY <1>1 DEF RecordSound
<1>3. PICK rl : RecordFacts(s, rl)
  BY RecordKindsFacts
<1>4. /\ \A a \in DOMAIN syn : \A k \in syn[a].keys : k \in Words(txt) \/ k \in {"VERSION", "FROM", "TRANSACTION"}
      /\ \A k \in {"VERSION", "FROM", "TRANSACTION", "="} : Skippable(syn, k)
  BY <1>1, <1>3 DEF RecordFacts
<1>5. Read(s, t, key, arg) = IF s = "option" THEN ReadOption(t, key, arg) ELSE ReadRecords(t, key, arg)
  BY DEF Read, RecordKinds
<1>6. ASSUME NEW v \in Read(s, t, key, arg)
      PROVE  \/ v = t /\ Skippable(syn, key)
             \/ /\ v = With(t, key, arg) /\ (s = "option" \/ key \notin {"VERSION", "FROM", "TRANSACTION"})
                /\ s = "option" /\ key = "=" => arg # "TRUE"
  BY <1>4, <1>5, <1>6 DEF ReadOption, ReadRecords
<1>7. ~(\E a \in DOMAIN syn : key \in syn[a].keys /\ s = "option" /\ key \in {"VERSION", "FROM", "TRANSACTION"})
  BY <1>1, Layouts DEF Laid, OptionSyntax, May, Must, Stage
<1>8. ASSUME NEW v \in Read(s, t, key, arg)
      PROVE  Ordinary(syn, txt, D, {}, t, key, v) /\ OptionTree(s, v)
  <2>1. CASE v = t /\ Skippable(syn, key)
    BY <1>2, <2>1 DEF Ordinary
  <2>2. CASE /\ v = With(t, key, arg) /\ (s = "option" \/ key \notin {"VERSION", "FROM", "TRANSACTION"})
             /\ s = "option" /\ key = "=" => arg # "TRUE"
    <3>1. Simple(syn, txt, D, {}, key)
      BY <1>4, <1>7, <2>2 DEF Simple
    <3>2. OptionTree(s, v)
      BY <1>2, <2>2 DEF OptionTree, With
    <3> QED
      BY <2>2, <3>1, <3>2 DEF Ordinary
  <2> QED
    BY <1>6, <1>8, <2>1, <2>2
<1>9. Sound(syn, txt, rk, D, {}, q)
  BY <1>1, <1>2, <1>8, SoundStep
<1>10. u \in Read(s, t, key, arg)
  <2>1. p.stage \in Nat /\ IsSyntax(syn)
    BY <1>2 DEF Sound, Held, Planned, Fits, IsSyntax
  <2> QED
    BY <1>1, <2>1, StepTaken
<1> QED
  BY <1>1, <1>8, <1>9, <1>10 DEF RecordSound

LEMMA RecordReturns ==
  ASSUME NEW s \in RecordKinds, NEW p, RecordSound(s, p), MayEnd(s, p)
  PROVE  Returns(s, p)
<1>1. PICK syn, txt, D, t : syn = Syntax[s] /\ txt = Text[s] /\ D = DOMAIN Default(s) /\ t = p.tree
  OBVIOUS
<1>2. PICK rk : Sound(syn, txt, rk, D, {}, p) /\ OptionTree(s, t)
  BY <1>1 DEF RecordSound
<1>3. PICK rl : RecordFacts(s, rl)
  BY RecordKindsFacts
<1>4. Finished(s, txt, rk, {}, p)
  BY <1>1, <1>2, <1>3 DEF Finished, RecordFacts
<1>5. ASSUME NEW i \in DOMAIN txt, Given(t, txt[i]), NEW b
      PROVE  Read(s, b, txt[i], WriteArg(txt[i], t[txt[i]])) = {With(b, txt[i], t[txt[i]])}
  <2>1. txt[i] \notin {"PERMISSIONS", "TYPE", "VERSION", "FROM", "TRANSACTION"}
    BY <1>1, <1>3 DEF RecordFacts
  <2>2. WriteArg(txt[i], t[txt[i]]) = t[txt[i]]
    BY <2>1 DEF WriteArg
  <2>3. Read(s, b, txt[i], t[txt[i]]) =
          IF s = "option" THEN ReadOption(b, txt[i], t[txt[i]]) ELSE ReadRecords(b, txt[i], t[txt[i]])
    BY DEF Read, RecordKinds
  <2>4. s = "option" /\ txt[i] = "=" => t[txt[i]] # "TRUE"
    BY <1>2, <1>5 DEF OptionTree, Given
  <2> QED
    BY <2>1, <2>2, <2>3, <2>4 DEF ReadOption, ReadRecords
<1>6. AsWritten(s, txt, p.tree)
  BY <1>1, <1>5 DEF AsWritten
<1>7. Without(p.tree, {}) = p.tree
  BY <1>2, WithoutLost
<1>8. Complete(s, p.tree)
  BY DEF MayEnd
<1>9. TreesOf(s, ShowAll(p.tree, txt)) = {AstOf(s, Without(p.tree, {}))}
  BY <1>4, <1>6, <1>7, <1>8, AsWrittenReread
<1>10. Written(s, p.tree) = ShowAll(p.tree, txt) /\ ~Unreadable(s, p.tree) /\ Kept(s, p.tree) = p.tree
  BY <1>1 DEF Written, Unreadable, RecordKinds, Kept, RemoveSyntax
<1> QED
  BY <1>7, <1>9, <1>10 DEF Returns

-----------------------------------------------------------------------------
(* RELATE: a relation read from right to left is written from left to       *)
(* right.                                                                  *)
NoRivals(txt) == \A i, j \in DOMAIN txt : i < j => ~Rivals(txt[i], txt[j])

LEMMA TameStep ==
  ASSUME NEW s, NEW txt, NEW rk, NEW D, NEW Lost, NEW p, Sound(Syntax[s], txt, rk, D, Lost, p), NoRivals(txt),
         NEW key, NEW arg, NEW q \in Step(s, p, key, arg),
         \A u \in Read(s, p.tree, key, arg) : Tame(Syntax[s], txt, D, Lost, p.tree, key, u)
  PROVE  Sound(Syntax[s], txt, rk, D, Lost, q) /\ q.tree \in Read(s, p.tree, key, arg)
<1>1. PICK syn, z, t, trees : syn = Syntax[s] /\ z = p.stage /\ t = p.tree /\ trees = Read(s, t, key, arg)
  OBVIOUS
<1>2. z \in Nat /\ IsSyntax(syn) /\ Held(syn, txt, D, Lost, p) /\ Planned(syn, txt, rk, D, Lost)
  BY <1>1 DEF Sound, Held, Planned, Fits, IsSyntax
<1>3. q \in Reads(syn, p, key, trees)
  BY <1>1 DEF Step
<1>4. q.tree \in trees
  BY <1>1, <1>2, <1>3, StepParts
<1>5. Tame(syn, txt, D, Lost, p.tree, key, q.tree)
  BY <1>1, <1>4
<1>6. Held(syn, txt, D, Lost, q)
  BY <1>2, <1>3, <1>5, HeldStep
<1>7. Compatible(q.tree, txt)
  BY DEF Compatible, GivenIn, NoRivals
<1> QED
  BY <1>1, <1>2, <1>4, <1>6, <1>7 DEF Sound

RelateSound(p) == \E rk : Sound(Syntax["relate"], RelateText, rk, {}, {}, p)

LEMMA RelateFacts ==
  /\ Syntax["relate"] = RelateSyntax /\ Text["relate"] = RelateText /\ Default("relate") = NoTree
  /\ IsTree(NoTree) /\ DOMAIN NoTree = {} /\ NoRivals(RelateText)
  /\ Planned(RelateSyntax, RelateText, <<1, 2, 4, 5, 6>>, {}, {})
<1>1. DOMAIN NoTree = {}
  BY DEF NoTree
<1>2. NoRivals(RelateText)
  BY DEF NoRivals, RelateText, Rivals
<1> QED
  BY <1>1, <1>2, Layouts, Plans DEF Laid

LEMMA RelateBegins ==
  RelateSound(Begin(Default("relate")))
<1>1. PICK t : t = NoTree
  OBVIOUS
<1>2. Sound(RelateSyntax, RelateText, <<1, 2, 4, 5, 6>>, DOMAIN t, {}, Begin(t))
  BY <1>1, RelateFacts, SoundBegins
<1> QED
  BY <1>1, <1>2, RelateFacts DEF RelateSound

LEMMA RelateStep ==
  ASSUME NEW p, RelateSound(p), NEW key, NEW arg, NEW q \in Step("relate", p, key, arg)
  PROVE  RelateSound(q)
<1>1. PICK t : t = p.tree
  OBVIOUS
<1>2. PICK rk : Sound(RelateSyntax, RelateText, rk, {}, {}, p) /\ IsTree(t)
  BY <1>1, RelateFacts DEF RelateSound, Sound, Held
<1>3. Read("relate", t, key, arg) = ReadRelate(t, key, arg)
  BY DEF Read
<1>4. ASSUME NEW a \in DOMAIN RelateSyntax, key \in RelateSyntax[a].keys
      PROVE  /\ key \in Words(RelateText) \/ key \in {"<-", "UNIQUE"}
             /\ key = "UNIQUE" => ~RelateSyntax[a].must
             /\ key = "<-" => "->" \in RelateSyntax[a].keys /\ "->" \in Words(RelateText)
  BY <1>4 DEF RelateSyntax, RelateText, Words, May, Must, OneOf, Stage
<1>5. ASSUME NEW u \in ReadRelate(t, key, arg)
      PROVE  Tame(RelateSyntax, RelateText, {}, {}, t, key, u)
  <2>1. CASE key = "<-"
    <3>1. u = With(t, "->", Reverse(arg))
      BY <1>5, <2>1 DEF ReadRelate
    <3>2. IsTree(u) /\ DOMAIN u = DOMAIN t \cup {"->"}
      BY <3>1 DEF With, IsTree
    <3> QED
      BY <1>4, <2>1, <3>2 DEF Tame
  <2>2. CASE key = "UNIQUE"
    <3>1. u = t
      BY <1>5, <2>2 DEF ReadRelate
    <3> QED
      BY <1>2, <1>4, <2>2, <3>1, LeavingIsTame
  <2>3. CASE key \notin {"<-", "UNIQUE"}
    <3>1. u = With(t, key, arg)
      BY <1>5, <2>3 DEF ReadRelate
    <3>2. Simple(RelateSyntax, RelateText, {}, {}, key)
      BY <1>4, <2>3 DEF Simple
    <3> QED
      BY <1>2, <3>1, <3>2, GivingIsTame
  <2> QED
    BY <2>1, <2>2, <2>3
<1>6. \A u \in Read("relate", p.tree, key, arg) : Tame(RelateSyntax, RelateText, {}, {}, p.tree, key, u)
  BY <1>1, <1>3, <1>5
<1> QED
  BY <1>2, <1>6, RelateFacts, TameStep DEF RelateSound

LEMMA RelateReturns ==
  ASSUME NEW p, RelateSound(p), MayEnd("relate", p)
  PROVE  Returns("relate", p)
<1>1. PICK s, t, txt : s = "relate" /\ t = p.tree /\ txt = RelateText
  OBVIOUS
<1>2. PICK rk : Sound(Syntax[s], txt, rk, {}, {}, p)
  BY <1>1 DEF RelateSound
<1>3. Finished(s, txt, rk, {}, p)
  BY <1>1, <1>2, RelateFacts DEF Finished
<1>4. ASSUME NEW i \in DOMAIN txt, NEW b
      PROVE  Read(s, b, txt[i], WriteArg(txt[i], t[txt[i]])) = {With(b, txt[i], t[txt[i]])}
  <2>1. txt[i] \notin {"PERMISSIONS", "TYPE", "<-", "UNIQUE"}
    BY <1>1 DEF RelateText
  <2>2. WriteArg(txt[i], t[txt[i]]) = t[txt[i]]
    BY <2>1 DEF WriteArg
  <2>3. Read(s, b, txt[i], t[txt[i]]) = ReadRelate(b, txt[i], t[txt[i]])
    BY <1>1 DEF Read
  <2> QED
    BY <2>1, <2>2, <2>3 DEF ReadRelate
<1>5. AsWritten(s, txt, p.tree)
  BY <1>1, <1>4 DEF AsWritten
<1>6. Without(p.tree, {}) = p.tree /\ Complete(s, p.tree)
  BY <1>1, <1>2, WithoutLost DEF MayEnd
<1>7. TreesOf(s, ShowAll(p.tree, txt)) = {AstOf(s, Without(p.tree, {}))}
  BY <1>3, <1>5, <1>6, AsWrittenReread
<1>8. Written(s, p.tree) = ShowAll(p.tree, txt) /\ ~Unreadable(s, p.tree) /\ Kept(s, p.tree) = p.tree
  BY <1>1, RelateFacts DEF Written, Unreadable, Kept, RemoveSyntax
<1> QED
  BY <1>1, <1>6, <1>7, <1>8 DEF Returns

-----------------------------------------------------------------------------
(* INFO and SELECT, where what a clause may say depends on earlier ones.    *)

\* What the parser has when it comes to a clause: what was written before.
LEMMA WrittenBefore ==
  ASSUME NEW s, NEW K, NEW txt, NEW i \in DOMAIN txt, Default(s) = NoTree
  PROVE  /\ DOMAIN Before(s, K, txt, i) = Earlier(K, txt, i)
         /\ \A j \in DOMAIN txt : j < i /\ txt[j] \in DOMAIN K =>
              txt[j] \in Earlier(K, txt, i) /\ Before(s, K, txt, i)[txt[j]] = K[txt[j]]
<1>1. PICK E : E = Earlier(K, txt, i)
  OBVIOUS
<1>2. \A j \in DOMAIN txt : j < i /\ txt[j] \in DOMAIN K => txt[j] \in E
  BY <1>1 DEF Earlier
<1>3. PICK b : b = Before(s, K, txt, i) /\ b = [k \in E |-> K[k]]
  BY <1>1 DEF Before, NoTree
<1> QED
  BY <1>1, <1>2, <1>3

InfoTree(t) ==
  /\ Given(t, "VERSION") => Given(t, "DATABASE") \/ Given(t, "TABLE")
  /\ Given(t, "ON") => Given(t, "USER")
InfoSound(p) == InfoTree(p.tree) /\ \E rk : Sound(Syntax["info"], InfoText, rk, {}, {}, p)

LEMMA InfoFacts ==
  /\ Syntax["info"] = InfoSyntax /\ Text["info"] = InfoText /\ Default("info") = NoTree
  /\ IsTree(NoTree) /\ DOMAIN NoTree = {}
  /\ Planned(InfoSyntax, InfoText, <<1, 1, 1, 1, 1, 1, 2, 2, 3>>, {}, {})
  /\ \A key : Simple(InfoSyntax, InfoText, {}, {}, key)
<1>1. DOMAIN NoTree = {}
  BY DEF NoTree
<1>2. \A a \in DOMAIN InfoSyntax : \A k \in InfoSyntax[a].keys : k \in Words(InfoText)
  BY DEF Words, InfoText, InfoSyntax, OneOf, MayOneOf, May, Stage
<1> QED
  BY <1>1, <1>2, Layouts, Plans DEF Laid, Simple

LEMMA InfoBegins ==
  InfoSound(Begin(Default("info")))
<1>1. PICK t : t = NoTree
  OBVIOUS
<1>2. Sound(InfoSyntax, InfoText, <<1, 1, 1, 1, 1, 1, 2, 2, 3>>, DOMAIN t, {}, Begin(t))
  BY <1>1, InfoFacts, SoundBegins
<1>3. PICK p : p = Begin(t) /\ p.tree = t
  BY AtParts DEF Begin
<1>4. InfoTree(t)
  BY <1>1 DEF InfoTree, Given, NoTree
<1> QED
  BY <1>1, <1>2, <1>3, <1>4, InfoFacts DEF InfoSound

LEMMA InfoStep ==
  ASSUME NEW p, InfoSound(p), NEW key, NEW arg, NEW q \in Step("info", p, key, arg)
  PROVE  InfoSound(q)
<1>1. PICK t, u : t = p.tree /\ u = q.tree
  OBVIOUS
<1>2. PICK rk : Sound(InfoSyntax, InfoText, rk, {}, {}, p) /\ InfoTree(t)
  BY <1>1, InfoFacts DEF InfoSound
<1>3. Read("info", t, key, arg) = ReadInfo(t, key, arg)
  BY DEF Read
<1>4. ASSUME NEW v \in ReadInfo(t, key, arg)
      PROVE  v = With(t, key, arg) /\ InfoTree(v)
  <2>1. /\ v = With(t, key, arg)
        /\ key = "VERSION" => Given(t, "DATABASE") \/ Given(t, "TABLE")
        /\ key = "ON" => Given(t, "USER")
    BY <1>4 DEF ReadInfo, Unless, Refused
  <2>2. DOMAIN v = DOMAIN t \cup {key}
    BY <2>1 DEF With
  <2> QED
    BY <1>2, <2>1, <2>2 DEF InfoTree, Given
<1>5. \A v \in Read("info", p.tree, key, arg) : Ordinary(InfoSyntax, InfoText, {}, {}, p.tree, key, v)
  BY <1>1, <1>3, <1>4, InfoFacts DEF Ordinary
<1>6. Sound(Syntax["info"], InfoText, rk, {}, {}, q)
  BY <1>2, <1>5, InfoFacts, SoundStep
<1>7. u \in Read("info", t, key, arg)
  <2>1. p.stage \in Nat /\ IsSyntax(Syntax["info"])
    BY <1>2, InfoFacts DEF Sound, Held, Planned, Fits, IsSyntax
  <2> QED
    BY <1>1, <2>1, StepTaken
<1> QED
  BY <1>1, <1>3, <1>4, <1>6, <1>7 DEF InfoSound

LEMMA InfoReturns ==
  ASSUME NEW p, InfoSound(p), MayEnd("info", p)
  PROVE  Returns("info", p)
<1>1. PICK s, t, txt : s = "info" /\ t = p.tree /\ txt = InfoText
  OBVIOUS
<1>2. PICK rk : Sound(Syntax[s], txt, rk, {}, {}, p) /\ InfoTree(t)
  BY <1>1 DEF InfoSound
<1>3. Finished(s, txt, rk, {}, p)
  BY <1>1, <1>2, InfoFacts DEF Finished
<1>4. Said(p.tree, txt, Without(p.tree, {})) /\ Without(p.tree, {}) = p.tree
  BY <1>2, WithoutLost
<1>5. ASSUME NEW i \in DOMAIN txt, Given(t, txt[i])
      PROVE  Read(s, Before(s, t, txt, i), txt[i], WriteArg(txt[i], t[txt[i]]))
               = {With(Before(s, t, txt, i), txt[i], t[txt[i]])}
  <2>1. PICK b : b = Before(s, t, txt, i)
    OBVIOUS
  <2>2. Default(s) = NoTree
    BY <1>1, InfoFacts
  <2>3. \A j \in DOMAIN txt : j < i /\ txt[j] \in DOMAIN t => Given(b, txt[j])
    BY <2>1, <2>2, WrittenBefore DEF Given
  <2>4. /\ DOMAIN txt = 1..9 /\ txt[3] = "DATABASE" /\ txt[4] = "TABLE" /\ txt[5] = "USER"
        /\ txt[i] = "VERSION" => i = 7
        /\ txt[i] = "ON" => i = 8
    BY <1>1 DEF InfoText
  <2>5. /\ txt[i] = "VERSION" => Given(b, "DATABASE") \/ Given(b, "TABLE")
        /\ txt[i] = "ON" => Given(b, "USER")
    BY <1>2, <1>5, <2>3, <2>4 DEF InfoTree, Given
  <2>6. WriteArg(txt[i], t[txt[i]]) = t[txt[i]]
    BY <1>1 DEF WriteArg, InfoText
  <2>7. ReadInfo(b, txt[i], t[txt[i]]) = {With(b, txt[i], t[txt[i]])}
    BY <2>5 DEF ReadInfo, Unless
  <2>8. Read(s, b, txt[i], t[txt[i]]) = ReadInfo(b, txt[i], t[txt[i]])
    BY <1>1 DEF Read
  <2> QED
    BY <2>1, <2>6, <2>7, <2>8
<1>6. Complete(s, t)
  BY <1>1 DEF MayEnd
<1>7. Rereads(s, txt, p.tree, t)
  BY <1>1, <1>4, <1>5, <1>6 DEF Rereads, Said
<1>8. TreesOf(s, ShowAll(p.tree, txt)) = {AstOf(s, t)}
  BY <1>3, <1>7, SoundReread
<1>9. Written(s, p.tree) = ShowAll(p.tree, txt) /\ ~Unreadable(s, p.tree) /\ Kept(s, p.tree) = p.tree
  BY <1>1, InfoFacts DEF Written, Unreadable, Kept, RemoveSyntax
<1> QED
  BY <1>1, <1>8, <1>9 DEF Returns

SelectTree(t) ==
  /\ \A k \in {"SPLIT", "ORDER"} : Given(t, k) => SelectedAll(t, t[k], FALSE)
  /\ Given(t, "GROUP") => SelectedAll(t, t["GROUP"], TRUE) /\ ~Given(t, "SPLIT")
SelectSound(p) == SelectTree(p.tree) /\ \E rk : Sound(Syntax["select"], SelectText, rk, {}, {"TEMPFILES"}, p)

LEMMA SelectFacts ==
  /\ Syntax["select"] = SelectSyntax /\ Text["select"] = SelectText /\ Default("select") = NoTree
  /\ IsTree(NoTree) /\ DOMAIN NoTree = {}
  /\ Planned(SelectSyntax, SelectText, <<1, 2, 3, 4, 5, 6, 7, 8, 9, 10, 10, 11, 12, 13, 15>>, {}, {"TEMPFILES"})
  /\ \A key : Simple(SelectSyntax, SelectText, {}, {"TEMPFILES"}, key)
<1>1. DOMAIN NoTree = {}
  BY DEF NoTree
<1>2. \A a \in DOMAIN SelectSyntax : \A k \in SelectSyntax[a].keys :
        k \in Words(SelectText) \/ (k \in {"TEMPFILES"} /\ ~SelectSyntax[a].must)
  BY DEF Words, SelectText, SelectSyntax, Must, Loop, May, Stage
<1> QED
  BY <1>1, <1>2, Layouts, Plans DEF Laid, Simple

LEMMA SelectBegins ==
  SelectSound(Begin(Default("select")))
<1>1. PICK t : t = NoTree
  OBVIOUS
<1>2. Sound(SelectSyntax, SelectText, <<1, 2, 3, 4, 5, 6, 7, 8, 9, 10, 10, 11, 12, 13, 15>>, DOMAIN t,
            {"TEMPFILES"}, Begin(t))
  BY <1>1, SelectFacts, SoundBegins
<1>3. PICK p : p = Begin(t) /\ p.tree = t
  BY AtParts DEF Begin
<1>4. SelectTree(t)
  BY <1>1 DEF SelectTree, Given, NoTree
<1> QED
  BY <1>1, <1>2, <1>3, <1>4, SelectFacts DEF SelectSound

LEMMA SelectStep ==
  ASSUME NEW p, SelectSound(p), NEW key, NEW arg, NEW q \in Step("select", p, key, arg)
  PROVE  SelectSound(q)
<1>1. PICK t, u, z, y : t = p.tree /\ u = q.tree /\ z = p.stage /\ y = q.stage
  OBVIOUS
<1>2. PICK rk : Sound(SelectSyntax, SelectText, rk, {}, {"TEMPFILES"}, p) /\ SelectTree(t)
  BY <1>1, SelectFacts DEF SelectSound
<1>3. Held(SelectSyntax, SelectText, {}, {"TEMPFILES"}, p) /\ IsSyntax(SelectSyntax) /\ z \in Nat
  BY <1>1, <1>2 DEF Sound, Held, Planned, Fits, IsSyntax
<1>4. Read("select", t, key, arg) = ReadSelect(t, key, arg)
  BY DEF Read
<1>5. /\ u \in ReadSelect(t, key, arg) /\ y \in DOMAIN SelectSyntax /\ key \in SelectSyntax[y].keys
      /\ y > z \/ (y = z /\ SelectSyntax[y].loops)
      /\ \A b \in DOMAIN SelectSyntax : z < b /\ b < y => ~SelectSyntax[b].must
  BY <1>1, <1>3, <1>4, SelectFacts, StepTaken
<1>6. /\ DOMAIN SelectSyntax = 1..15 /\ SelectSyntax[1].must /\ SelectSyntax[1].keys = {"fields"} /\ ~SelectSyntax[1].loops
      /\ \A a \in 1..15 : "fields" \in SelectSyntax[a].keys => a = 1
  BY DEF SelectSyntax, Must, Loop, May, Stage
<1>7. ASSUME key = "fields"
      PROVE  ~Given(t, "SPLIT") /\ ~Given(t, "GROUP") /\ ~Given(t, "ORDER")
  <2>1. z = 0
    BY <1>3, <1>5, <1>6, <1>7
  <2> QED
    BY <1>1, <1>3, <1>6, <2>1 DEF Held, Given
<1>8. ASSUME key # "fields"
      PROVE  "fields" \in DOMAIN t
  <2>1. y # 1
    BY <1>5, <1>6, <1>8
  <2>2. 1 <= z
    BY <1>3, <1>5, <1>6, <2>1
  <2> QED
    BY <1>1, <1>3, <1>6, <2>2 DEF Held
<1>9. ASSUME NEW v \in ReadSelect(t, key, arg)
      PROVE  v = With(t, key, arg) /\ (v = u => SelectTree(v))
  <2>1. /\ v = With(t, key, arg)
        /\ key \in {"SPLIT", "ORDER"} => SelectedAll(t, arg, FALSE)
        /\ key = "GROUP" => SelectedAll(t, arg, TRUE) /\ ~Given(t, "SPLIT")
    BY <1>9 DEF ReadSelect, Unless, Refused
  <2>2. DOMAIN v = DOMAIN t \cup {key} /\ v[key] = arg /\ \A k \in DOMAIN t : k # key => v[k] = t[k]
    BY <2>1 DEF With
  <2>3. CASE key = "fields"
    BY <1>7, <2>1, <2>2, <2>3 DEF SelectTree, Given
  <2>4. CASE key # "fields"
    <3>1. v["fields"] = t["fields"]
      BY <1>8, <2>2, <2>4
    <3>2. \A g : \A x : SelectedAll(v, x, g) = SelectedAll(t, x, g)
      BY <3>1 DEF SelectedAll
    <3>3. ~(key = "SPLIT" /\ Given(t, "GROUP"))
      <4> SUFFICES ASSUME key = "SPLIT", Given(t, "GROUP") PROVE FALSE
        OBVIOUS
      <4>1. y = 7 /\ \A a \in 1..15 : "GROUP" \in SelectSyntax[a].keys => a = 8
        BY <1>5 DEF SelectSyntax, Must, Loop, May, Stage
      <4>2. \E a \in 1..15 : a <= z /\ "GROUP" \in SelectSyntax[a].keys
        BY <1>1, <1>3, <1>6 DEF Held, Given
      <4> QED
        BY <1>3, <1>5, <4>1, <4>2
    <3>4. \A k \in {"SPLIT", "ORDER"} : Given(v, k) => SelectedAll(v, v[k], FALSE)
      BY <1>2, <2>1, <2>2, <3>2 DEF SelectTree, Given
    <3>5. Given(v, "GROUP") => SelectedAll(v, v["GROUP"], TRUE) /\ ~Given(v, "SPLIT")
      BY <1>2, <2>1, <2>2, <3>2, <3>3 DEF SelectTree, Given
    <3> QED
      BY <2>1, <3>4, <3>5 DEF SelectTree
  <2> QED
    BY <2>1, <2>3, <2>4
<1>10. \A v \in Read("select", p.tree, key, arg) : Ordinary(SelectSyntax, SelectText, {}, {"TEMPFILES"}, p.tree, key, v)
  BY <1>1, <1>4, <1>9, SelectFacts DEF Ordinary
<1>11. Sound(Syntax["select"], SelectText, rk, {}, {"TEMPFILES"}, q)
  BY <1>2, <1>10, SelectFacts, SoundStep
<1> QED
  BY <1>1, <1>5, <1>9, <1>11 DEF SelectSound

LEMMA SelectReturns ==
  ASSUME NEW p, SelectSound(p), MayEnd("select", p)
  PROVE  Returns("select", p)
<1>1. PICK s, t, txt, K : s = "select" /\ t = p.tree /\ txt = SelectText /\ K = Without(p.tree, {"TEMPFILES"})
  OBVIOUS
<1>2. PICK rk : Sound(Syntax[s], txt, rk, {}, {"TEMPFILES"}, p) /\ SelectTree(t)
  BY <1>1 DEF SelectSound
<1>3. Finished(s, txt, rk, {"TEMPFILES"}, p)
  BY <1>1, <1>2, SelectFacts DEF Finished
<1>4. Said(t, txt, K)
  BY <1>1, <1>2, WithoutLost
<1>5. "fields" \in DOMAIN t
  <2>1. Held(SelectSyntax, txt, {}, {"TEMPFILES"}, p) /\ Ends(SelectSyntax, p)
    BY <1>1, <1>2, SelectFacts DEF Sound, MayEnd
  <2>2. /\ DOMAIN SelectSyntax = 1..15 /\ Len(SelectSyntax) = 15 /\ SelectSyntax[1].must
        /\ SelectSyntax[1].keys = {"fields"}
    BY DEF SelectSyntax, Must, Loop, May, Stage
  <2>3. 1 <= p.stage
    BY <2>1, <2>2 DEF Ends, Held
  <2> QED
    BY <1>1, <2>1, <2>2, <2>3 DEF Held
<1>6. ASSUME NEW i \in DOMAIN txt, Given(t, txt[i])
      PROVE  Read(s, Before(s, K, txt, i), txt[i], WriteArg(txt[i], t[txt[i]]))
               = {With(Before(s, K, txt, i), txt[i], K[txt[i]])}
  <2>1. PICK b, k : b = Before(s, K, txt, i) /\ k = txt[i]
    OBVIOUS
  <2>2. /\ DOMAIN b = Earlier(K, txt, i)
        /\ \A j \in DOMAIN txt : j < i /\ txt[j] \in DOMAIN K => b[txt[j]] = K[txt[j]]
    BY <1>1, <2>1, SelectFacts, WrittenBefore
  <2>3. k \in DOMAIN K /\ K[k] = t[k] /\ "fields" \in DOMAIN K /\ K["fields"] = t["fields"]
    <3>1. txt[1] = "fields" /\ 1 \in DOMAIN txt
      BY <1>1 DEF SelectText
    <3> QED
      BY <1>4, <1>5, <1>6, <2>1, <3>1 DEF Said, Words, Given
  <2>4. ASSUME k # "fields"
        PROVE  b["fields"] = t["fields"]
    <3>1. txt[1] = "fields" /\ 1 \in DOMAIN txt /\ 1 < i
      BY <1>1, <2>1, <2>4 DEF SelectText
    <3> QED
      BY <2>2, <2>3, <3>1
  <2>5. /\ k \notin DOMAIN b
        /\ \A x \in DOMAIN b : x \in DOMAIN t
    <3>1. \A j \in DOMAIN txt : j < i => txt[j] # txt[i]
      BY <1>1 DEF SelectText
    <3>2. DOMAIN K \subseteq DOMAIN t
      BY <1>4 DEF Said
    <3> QED
      BY <2>1, <2>2, <3>1, <3>2 DEF Earlier
  <2>6. \A g : \A x : k # "fields" => SelectedAll(b, x, g) = SelectedAll(t, x, g)
    BY <2>4 DEF SelectedAll
  <2>7. /\ k \in {"SPLIT", "ORDER"} => SelectedAll(b, t[k], FALSE)
        /\ k = "GROUP" => SelectedAll(b, t[k], TRUE) /\ ~Given(b, "SPLIT")
    BY <1>2, <1>6, <2>1, <2>5, <2>6 DEF SelectTree, Given
  <2>8. ReadSelect(b, k, t[k]) = {With(b, k, t[k])}
    BY <2>5, <2>7 DEF ReadSelect, Unless, Given
  <2>9. WriteArg(k, t[k]) = t[k]
    BY <1>1, <2>1 DEF WriteArg, SelectText
  <2>10. Read(s, b, k, t[k]) = ReadSelect(b, k, t[k])
    BY <1>1 DEF Read
  <2> QED
    BY <2>1, <2>3, <2>8, <2>9, <2>10
<1>7. Complete(s, K)
  BY <1>1 DEF Complete
<1>8. Rereads(s, txt, t, K)
  BY <1>4, <1>6, <1>7 DEF Rereads, Said
<1>9. TreesOf(s, ShowAll(p.tree, txt)) = {AstOf(s, K)}
  BY <1>1, <1>3, <1>8, SoundReread
<1>10. Written(s, p.tree) = ShowAll(p.tree, txt) /\ ~Unreadable(s, p.tree) /\ Kept(s, p.tree) = K
  BY <1>1, SelectFacts DEF Written, Unreadable, Kept, RemoveSyntax
<1> QED
  BY <1>1, <1>9, <1>10 DEF Returns

-----------------------------------------------------------------------------
(* PERMISSIONS, as they are written and read again.                        *)
Names(text, g) == \E i \in DOMAIN text : text[i] = g

LEMMA NamedByEither ==
  ASSUME NEW U, NEW x \in Seq(U), NEW y \in Seq(U), NEW g
  PROVE  Names(x \o y, g) <=> Names(x, g) \/ Names(y, g)
<1>a. Len(x) \in Nat /\ Len(y) \in Nat
  OBVIOUS
<1>b. PICK m, n \in Nat : m = Len(x) /\ n = Len(y)
  BY <1>a
<1>1. PICK z : m = Len(x) /\ n = Len(y) /\ z = x \o y
  BY <1>b
<1>2. /\ DOMAIN x = 1..m /\ DOMAIN y = 1..n /\ DOMAIN z = 1..(m + n)
      /\ \A i \in 1..m : z[i] = x[i]
      /\ \A i \in 1..n : z[i + m] = y[i]
      /\ \A i \in 1..(m + n) : i > m => z[i] = y[i - m] /\ i - m \in 1..n
  BY <1>1
<1>3. ASSUME NEW i \in 1..(m + n), z[i] = g PROVE Names(x, g) \/ Names(y, g)
  BY <1>2, <1>3 DEF Names
<1>4. ASSUME NEW i \in 1..m, x[i] = g PROVE Names(z, g)
  BY <1>2, <1>4 DEF Names
<1>5. ASSUME NEW i \in 1..n, y[i] = g PROVE Names(z, g)
  <2>1. i + m \in 1..(m + n)
    OBVIOUS
  <2> QED
    BY <1>2, <1>5, <2>1 DEF Names
<1> QED
  BY <1>1, <1>2, <1>3, <1>4, <1>5 DEF Names

LEMMA Elements ==
  ASSUME NEW U, NEW ss \in Seq(Seq(U))
  PROVE  \E n \in Nat : /\ n = Len(ss) /\ DOMAIN ss = 1..n
                        /\ \A i \in 1..n : ss[i] \in Seq(U)
<1>1. PICK n \in Nat : n = Len(ss)
  OBVIOUS
<1>2. DOMAIN ss = 1..n /\ \A i \in 1..n : ss[i] \in Seq(U)
  BY <1>1
<1> QED
  BY <1>1, <1>2

LEMMA NamedByFour ==
  ASSUME NEW U, NEW ss \in Seq(Seq(U)), Len(ss) = 4, NEW g
  PROVE  /\ FlattenSeq(ss) \in Seq(U)
         /\ Names(FlattenSeq(ss), g) <=> \E i \in 1..4 : Names(ss[i], g)
<1>a. PICK n \in Nat : /\ n = Len(ss) /\ DOMAIN ss = 1..n
                       /\ \A i \in 1..n : ss[i] \in Seq(U)
  BY Elements
<1>c. n = 4
  BY <1>a
<1>b. PICK h \in [0..n -> Seq(U)] : /\ h[0] = <<>> /\ h[n] = FlattenSeq(ss)
                                    /\ \A i \in 1..n : h[i] = h[i - 1] \o ss[i]
  BY <1>a, Flattened
<1>1. /\ h \in [0..4 -> Seq(U)] /\ h[0] = <<>> /\ h[4] = FlattenSeq(ss)
      /\ \A i \in 1..4 : h[i] = h[i - 1] \o ss[i]
  BY <1>b, <1>c
<1>2. \A i \in 1..4 : ss[i] \in Seq(U)
  BY <1>a, <1>c
<1>3. ~Names(h[0], g)
  BY <1>1 DEF Names
<1>4. \A i \in 1..4 : h[i - 1] \in Seq(U) /\ h[i] \in Seq(U)
  <2>1. \A i \in 1..4 : i - 1 \in 0..4 /\ i \in 0..4
    OBVIOUS
  <2> QED
    BY <1>1, <2>1
<1>5. ASSUME NEW i \in 1..4
      PROVE  Names(h[i], g) <=> Names(h[i - 1], g) \/ Names(ss[i], g)
  <2>1. PICK x \in Seq(U), y \in Seq(U) : x = h[i - 1] /\ y = ss[i] /\ h[i] = x \o y
    BY <1>1, <1>2, <1>4
  <2>2. Names(x \o y, g) <=> Names(x, g) \/ Names(y, g)
    BY NamedByEither
  <2> QED
    BY <2>1, <2>2
<1>6. /\ Names(h[1], g) <=> Names(h[0], g) \/ Names(ss[1], g)
      /\ Names(h[2], g) <=> Names(h[1], g) \/ Names(ss[2], g)
      /\ Names(h[3], g) <=> Names(h[2], g) \/ Names(ss[3], g)
      /\ Names(h[4], g) <=> Names(h[3], g) \/ Names(ss[4], g)
  BY <1>5
<1>7. Names(h[4], g) <=> \E i \in 1..4 : Names(ss[i], g)
  <2>1. \A i : i \in 1..4 <=> i \in {1, 2, 3, 4}
    OBVIOUS
  <2> QED
    BY <1>3, <1>6, <2>1
<1>8. h[4] \in Seq(U)
  BY <1>4
<1> QED
  BY <1>1, <1>7, <1>8

IsPermissions(p) == p = [o \in Operation |-> p[o]]
Same(p, o) == {other \in Spoken(p) : p[other] = p[o]}

\* A group that is written is that of an operation that is spoken of, and
\* there is one for every such operation.
LEMMA GroupsWritten ==
  ASSUME NEW p, IsPermissions(p), p # Permissions("NONE"), p # Permissions("FULL"), NEW g
  PROVE  /\ \E U : WritePermissions(p) \in Seq(U)
         /\ Names(WritePermissions(p), g) <=> \E o \in Spoken(p) : g = <<Same(p, o), p[o]>>
<1>1. PICK ss : ss = [i \in DOMAIN OperationOrder |-> WriteGroup(p, i)]
  OBVIOUS
<1>2. DOMAIN OperationOrder = 1..4
  BY DEF OperationOrder
<1>3. PICK U : U = {<<Same(p, o), p[o]>> : o \in Operation}
  OBVIOUS
<1>4. ASSUME NEW i \in 1..4
      PROVE  /\ OperationOrder[i] \in Operation /\ WriteGroup(p, i) \in Seq(U)
             /\ Names(WriteGroup(p, i), g) <=>
                  /\ OperationOrder[i] \in Spoken(p) /\ g = <<Same(p, OperationOrder[i]), p[OperationOrder[i]]>>
                  /\ \A j \in 1..i - 1 : OperationOrder[j] \notin Same(p, OperationOrder[i])
  <2>1. PICK o \in Operation : o = OperationOrder[i]
    BY DEF OperationOrder, Operation
  <2>2. PICK x : x = <<Same(p, o), p[o]>> /\ x \in U
    BY <1>3
  <2>3. WriteGroup(p, i) = IF o \in Spoken(p) /\ \A j \in 1..i - 1 : OperationOrder[j] \notin Same(p, o) THEN <<x>> ELSE <<>>
    BY <2>1, <2>2 DEF WriteGroup, Same
  <2>4. <<x>> \in Seq(U) /\ (Names(<<x>>, g) <=> g = x) /\ <<>> \in Seq(U) /\ ~Names(<<>>, g)
    BY <2>2 DEF Names
  <2> QED
    BY <2>1, <2>2, <2>3, <2>4
<1>5. ss \in Seq(Seq(U)) /\ Len(ss) = 4 /\ \A i \in 1..4 : ss[i] = WriteGroup(p, i)
  BY <1>1, <1>2, <1>4
<1>6. WritePermissions(p) = FlattenSeq(ss)
  BY <1>1 DEF WritePermissions
<1>7. /\ WritePermissions(p) \in Seq(U)
      /\ Names(WritePermissions(p), g) <=> \E i \in 1..4 : Names(WriteGroup(p, i), g)
  BY <1>5, <1>6, NamedByFour
<1>8. ASSUME NEW o \in Spoken(p), g = <<Same(p, o), p[o]>>
      PROVE  \E i \in 1..4 : Names(WriteGroup(p, i), g)
  <2> DEFINE First(i) == OperationOrder[i] \in Same(p, o) /\ \A j \in 1..i - 1 : OperationOrder[j] \notin Same(p, o)
  <2>1. \E i \in 1..4 : First(i)
    <3>1. o \in Same(p, o) /\ o \in Operation
      BY DEF Same, Spoken
    <3>2. \E i \in 1..4 : OperationOrder[i] = o
      BY <3>1 DEF OperationOrder, Operation
    <3>3. \E i \in 1..4 : OperationOrder[i] \in Same(p, o)
      BY <3>1, <3>2
    <3>4. \A j : (j \in 1..0 <=> FALSE) /\ (j \in 1..1 <=> j = 1) /\ (j \in 1..2 <=> j \in {1, 2}) /\ (j \in 1..3 <=> j \in {1, 2, 3})
                 /\ (j \in 1..4 <=> j \in {1, 2, 3, 4})
      OBVIOUS
    <3> HIDE DEF First
    <3>5. /\ First(1) <=> OperationOrder[1] \in Same(p, o)
          /\ First(2) <=> OperationOrder[2] \in Same(p, o) /\ OperationOrder[1] \notin Same(p, o)
          /\ First(3) <=> OperationOrder[3] \in Same(p, o) /\ OperationOrder[1] \notin Same(p, o) /\ OperationOrder[2] \notin Same(p, o)
          /\ First(4) <=> /\ OperationOrder[4] \in Same(p, o) /\ OperationOrder[1] \notin Same(p, o)
                          /\ OperationOrder[2] \notin Same(p, o) /\ OperationOrder[3] \notin Same(p, o)
      BY <3>4 DEF First
    <3> QED
      BY <3>3, <3>4, <3>5
  <2>2. PICK i \in 1..4 : First(i)
    BY <2>1
  <2>3. PICK x : x = OperationOrder[i] /\ x \in Same(p, o)
    BY <2>2
  <2>4. x \in Spoken(p) /\ p[x] = p[o] /\ Same(p, x) = Same(p, o)
    BY <2>3 DEF Same
  <2> QED
    BY <1>4, <1>8, <2>2, <2>3, <2>4
<1>9. ASSUME NEW i \in 1..4, Names(WriteGroup(p, i), g)
      PROVE  \E o \in Spoken(p) : g = <<Same(p, o), p[o]>>
  BY <1>4, <1>9
<1> QED
  BY <1>7, <1>8, <1>9

\* What the groups say of an operation, and what is left if none speaks of it.
LEMMA GroupsRead ==
  ASSUME NEW p, IsPermissions(p), p # Permissions("NONE"), p # Permissions("FULL"), NEW field
  PROVE  /\ ReadPermissions(WritePermissions(p), field) =
              [o \in Operation |-> IF o \in Spoken(p) THEN p[o] ELSE IF field THEN "FULL" ELSE "NONE"]
         /\ \A i \in DOMAIN WritePermissions(p) : WritePermissions(p)[i][1] \subseteq Spoken(p)
<1>a. PICK U : WritePermissions(p) \in Seq(U)
  BY GroupsWritten
<1>1. PICK w \in Seq(U) : w = WritePermissions(p)
  BY <1>a
<1>2. PICK n \in Nat : DOMAIN w = 1..n
  <2>1. Len(w) \in Nat /\ DOMAIN w = 1..Len(w)
    OBVIOUS
  <2> QED
    BY <2>1
<1>3. \A g : Names(w, g) <=> \E o \in Spoken(p) : g = <<Same(p, o), p[o]>>
  BY <1>1, GroupsWritten
<1>4. ASSUME NEW i \in 1..n
      PROVE  \E o \in Spoken(p) : w[i][1] = Same(p, o) /\ w[i][2] = p[o]
  <2>1. PICK g : g = w[i]
    OBVIOUS
  <2>2. Names(w, g)
    BY <1>2, <2>1 DEF Names
  <2>3. PICK o \in Spoken(p) : g = <<Same(p, o), p[o]>>
    BY <1>3, <2>2
  <2> QED
    BY <2>1, <2>3
<1>5. ASSUME NEW o \in Spoken(p) PROVE \E i \in 1..n : w[i][1] = Same(p, o)
  <2>1. Names(w, <<Same(p, o), p[o]>>)
    BY <1>3
  <2> QED
    BY <1>2, <2>1 DEF Names
<1>6. \A o \in Operation : o \in Spoken(p) => o \in Same(p, o) /\ Same(p, o) # Every
  BY DEF Same, Spoken, Operation, Every
<1>7. \A o, x : x \in Same(p, o) => x \in Spoken(p) /\ p[x] = p[o]
  BY DEF Same
<1>8. Spoken(p) \subseteq Operation
  BY DEF Spoken
<1> DEFINE About(o) == {i \in DOMAIN w : w[i][1] = Every \/ o \in w[i][1]}
<1>9. ASSUME NEW o \in Operation
      PROVE  /\ o \in Spoken(p) => About(o) # {} /\ w[Max(About(o))][2] = p[o]
             /\ o \notin Spoken(p) => About(o) = {}
  <2>1. \A i \in About(o) : i \in 1..n /\ o \in Spoken(p) /\ w[i][2] = p[o]
    <3> TAKE i \in About(o)
    <3>1. PICK x \in Spoken(p) : w[i][1] = Same(p, x) /\ w[i][2] = p[x]
      BY <1>2, <1>4
    <3>2. o \in Same(p, x)
      BY <1>6, <1>8, <3>1
    <3> QED
      BY <1>2, <1>7, <3>1, <3>2
  <2>2. o \in Spoken(p) => About(o) # {}
    BY <1>2, <1>5, <1>6
  <2>3. About(o) \in SUBSET (1..n)
    BY <2>1
  <2>4. About(o) # {} => Max(About(o)) \in About(o)
    <3> HIDE DEF About
    <3> QED
      BY <2>3, LastPosition
  <2> HIDE DEF About
  <2> QED
    BY <2>1, <2>2, <2>4
<1>10. ReadPermissions(w, field) =
         [o \in Operation |-> IF About(o) # {} THEN w[Max(About(o))][2] ELSE IF field THEN "FULL" ELSE "NONE"]
  BY DEF ReadPermissions
<1> HIDE DEF About
<1>11. ReadPermissions(w, field) =
         [o \in Operation |-> IF o \in Spoken(p) THEN p[o] ELSE IF field THEN "FULL" ELSE "NONE"]
  BY <1>9, <1>10
<1>12. \A i \in 1..n : w[i][1] \subseteq Spoken(p)
  BY <1>4, <1>7
<1> QED
  BY <1>1, <1>2, <1>11, <1>12

\* What is left of the permissions that are read again, as a table's and as a
\* field's: those of a field never lose anything.
OfField(p) == p["delete"] = "FULL" \/ p = Permissions("NONE")
LEMMA PermissionsReread ==
  ASSUME NEW p, IsPermissions(p)
  PROVE  /\ ReadPermissions(WritePermissions(p), FALSE) = KeptPermissions(p)
         /\ OfField(p) => /\ ReadPermissions(WritePermissions(p), TRUE) = p
                          /\ \A i \in DOMAIN WritePermissions(p) : "delete" \notin WritePermissions(p)[i][1]
<1>1. CASE p = Permissions("NONE") \/ p = Permissions("FULL")
  <2>1. PICK v : p = Permissions(v) /\ v \in {"NONE", "FULL"}
    BY <1>1
  <2>2. PICK w : w = << <<Every, v>> >>
    OBVIOUS
  <2>3. WritePermissions(p) = w
    <3>1. \A a, b : Permissions(a) = Permissions(b) => a = b
      <4>1. \A a : Permissions(a)["select"] = a
        BY DEF Permissions, Operation
      <4> QED
        BY <4>1
    <3> QED
      BY <2>1, <2>2, <3>1 DEF WritePermissions
  <2>4. DOMAIN w = {1} /\ w[1][1] = Every /\ w[1][2] = v
    BY <2>2
  <2>5. Max({1}) = 1
    BY LastPosition
  <2>6. \A f : ReadPermissions(w, f) = Permissions(v)
    <3> TAKE f
    <3>1. {i \in DOMAIN w : TRUE} = {1} /\ \A o : {i \in DOMAIN w : w[i][1] = Every \/ o \in w[i][1]} = {1}
      BY <2>4
    <3> QED
      BY <2>4, <2>5, <3>1 DEF ReadPermissions, Permissions
  <2>7. KeptPermissions(p) = p
    <3>1. p["delete"] = v
      BY <2>1 DEF Permissions, Operation
    <3> QED
      BY <2>1, <3>1 DEF KeptPermissions
  <2>8. "delete" \notin Every
    BY DEF Every
  <2> QED
    BY <2>1, <2>3, <2>4, <2>6, <2>7, <2>8
<1>2. CASE p # Permissions("NONE") /\ p # Permissions("FULL")
  <2>a. \A field \in {TRUE, FALSE} :
          ReadPermissions(WritePermissions(p), field) =
            [o \in Operation |-> IF o \in Spoken(p) THEN p[o] ELSE IF field THEN "FULL" ELSE "NONE"]
    BY <1>2, GroupsRead
  <2>b. \A i \in DOMAIN WritePermissions(p) : WritePermissions(p)[i][1] \subseteq Spoken(p)
    BY <1>2, GroupsRead
  <2>1. /\ ReadPermissions(WritePermissions(p), FALSE) = [o \in Operation |-> IF o \in Spoken(p) THEN p[o] ELSE "NONE"]
        /\ ReadPermissions(WritePermissions(p), TRUE) = [o \in Operation |-> IF o \in Spoken(p) THEN p[o] ELSE "FULL"]
        /\ \A i \in DOMAIN WritePermissions(p) : WritePermissions(p)[i][1] \subseteq Spoken(p)
    BY <2>a, <2>b
  <2>2. \A o \in Operation : o \in Spoken(p) <=> ~(o = "delete" /\ p[o] = "FULL")
    BY DEF Spoken
  <2>3. DOMAIN p = Operation /\ "delete" \in Operation
    BY DEF IsPermissions, Operation
  <2>4. p["delete"] # "FULL" => \A o \in Operation : o \in Spoken(p)
    BY <2>2
  <2>5. [o \in Operation |-> IF o \in Spoken(p) THEN p[o] ELSE "NONE"] = KeptPermissions(p)
    <3>1. CASE p["delete"] = "FULL"
      <4>1. KeptPermissions(p) = [p EXCEPT !["delete"] = "NONE"]
        BY <1>2, <3>1 DEF KeptPermissions
      <4>2. [p EXCEPT !["delete"] = "NONE"] = [o \in Operation |-> IF o = "delete" THEN "NONE" ELSE p[o]]
        BY <2>3 DEF IsPermissions
      <4> QED
        BY <2>2, <3>1, <4>1, <4>2
    <3>2. CASE p["delete"] # "FULL"
      BY <2>4, <3>2 DEF KeptPermissions, IsPermissions
    <3> QED
      BY <3>1, <3>2
  <2>6. OfField(p) => [o \in Operation |-> IF o \in Spoken(p) THEN p[o] ELSE "FULL"] = p
    BY <1>2, <2>2 DEF OfField, IsPermissions
  <2>7. OfField(p) => "delete" \notin Spoken(p)
    BY <1>2, <2>2, <2>3 DEF OfField
  <2> QED
    BY <2>1, <2>5, <2>6, <2>7
<1> QED
  BY <1>1, <1>2

\* The tables a table leads from and to, as they are written and read again.
IsTableType(t) == t = [type |-> t.type, enforced |-> t.enforced, from |-> t.from, to |-> t.to]

LEMMA TableTypeReread ==
  ASSUME NEW t, IsTableType(t)
  PROVE  ReadTableType(WriteTableType(t)) = t
<1>1. PICK a, b : a = t.from /\ b = t.to
  OBVIOUS
<1>2. PICK U : U = {<<"IN", a>>, <<"OUT", b>>}
  OBVIOUS
<1>3. /\ ShowSide("IN", a) \in Seq(U)
      /\ \A g : Names(ShowSide("IN", a), g) <=> a # <<>> /\ g = <<"IN", a>>
  <2>1. PICK c \in U : c = <<"IN", a>>
    BY <1>2
  <2>2. <<c>> \in Seq(U) /\ (\A g : Names(<<c>>, g) <=> g = c) /\ <<>> \in Seq(U) /\ \A g : ~Names(<<>>, g)
    BY DEF Names
  <2> QED
    BY <2>1, <2>2 DEF ShowSide
<1>4. /\ ShowSide("OUT", b) \in Seq(U)
      /\ \A g : Names(ShowSide("OUT", b), g) <=> b # <<>> /\ g = <<"OUT", b>>
  <2>1. PICK c \in U : c = <<"OUT", b>>
    BY <1>2
  <2>2. <<c>> \in Seq(U) /\ (\A g : Names(<<c>>, g) <=> g = c) /\ <<>> \in Seq(U) /\ \A g : ~Names(<<>>, g)
    BY DEF Names
  <2> QED
    BY <2>1, <2>2 DEF ShowSide
<1>5. PICK w \in Seq(U) : w = ShowSide("IN", a) \o ShowSide("OUT", b)
  <2>1. PICK x \in Seq(U), y \in Seq(U) : x = ShowSide("IN", a) /\ y = ShowSide("OUT", b)
    BY <1>3, <1>4
  <2>2. x \o y \in Seq(U)
    OBVIOUS
  <2> QED
    BY <2>1, <2>2
<1>6. \A g : Names(w, g) <=> (a # <<>> /\ g = <<"IN", a>>) \/ (b # <<>> /\ g = <<"OUT", b>>)
  BY <1>3, <1>4, <1>5, NamedByEither
<1>7. PICK n \in Nat : DOMAIN w = 1..n
  <2>1. Len(w) \in Nat /\ DOMAIN w = 1..Len(w)
    OBVIOUS
  <2> QED
    BY <2>1
<1>8. ASSUME NEW side, NEW x, \A g : g[1] = side => (Names(w, g) <=> x # <<>> /\ g = <<side, x>>)
      PROVE  LastSide(w, side) = x
  <2> DEFINE about == {i \in DOMAIN w : w[i][1] = side}
  <2>1. \A i \in about : i \in 1..n /\ x # <<>> /\ w[i] = <<side, x>>
    <3> TAKE i \in about
    <3>1. PICK g : g = w[i]
      OBVIOUS
    <3>2. Names(w, g) /\ g[1] = side
      BY <3>1 DEF Names
    <3> QED
      BY <1>7, <1>8, <3>1, <3>2
  <2>2. x # <<>> => about # {}
    <3>1. <<side, x>>[1] = side
      OBVIOUS
    <3>2. x # <<>> => Names(w, <<side, x>>)
      BY <1>8, <3>1
    <3> QED
      BY <3>1, <3>2 DEF Names
  <2>3. about \in SUBSET (1..n) /\ LastSide(w, side) = IF about # {} THEN w[Max(about)][2] ELSE <<>>
    BY <2>1 DEF LastSide
  <2>4. about # {} => Max(about) \in about
    <3> HIDE DEF about
    <3> QED
      BY <2>3, LastPosition
  <2>5. CASE about = {}
    BY <2>2, <2>3, <2>5
  <2>6. CASE about # {}
    <3>1. PICK i : i = Max(about) /\ i \in about
      BY <2>4, <2>6
    <3>2. w[i][2] = x
      BY <2>1, <3>1
    <3> QED
      BY <2>3, <2>6, <3>1, <3>2
  <2> QED
    BY <2>5, <2>6
<1>9. /\ \A g : g[1] = "IN" => (Names(w, g) <=> a # <<>> /\ g = <<"IN", a>>)
      /\ \A g : g[1] = "OUT" => (Names(w, g) <=> b # <<>> /\ g = <<"OUT", b>>)
  <2>1. <<"IN", a>>[1] = "IN" /\ <<"OUT", b>>[1] = "OUT"
    OBVIOUS
  <2> QED
    BY <1>6, <2>1
<1>10. LastSide(w, "IN") = a /\ LastSide(w, "OUT") = b
  <2>1. LastSide(w, "IN") = a
    BY <1>8, <1>9
  <2>2. LastSide(w, "OUT") = b
    BY <1>8, <1>9
  <2> QED
    BY <2>1, <2>2
<1> QED
  BY <1>1, <1>5, <1>10 DEF IsTableType, ReadTableType, WriteTableType

-----------------------------------------------------------------------------
(* ALTER TABLE and ALTER FIELD: what is written of a DELETE in full, and    *)
(* of ENFORCED, is less than what was read.                                *)
AlterKinds == {"alterTable", "alterField"}
AlterText(s) == IF s = "alterTable" THEN AlterTableText ELSE AlterFieldText
AlterTree(t) ==
  /\ Given(t, "PERMISSIONS") => IsPermissions(t["PERMISSIONS"])
  /\ Given(t, "TYPE") => IsTableType(t["TYPE"])
AlterSound(s, p) == AlterTree(p.tree) /\ \E rk : Sound(Syntax[s], AlterText(s), rk, {}, {}, p)

LEMMA AlterFacts ==
  ASSUME NEW s \in AlterKinds
  PROVE  /\ Default(s) = NoTree /\ IsTree(NoTree) /\ DOMAIN NoTree = {} /\ NoRivals(AlterText(s))
         /\ \E rk : Planned(Syntax[s], AlterText(s), rk, {}, {})
         /\ \A key : Simple(Syntax[s], AlterText(s), {}, {}, key)
<1>1. DOMAIN NoTree = {} /\ IsTree(NoTree)
  BY DEF NoTree, IsTree
<1>2. Default(s) = NoTree
  BY DEF AlterKinds, Default, Defaults
<1>3. Syntax["alterTable"] = AlterTableSyntax
  BY DEF Syntax, Removals, Over, RemoveSyntax, RemoveOnTableSyntax, RemoveOtherSyntax
<1>4. Syntax["alterField"] = AlterFieldSyntax
  BY Layouts DEF Laid
<1>5. NoRivals(AlterTableText)
  BY DEF NoRivals, AlterTableText, Rivals
<1>6. NoRivals(AlterFieldText)
  BY DEF NoRivals, AlterFieldText, Rivals
<1>7. \A a \in DOMAIN AlterTableSyntax : \A k \in AlterTableSyntax[a].keys : k \in Words(AlterTableText)
  BY DEF Words, AlterTableSyntax, AlterTableText, May, Must, Loop, Stage
<1>8. \A a \in DOMAIN AlterFieldSyntax : \A k \in AlterFieldSyntax[a].keys : k \in Words(AlterFieldText)
  BY DEF Words, AlterFieldSyntax, AlterFieldText, May, Must, Loop, Stage
<1>9. s = "alterTable" \/ s = "alterField"
  BY DEF AlterKinds
<1>10. CASE s = "alterTable"
  <2>1. AlterText(s) = AlterTableText
    BY <1>10 DEF AlterText
  <2>2. \E rk : Planned(AlterTableSyntax, AlterTableText, rk, {}, {})
    BY <1>1, Plans
  <2> QED
    BY <1>1, <1>2, <1>3, <1>5, <1>7, <1>10, <2>1, <2>2 DEF Simple
<1>11. CASE s = "alterField"
  <2>1. AlterText(s) = AlterFieldText
    BY <1>11 DEF AlterText
  <2>2. \E rk : Planned(AlterFieldSyntax, AlterFieldText, rk, {}, {})
    BY <1>1, Plans
  <2> QED
    BY <1>1, <1>2, <1>4, <1>6, <1>8, <1>11, <2>1, <2>2 DEF Simple
<1> QED
  BY <1>9, <1>10, <1>11

LEMMA AlterBegins ==
  ASSUME NEW s \in AlterKinds
  PROVE  AlterSound(s, Begin(Default(s)))
<1>1. PICK t : t = NoTree
  OBVIOUS
<1>2. PICK rk : Planned(Syntax[s], AlterText(s), rk, DOMAIN t, {})
  BY <1>1, AlterFacts
<1>3. Sound(Syntax[s], AlterText(s), rk, DOMAIN t, {}, Begin(t))
  BY <1>1, <1>2, AlterFacts, SoundBegins
<1>4. PICK p : p = Begin(t) /\ p.tree = t
  BY AtParts DEF Begin
<1>5. AlterTree(t)
  BY <1>1 DEF AlterTree, Given, NoTree
<1> QED
  BY <1>1, <1>3, <1>4, <1>5, AlterFacts DEF AlterSound

LEMMA AlterStep ==
  ASSUME NEW s \in AlterKinds, NEW p, AlterSound(s, p), NEW key, NEW arg, NEW q \in Step(s, p, key, arg)
  PROVE  AlterSound(s, q)
<1>1. PICK t : t = p.tree
  OBVIOUS
<1>2. PICK rk : Sound(Syntax[s], AlterText(s), rk, {}, {}, p) /\ AlterTree(t) /\ IsTree(t)
  BY <1>1 DEF AlterSound, Sound, Held
<1>3. Read(s, t, key, arg) = ReadAlter(t, key, arg)
  BY DEF AlterKinds, Read
<1>4. ASSUME NEW u \in ReadAlter(t, key, arg)
      PROVE  AlterTree(u) /\ \E x : u = With(t, key, x)
  <2>1. PICK x : /\ u = With(t, key, x)
                 /\ key = "PERMISSIONS" => IsPermissions(x)
                 /\ key = "TYPE" => IsTableType(x)
    <3>1. IsPermissions(ReadPermissions(arg, FALSE))
      BY DEF IsPermissions, ReadPermissions
    <3>2. IsTableType(ReadTableType(arg))
      BY DEF IsTableType, ReadTableType
    <3> QED
      BY <1>4, <3>1, <3>2 DEF ReadAlter
  <2>2. /\ DOMAIN u = DOMAIN t \cup {key} /\ u[key] = x
        /\ \A k \in DOMAIN t : k # key => u[k] = t[k]
    BY <2>1 DEF With
  <2> QED
    BY <1>2, <2>1, <2>2 DEF AlterTree, Given
<1>5. \A u \in Read(s, p.tree, key, arg) : Tame(Syntax[s], AlterText(s), {}, {}, p.tree, key, u)
  BY <1>1, <1>2, <1>3, <1>4, AlterFacts, GivingIsTame
<1>6. Sound(Syntax[s], AlterText(s), rk, {}, {}, q) /\ q.tree \in Read(s, p.tree, key, arg)
  BY <1>2, <1>5, AlterFacts, TameStep
<1> QED
  BY <1>1, <1>3, <1>4, <1>6 DEF AlterSound

\* The text of a tree with permissions and a type of its own.
LEMMA AlterReread ==
  ASSUME NEW s \in AlterKinds, NEW p, AlterSound(s, p), MayEnd(s, p)
  PROVE  TreesOf(s, ShowAll(p.tree, AlterText(s))) = {AstOf(s, KeptTable(p.tree))}
<1>1. PICK t, txt : t = p.tree /\ txt = AlterText(s)
  OBVIOUS
<1>2. PICK rk : Sound(Syntax[s], txt, rk, {}, {}, p) /\ AlterTree(t)
  BY <1>1 DEF AlterSound
<1>3. Finished(s, txt, rk, {}, p)
  BY <1>1, <1>2, AlterFacts DEF Finished
<1>4. IsTree(t) /\ DOMAIN t = DOMAIN t \cap Words(txt)
  BY <1>1, <1>2 DEF Sound, Held
<1>5. PICK K : K = KeptTable(t)
  OBVIOUS
<1>6. /\ IsTree(K) /\ DOMAIN K = DOMAIN t
      /\ \A k \in DOMAIN t : k # "PERMISSIONS" => K[k] = t[k]
      /\ Given(t, "PERMISSIONS") => K["PERMISSIONS"] = KeptPermissions(t["PERMISSIONS"])
  BY <1>4, <1>5 DEF KeptTable, IsTree, Given
<1>7. ASSUME NEW i \in DOMAIN txt, Given(t, txt[i]), NEW b
      PROVE  Read(s, b, txt[i], WriteArg(txt[i], t[txt[i]])) = {With(b, txt[i], K[txt[i]])}
  <2>1. PICK k \in DOMAIN t : k = txt[i]
    BY <1>7 DEF Given
  <2>2. \A x : Read(s, b, k, x) = ReadAlter(b, k, x)
    BY DEF Read, AlterKinds
  <2>3. CASE k = "PERMISSIONS"
    <3>1. IsPermissions(t[k])
      BY <1>2, <2>3 DEF AlterTree, Given
    <3>2. ReadPermissions(WritePermissions(t[k]), FALSE) = KeptPermissions(t[k])
      BY <3>1, PermissionsReread
    <3> QED
      BY <1>6, <2>1, <2>2, <2>3, <3>2 DEF ReadAlter, WriteArg, Given
  <2>4. CASE k = "TYPE"
    <3>1. IsTableType(t[k])
      BY <1>2, <2>4 DEF AlterTree, Given
    <3>2. ReadTableType(WriteTableType(t[k])) = t[k]
      BY <3>1, TableTypeReread
    <3> QED
      BY <1>6, <2>1, <2>2, <2>4, <3>2 DEF ReadAlter, WriteArg
  <2>5. CASE k \notin {"PERMISSIONS", "TYPE"}
    BY <1>6, <2>1, <2>2, <2>5 DEF ReadAlter, WriteArg
  <2> QED
    BY <2>3, <2>4, <2>5
<1>8. Complete(s, K)
  BY DEF Complete, AlterKinds
<1>9. Rereads(s, txt, p.tree, K)
  BY <1>1, <1>4, <1>6, <1>7, <1>8 DEF Rereads
<1> QED
  BY <1>1, <1>3, <1>5, <1>9, SoundReread

LEMMA AlterReturns ==
  ASSUME NEW s \in AlterKinds, NEW p, AlterSound(s, p), MayEnd(s, p)
  PROVE  Returns(s, p)
<1>1. PICK t : t = p.tree
  OBVIOUS
<1>2. PICK rk : Sound(Syntax[s], AlterText(s), rk, {}, {}, p) /\ AlterTree(t)
  BY <1>1 DEF AlterSound
<1>3. IsTree(t)
  BY <1>1, <1>2 DEF Sound, Held
<1>4. ~Unreadable(s, t)
  BY DEF Unreadable, AlterKinds
<1>5. s = "alterTable" \/ s = "alterField"
  BY DEF AlterKinds
<1>6. CASE s = "alterField"
  <2>1. Written(s, t) = ShowAll(t, AlterText(s)) /\ Kept(s, t) = KeptTable(t)
    <3>1. Text[s] = AlterFieldText
      BY <1>6, Layouts DEF Laid
    <3>2. AlterText(s) = AlterFieldText /\ s \notin DOMAIN RemoveSyntax
      BY <1>6 DEF AlterText, RemoveSyntax
    <3> QED
      BY <1>6, <3>1, <3>2 DEF Written, Kept
  <2> QED
    BY <1>1, <1>4, <2>1, AlterReread DEF Returns
<1>7. CASE s = "alterTable"
  <2>1. PICK w : w = NotEnforced(t)
    OBVIOUS
  <2>2. /\ IsTree(w) /\ DOMAIN w = DOMAIN t
        /\ \A k \in DOMAIN t : k # "TYPE" => w[k] = t[k]
        /\ Given(t, "TYPE") => IsTableType(w["TYPE"])
    <3>1. CASE ~Given(t, "TYPE")
      BY <1>3, <2>1, <3>1 DEF NotEnforced
    <3>2. CASE Given(t, "TYPE")
      <4>1. PICK x : x = t["TYPE"] /\ IsTableType(x)
        BY <1>2, <3>2 DEF AlterTree
      <4>2. PICK y : y = [x EXCEPT !.enforced = FALSE]
        OBVIOUS
      <4>3. IsTableType(y)
        BY <4>1, <4>2 DEF IsTableType
      <4>4. w = [k \in DOMAIN t |-> IF k = "TYPE" THEN y ELSE t[k]]
        BY <1>3, <2>1, <3>2, <4>1, <4>2 DEF NotEnforced, IsTree
      <4> QED
        BY <3>2, <4>3, <4>4 DEF IsTree, Given
    <3> QED
      BY <3>1, <3>2
  <2>3. PICK q : q.tree = w /\ q.stage = p.stage
    <3>1. At(p.stage, w).tree = w /\ At(p.stage, w).stage = p.stage
      BY AtParts
    <3> QED
      BY <3>1
  <2>4. Sound(Syntax[s], AlterText(s), rk, {}, {}, q)
    BY <1>1, <1>2, <2>2, <2>3 DEF Sound, Held, Compatible, GivenIn, Given
  <2>5. AlterTree(w)
    BY <1>2, <2>2 DEF AlterTree, Given
  <2>6. AlterSound(s, q) /\ MayEnd(s, q)
    BY <1>7, <2>3, <2>4, <2>5 DEF AlterSound, MayEnd, Ends, Complete
  <2>7. TreesOf(s, ShowAll(w, AlterText(s))) = {AstOf(s, KeptTable(w))}
    BY <2>3, <2>6, AlterReread
  <2>8. Written(s, t) = ShowAll(w, AlterText(s))
    BY <1>7, <2>1 DEF Written, WriteAlterTable, AlterText, NotEnforced
  <2>9. Kept(s, t) = KeptTable(w)
    <3>1. s \notin DOMAIN RemoveSyntax
      BY <1>7 DEF RemoveSyntax
    <3> QED
      BY <1>7, <2>1, <3>1 DEF Kept
  <2> QED
    BY <1>1, <1>4, <2>7, <2>8, <2>9 DEF Returns
<1> QED
  BY <1>5, <1>6, <1>7

-----------------------------------------------------------------------------
(* Clauses that give more than their own keyword.                           *)

\* What is written of the tree t takes the parser from tree to tree: tr[i] is
\* the one after the i-th clause.
Retraces(s, txt, t, tr) ==
  /\ tr[0] = Default(s) /\ Complete(s, tr[Len(txt)])
  /\ \A i \in DOMAIN txt : IF Given(t, txt[i])
                           THEN Read(s, tr[i - 1], txt[i], WriteArg(txt[i], t[txt[i]])) = {tr[i]}
                           ELSE tr[i] = tr[i - 1]
\* Or to the c-th clause, which is refused.
Refuses(s, txt, t, tr, c) ==
  /\ tr[0] = Default(s) /\ c \in DOMAIN txt /\ Given(t, txt[c])
  /\ \A i \in DOMAIN txt : i < c =>
       IF Given(t, txt[i])
       THEN Read(s, tr[i - 1], txt[i], WriteArg(txt[i], t[txt[i]])) = {tr[i]}
       ELSE tr[i] = tr[i - 1]
  /\ Read(s, tr[c - 1], txt[c], WriteArg(txt[c], t[txt[c]])) = {}

\* A finished statement is written in the order of its stages.
LEMMA FinishedInOrder ==
  ASSUME NEW s, NEW txt, NEW rk, NEW Lost, NEW p, Finished(s, txt, rk, Lost, p)
  PROVE  \E n \in Nat :
           /\ n = Len(txt) /\ DOMAIN txt = 1..n /\ IsSyntax(Syntax[s])
           /\ InOrder(Syntax[s], n, GivenIn(p.tree, txt), txt, rk)
           /\ ShowAll(p.tree, txt)
                = FlattenSeq(Optional(n, GivenIn(p.tree, txt), txt, [i \in 1..n |-> WriteArg(txt[i], p.tree[txt[i]])]))
<1>1. PICK n \in Nat : n = Len(txt) /\ DOMAIN txt = 1..n
  BY DEF Finished, Sound, Planned, Fits, IsText
<1>2. PICK t, G, arg : t = p.tree /\ G = GivenIn(t, txt) /\ arg = [i \in 1..n |-> WriteArg(txt[i], t[txt[i]])]
  OBVIOUS
<1>3. PICK D : D = DOMAIN Default(s)
  OBVIOUS
<1>4. /\ Fits(Syntax[s], txt, rk, D) /\ Held(Syntax[s], txt, D, Lost, p) /\ Ends(Syntax[s], p)
      /\ Compatible(p.tree, txt) /\ Lost \cap Words(txt) = {} /\ IsSyntax(Syntax[s])
  BY <1>3 DEF Finished, Sound, Planned, MayEnd, Fits
<1>5. InOrder(Syntax[s], n, G, txt, rk)
  BY <1>1, <1>2, <1>4, HeldInOrder
<1>6. ShowAll(t, txt) = FlattenSeq(Optional(n, G, txt, arg))
  <2>1. ASSUME NEW i \in 1..n
        PROVE  Show(t, txt[i]) = IF i \in G THEN << <<txt[i], arg[i]>> >> ELSE <<>>
    BY <1>1, <1>2, <2>1 DEF Show, GivenIn
  <2>2. [i \in DOMAIN txt |-> Show(t, txt[i])] = Optional(n, G, txt, arg)
    BY <1>1, <2>1 DEF Optional
  <2> QED
    BY <2>2 DEF ShowAll
<1> QED
  BY <1>1, <1>2, <1>4, <1>5, <1>6

LEMMA Retraced ==
  ASSUME NEW s, NEW txt, NEW rk, NEW Lost, NEW p, Finished(s, txt, rk, Lost, p), NEW tr,
         Retraces(s, txt, p.tree, tr)
  PROVE  TreesOf(s, ShowAll(p.tree, txt)) = {AstOf(s, tr[Len(txt)])}
<1>1. PICK n \in Nat :
           /\ n = Len(txt) /\ DOMAIN txt = 1..n /\ IsSyntax(Syntax[s])
           /\ InOrder(Syntax[s], n, GivenIn(p.tree, txt), txt, rk)
           /\ ShowAll(p.tree, txt)
                = FlattenSeq(Optional(n, GivenIn(p.tree, txt), txt, [i \in 1..n |-> WriteArg(txt[i], p.tree[txt[i]])]))
  BY FinishedInOrder
<1>2. PICK t, G, arg : t = p.tree /\ G = GivenIn(t, txt) /\ arg = [i \in 1..n |-> WriteArg(txt[i], t[txt[i]])]
  OBVIOUS
<1>3. Reread(s, n, G, txt, arg, tr)
  <2>1. \A i \in 1..n : (i \in G <=> Given(t, txt[i])) /\ arg[i] = WriteArg(txt[i], t[txt[i]])
    BY <1>1, <1>2 DEF GivenIn
  <2> QED
    BY <1>1, <1>2, <2>1 DEF Reread, Retraces
<1>4. Regular(s, n, G, txt, arg, rk, tr)
  BY <1>1, <1>2, <1>3 DEF Regular, Retraces
<1>5. TreesOf(s, FlattenSeq(Optional(n, G, txt, arg))) = {AstOf(s, tr[n])}
  BY <1>4, OrderedReread
<1> QED
  BY <1>1, <1>2, <1>5

LEMMA RefusedAtLast ==
  ASSUME NEW s, NEW txt, NEW rk, NEW Lost, NEW p, Finished(s, txt, rk, Lost, p), NEW tr, NEW c,
         Refuses(s, txt, p.tree, tr, c)
  PROVE  TreesOf(s, ShowAll(p.tree, txt)) = {}
<1>1. PICK n \in Nat :
           /\ n = Len(txt) /\ DOMAIN txt = 1..n /\ IsSyntax(Syntax[s])
           /\ InOrder(Syntax[s], n, GivenIn(p.tree, txt), txt, rk)
           /\ ShowAll(p.tree, txt)
                = FlattenSeq(Optional(n, GivenIn(p.tree, txt), txt, [i \in 1..n |-> WriteArg(txt[i], p.tree[txt[i]])]))
  BY FinishedInOrder
<1>2. PICK t, G, arg : t = p.tree /\ G = GivenIn(t, txt) /\ arg = [i \in 1..n |-> WriteArg(txt[i], t[txt[i]])]
  OBVIOUS
<1>3. c \in 1..n /\ c \in G /\ tr[0] = Default(s)
  BY <1>1, <1>2 DEF Refuses, GivenIn
<1>4. \A i \in 1..n : (i \in G <=> Given(t, txt[i])) /\ arg[i] = WriteArg(txt[i], t[txt[i]])
  BY <1>1, <1>2 DEF GivenIn
<1>5. /\ \A i \in 1..n : i < c =>
           IF i \in G THEN Read(s, tr[i - 1], txt[i], arg[i]) = {tr[i]} ELSE tr[i] = tr[i - 1]
      /\ Read(s, tr[c - 1], txt[c], arg[c]) = {}
  BY <1>1, <1>2, <1>3, <1>4 DEF Refuses
<1>6. TreesOf(s, FlattenSeq(Optional(n, G, txt, arg))) = {}
  BY <1>1, <1>2, <1>3, <1>5, RefusedReread
<1> QED
  BY <1>1, <1>2, <1>6

\* The tree when the i-th clause is read again, where the c-th gives X, too.
Begun(s, K, txt, c, X, i) ==
  Over([k \in Earlier(K, txt, i) |-> K[k]],
       IF c < i /\ txt[c] \in DOMAIN K THEN Over(X, Default(s)) ELSE Default(s))

\* Each clause of the tree t is read again as it is in K.
RereadsToo(s, txt, t, K, c, X) ==
  /\ IsTree(K) /\ DOMAIN K = DOMAIN t \cap Words(txt) /\ Complete(s, Begun(s, K, txt, c, X, Len(txt) + 1))
  /\ c \in DOMAIN txt /\ \A j \in DOMAIN txt : j <= c => txt[j] \notin DOMAIN X
  /\ \A i \in DOMAIN txt : Given(t, txt[i]) =>
       LET b == Begun(s, K, txt, c, X, i)
           u == With(b, txt[i], K[txt[i]])
       IN  Read(s, b, txt[i], WriteArg(txt[i], t[txt[i]])) = {IF i = c THEN Over(X, u) ELSE u}

LEMMA TooReread ==
  ASSUME NEW s, NEW txt, NEW rk, NEW Lost, NEW p, Finished(s, txt, rk, Lost, p), NEW K, NEW c, NEW X,
         RereadsToo(s, txt, p.tree, K, c, X)
  PROVE  TreesOf(s, ShowAll(p.tree, txt)) = {AstOf(s, Begun(s, K, txt, c, X, Len(txt) + 1))}
<1>1. PICK n \in Nat : n = Len(txt) /\ DOMAIN txt = 1..n
  BY FinishedInOrder
<1>2. PICK t : t = p.tree
  OBVIOUS
<1>3. PICK tr : tr = [i \in 0..n |-> Begun(s, K, txt, c, X, i + 1)]
  OBVIOUS
<1>4. c \in 1..n /\ \A j \in 1..n : j <= c => txt[j] \notin DOMAIN X
  BY <1>1 DEF RereadsToo
<1>5. \A i, j \in 1..n : txt[i] = txt[j] => i = j
  BY <1>1 DEF Finished, Sound, Planned, Fits
<1>6. IsTree(Default(s)) /\ \A i \in 1..n : Given(t, txt[i]) <=> txt[i] \in DOMAIN K
  BY <1>1, <1>2 DEF Finished, RereadsToo, Given, Words
<1>7. ASSUME NEW i \in 1..n
      PROVE  Earlier(K, txt, i + 1) = Earlier(K, txt, i) \cup (IF txt[i] \in DOMAIN K THEN {txt[i]} ELSE {})
  <2>1. \A l \in 1..n : l < i + 1 <=> l < i \/ l = i
    OBVIOUS
  <2> QED
    BY <1>1, <2>1 DEF Earlier
<1>8. ASSUME NEW i \in 1..n
      PROVE  LET b == Begun(s, K, txt, c, X, i)
                 u == With(b, txt[i], K[txt[i]])
             IN  Begun(s, K, txt, c, X, i + 1) =
                   IF txt[i] \notin DOMAIN K THEN b ELSE IF i = c THEN Over(X, u) ELSE u
  <2>1. PICK E, F : E = Earlier(K, txt, i) /\ F = Earlier(K, txt, i + 1)
    OBVIOUS
  <2>2. PICK d, e : /\ d = IF c < i /\ txt[c] \in DOMAIN K THEN Over(X, Default(s)) ELSE Default(s)
                    /\ e = IF c < i + 1 /\ txt[c] \in DOMAIN K THEN Over(X, Default(s)) ELSE Default(s)
    OBVIOUS
  <2>3. PICK b : b = Begun(s, K, txt, c, X, i)
    OBVIOUS
  <2>4. b = [k \in E \cup DOMAIN d |-> IF k \in E THEN K[k] ELSE d[k]]
    BY <2>1, <2>2, <2>3 DEF Begun, Over
  <2>5. Begun(s, K, txt, c, X, i + 1) = [k \in F \cup DOMAIN e |-> IF k \in F THEN K[k] ELSE e[k]]
    BY <2>1, <2>2 DEF Begun, Over
  <2>6. F = E \cup (IF txt[i] \in DOMAIN K THEN {txt[i]} ELSE {})
    BY <1>7, <2>1
  <2>7. CASE txt[i] \notin DOMAIN K
    <3>1. d = e
      BY <1>4, <2>2, <2>7
    <3> QED
      BY <2>3, <2>4, <2>5, <2>6, <2>7, <3>1
  <2>8. CASE txt[i] \in DOMAIN K /\ i # c
    <3>1. d = e
      BY <1>4, <2>2, <2>8
    <3>2. [k \in F \cup DOMAIN e |-> IF k \in F THEN K[k] ELSE e[k]] = With(b, txt[i], K[txt[i]])
      BY <2>4, <2>6, <2>8, <3>1 DEF With
    <3> QED
      BY <2>3, <2>5, <2>8, <3>2
  <2>9. CASE txt[i] \in DOMAIN K /\ i = c
    <3>1. d = Default(s) /\ e = [k \in DOMAIN X \cup DOMAIN d |-> IF k \in DOMAIN X THEN X[k] ELSE d[k]]
      BY <1>4, <2>2, <2>9 DEF Over
    <3>2. \A k \in F : k \notin DOMAIN X
      BY <1>1, <1>4, <2>1, <2>9 DEF Earlier
    <3>3. PICK u : u = With(b, txt[i], K[txt[i]])
      OBVIOUS
    <3>4. u = [k \in F \cup DOMAIN d |-> IF k \in F THEN K[k] ELSE d[k]]
      BY <2>4, <2>6, <2>9, <3>3 DEF With
    <3>5. Over(X, u) = [k \in DOMAIN X \cup DOMAIN u |-> IF k \in DOMAIN X THEN X[k] ELSE u[k]]
      BY DEF Over
    <3>6. Over(X, u) = [k \in F \cup DOMAIN e |-> IF k \in F THEN K[k] ELSE e[k]]
      BY <3>1, <3>2, <3>4, <3>5
    <3> QED
      BY <2>3, <2>5, <2>9, <3>3, <3>6
  <2> QED
    BY <2>7, <2>8, <2>9
<1>9. tr[0] = Default(s)
  <2>1. Earlier(K, txt, 1) = {} /\ ~(c < 1)
    BY <1>1, <1>4 DEF Earlier
  <2>2. Begun(s, K, txt, c, X, 1) = Over([k \in {} |-> K[k]], Default(s))
    BY <2>1 DEF Begun
  <2>3. Over([k \in {} |-> K[k]], Default(s)) = Default(s)
    BY <1>6 DEF Over, IsTree
  <2>4. tr[0] = Begun(s, K, txt, c, X, 0 + 1)
    BY <1>3
  <2> QED
    BY <2>2, <2>3, <2>4
<1>10. \A i \in 1..n : tr[i] = Begun(s, K, txt, c, X, i + 1) /\ tr[i - 1] = Begun(s, K, txt, c, X, i)
  <2>1. \A i \in 1..n : i \in 0..n /\ i - 1 \in 0..n /\ (i - 1) + 1 = i
    OBVIOUS
  <2> QED
    BY <1>3, <2>1
<1>11. ASSUME NEW i \in 1..n
       PROVE  IF Given(t, txt[i])
              THEN Read(s, tr[i - 1], txt[i], WriteArg(txt[i], t[txt[i]])) = {tr[i]}
              ELSE tr[i] = tr[i - 1]
  <2>1. PICK b, u : b = Begun(s, K, txt, c, X, i) /\ u = With(b, txt[i], K[txt[i]])
    OBVIOUS
  <2>2. Begun(s, K, txt, c, X, i + 1) = IF txt[i] \notin DOMAIN K THEN b ELSE IF i = c THEN Over(X, u) ELSE u
    BY <1>8, <2>1
  <2>3. Given(t, txt[i]) => Read(s, b, txt[i], WriteArg(txt[i], t[txt[i]])) = {IF i = c THEN Over(X, u) ELSE u}
    BY <1>1, <1>2, <2>1 DEF RereadsToo
  <2> QED
    BY <1>6, <1>10, <2>1, <2>2, <2>3
<1>12. tr[n] = Begun(s, K, txt, c, X, n + 1)
  BY <1>3
<1>13. Retraces(s, txt, p.tree, tr)
  BY <1>1, <1>2, <1>9, <1>11, <1>12 DEF Retraces, RereadsToo
<1> QED
  BY <1>1, <1>12, <1>13, Retraced
=============================================================================
