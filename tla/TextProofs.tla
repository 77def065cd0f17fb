----------------------------- MODULE TextProofs -----------------------------
(***************************************************************************)
(* What two functions that are no parser make of a text of any length.     *)
(*                                                                         *)
(* parse_with_recovery: the pieces it cuts of a source whose braces        *)
(* balance are those between its semicolons, although the lexer counts     *)
(* braces as it goes and the parser of each piece begins to count anew;    *)
(* a piece that parses is a statement of the source, unless an IF has      *)
(* semicolons of its own; and in any source every token is in a piece.     *)
(*                                                                         *)
(* The searches of context.rs, for texts made of any number of statements  *)
(* of any forms, with any names.  The invariant: each token of a statement *)
(* of a known form stands in a statement of that form, which ends at a     *)
(* semicolon, so that whatever a search looks at behind or before it is    *)
(* known from the form, and other statements do no harm.                   *)
(***************************************************************************)
EXTENDS Recovery, SymbolSearch, Extrema

\* Braces and IFs can be counted.
LEMMA Counted ==
  ASSUME NEW open, NEW close, NEW a \in Int, NEW b \in Int, NEW s
  PROVE  Unclosed(open, close, a, b, s) \in Int
<1>1. IsFiniteSet(a..b)
  BY FS_Interval
<1>2. IsFiniteSet({i \in a..b : s[i] = open}) /\ IsFiniteSet({i \in a..b : s[i] = close})
  BY <1>1, FS_Subset
<1>3. Cardinality({i \in a..b : s[i] = open}) \in Nat /\ Cardinality({i \in a..b : s[i] = close}) \in Nat
  BY <1>2, FS_CardinalityType
<1> QED
  BY <1>3 DEF Unclosed

\* Without any there is nothing to close.
LEMMA NoneOpened ==
  ASSUME NEW open, NEW close, NEW a \in Int, NEW b \in Int, NEW s, \A i \in a..b : s[i] \notin {open, close}
  PROVE  Unclosed(open, close, a, b, s) = 0
<1>1. {i \in a..b : s[i] = open} = {} /\ {i \in a..b : s[i] = close} = {}
  OBVIOUS
<1> QED
  BY <1>1, FS_EmptySet DEF Unclosed

\* No mark is taken for another.
LEMMA TokensDiffer ==
  /\ OpenBrace # CloseBrace /\ OpenBrace # Semicolon /\ CloseBrace # Semicolon
  /\ IfThen # EndIf /\ IfThen # Otherwise /\ EndIf # Otherwise
  /\ Semicolon \notin {IfThen, EndIf, Otherwise}
  BY Zenon DEF OpenBrace, CloseBrace, Semicolon, IfThen, EndIf, Otherwise

\* Two stretches side by side.
LEMMA Together ==
  ASSUME NEW open, NEW close, NEW a \in Int, NEW b \in Int, NEW c \in Int, a <= b + 1, b <= c, NEW s
  PROVE  Unclosed(open, close, a, c, s) = Unclosed(open, close, a, b, s) + Unclosed(open, close, b + 1, c, s)
<1> DEFINE C(x, y, k) == {i \in x..y : s[i] = k}
<1>1. ASSUME NEW k
      PROVE  /\ Cardinality(C(a, c, k)) = Cardinality(C(a, b, k)) + Cardinality(C(b + 1, c, k))
             /\ Cardinality(C(a, b, k)) \in Nat /\ Cardinality(C(b + 1, c, k)) \in Nat
  <2> DEFINE X == C(a, b, k)
             Y == C(b + 1, c, k)
  <2>1. IsFiniteSet(X) /\ IsFiniteSet(Y)
    <3>1. IsFiniteSet(a..b) /\ IsFiniteSet((b + 1)..c)
      BY FS_Interval
    <3>2. X \subseteq a..b /\ Y \subseteq (b + 1)..c
      OBVIOUS
    <3> HIDE DEF X, Y
    <3> QED
      BY <3>1, <3>2, FS_Subset
  <2>2. X \cup Y = C(a, c, k) /\ X \cap Y = {}
    OBVIOUS
  <2> HIDE DEF X, Y
  <2>3. Cardinality(X \cup Y) = Cardinality(X) + Cardinality(Y) - Cardinality(X \cap Y)
    BY <2>1, FS_Union
  <2>4. Cardinality(X \cap Y) = 0 /\ Cardinality(X) \in Nat /\ Cardinality(Y) \in Nat
    BY <2>1, <2>2, FS_EmptySet, FS_CardinalityType
  <2>5. Cardinality(X \cup Y) = Cardinality(X) + Cardinality(Y)
    BY <2>3, <2>4
  <2> QED
    BY <2>2, <2>4, <2>5 DEF X, Y
<1>2. \A x, y : Unclosed(open, close, x, y, s) = Cardinality(C(x, y, open)) - Cardinality(C(x, y, close))
  BY DEF Unclosed
<1> HIDE DEF C
<1> QED
  BY <1>1, <1>2

\* One token.
LEMMA OneToken ==
  ASSUME NEW open, NEW close, open # close, NEW a \in Int, NEW s
  PROVE  Unclosed(open, close, a, a, s) = IF s[a] = open THEN 1 ELSE IF s[a] = close THEN -1 ELSE 0
<1>1. \A k : {i \in a..a : s[i] = k} = IF s[a] = k THEN {a} ELSE {}
  OBVIOUS
<1>2. Cardinality({a}) = 1 /\ Cardinality({}) = 0
  BY FS_Singleton, FS_EmptySet
<1>3. Cardinality({i \in a..a : s[i] = open}) = (IF s[a] = open THEN 1 ELSE 0)
      /\ Cardinality({i \in a..a : s[i] = close}) = (IF s[a] = close THEN 1 ELSE 0)
  BY <1>1, <1>2
<1> QED
  BY <1>3 DEF Unclosed

\* One more token.
LEMMA OneMore ==
  ASSUME NEW open, NEW close, open # close, NEW b \in Nat \ {0}, NEW s
  PROVE  Unclosed(open, close, 1, b, s) = Unclosed(open, close, 1, b - 1, s) +
           (IF s[b] = open THEN 1 ELSE IF s[b] = close THEN -1 ELSE 0)
<1>d. PICK d : d = b - 1
  OBVIOUS
<1>1. d \in Int /\ b \in Int /\ 1 \in Int /\ 1 <= d + 1 /\ d <= b /\ d + 1 = b
  BY <1>d
<1>2. Unclosed(open, close, 1, b, s) = Unclosed(open, close, 1, d, s) + Unclosed(open, close, d + 1, b, s)
  BY <1>1, Together
<1>3. Unclosed(open, close, b, b, s) = IF s[b] = open THEN 1 ELSE IF s[b] = close THEN -1 ELSE 0
  BY <1>1, OneToken
<1> QED
  BY <1>d, <1>1, <1>2, <1>3

\* A source with the same marks in a stretch is read the same there.
LEMMA SameMarks ==
  ASSUME NEW s, NEW r, NEW a \in Int, NEW b \in Int, \A i \in a..b : \A k \in Marks : r[i] = k <=> s[i] = k
  PROVE  /\ Semicolons(a, b, r) = Semicolons(a, b, s) /\ Balanced(a, b, r) = Balanced(a, b, s)
         /\ IfsParse(a, b, r) = IfsParse(a, b, s)
<1>1. ASSUME NEW open \in Marks, NEW close \in Marks, NEW j \in (a..b) \cup {b}
      PROVE  Unclosed(open, close, a, j, r) = Unclosed(open, close, a, j, s)
  <2>1. a..j \subseteq a..b
    OBVIOUS
  <2>2. {i \in a..j : r[i] = open} = {i \in a..j : s[i] = open} /\ {i \in a..j : r[i] = close} = {i \in a..j : s[i] = close}
    BY <2>1
  <2> QED
    BY <2>2 DEF Unclosed
<1>2. {OpenBrace, CloseBrace, Semicolon, IfThen, Otherwise, EndIf} \subseteq Marks
  BY DEF Marks
<1>3. \A j \in (a..b) \cup {b} : OpenBraces(a, j, r) = OpenBraces(a, j, s) /\ OpenIfs(a, j, r) = OpenIfs(a, j, s)
  BY <1>1, <1>2 DEF OpenBraces, OpenIfs
<1>4. \A i \in a..b : \A k \in {Semicolon, IfThen, Otherwise, EndIf} : r[i] = k <=> s[i] = k
  BY <1>2
<1>5. Semicolons(a, b, r) = Semicolons(a, b, s)
  BY <1>3, <1>4 DEF Semicolons
<1>6. Balanced(a, b, r) = Balanced(a, b, s)
  BY <1>3 DEF Balanced
<1>7. \A i \in a..b : i < b => i + 1 \in a..b
  OBVIOUS
<1>8. IfsParse(a, b, r) = IfsParse(a, b, s)
  <2>1. Semicolons(a, b, s) \subseteq a..b
    BY DEF Semicolons
  <2>2. \A i \in a..b : /\ (r[i] = Otherwise) = (s[i] = Otherwise)
                        /\ (r[i] \in {IfThen, Otherwise, EndIf}) = (s[i] \in {IfThen, Otherwise, EndIf})
                        /\ (r[i] \in {IfThen, Otherwise}) = (s[i] \in {IfThen, Otherwise})
                        /\ (r[i] \in {Semicolon, Otherwise, EndIf}) = (s[i] \in {Semicolon, Otherwise, EndIf})
                        /\ (r[i] \in {Otherwise, EndIf}) = (s[i] \in {Otherwise, EndIf})
    BY <1>4
  <2> QED
    BY <1>3, <1>5, <1>7, <2>1, <2>2 DEF IfsParse
<1> QED
  BY <1>5, <1>6, <1>8

\* Bad tokens are no marks.
LEMMA RepairedMarks ==
  ASSUME NEW s \in Seq(Token)
  PROVE  \A i \in 1..Len(s) : \A k \in Marks : Repaired(s)[i] = k <=> s[i] = k
  BY RecoveryAssumption DEF Repaired

\* Every position of a stretch but its ends is in one of its parts.
LEMMA StretchesCover ==
  ASSUME NEW a \in Nat, NEW b \in Nat, NEW ends \in SUBSET (a..b), NEW i \in a..b, i \notin ends
  PROVE  \E p \in Stretches(a, b, ends) : p[1] <= i /\ i < p[2]
<1> DEFINE starts == {a} \cup {j + 1 : j \in ends}
           S == {x \in starts : x <= i}
           T == {y \in ends \cup {b + 1} : i < y}
<1>1. i \in Nat /\ ends \subseteq Nat /\ starts \subseteq Nat
  OBVIOUS
<1>2. S \in SUBSET Nat /\ S # {} /\ IsFiniteSet(S)
  <2>1. S \subseteq 0..i
    BY <1>1
  <2>2. a \in S
    OBVIOUS
  <2>3. IsFiniteSet(0..i)
    BY FS_Interval
  <2> QED
    BY <1>1, <2>1, <2>2, <2>3, FS_Subset
<1>3. T \in SUBSET Nat /\ T # {}
  <2>1. b + 1 \in T
    OBVIOUS
  <2>2. T \subseteq ends \cup {b + 1} /\ b + 1 \in Nat
    OBVIOUS
  <2> QED
    BY <1>1, <2>1, <2>2
<1>4. PICK x \in S : \A z \in S : x >= z
  <2> HIDE DEF S
  <2> QED
    BY <1>2, GreatestExists
<1>5. PICK y \in T : \A z \in T : y <= z
  <2> HIDE DEF T
  <2> QED
    BY <1>3, LeastExists
<1>6. ASSUME NEW j \in ends, x <= j, j < y PROVE FALSE
  <2>1. CASE j <= i
    <3>1. j + 1 \in S
      BY <1>1, <2>1
    <3> QED
      BY <1>1, <1>4, <1>6, <3>1
  <2>2. CASE i < j
    <3>1. j \in T
      BY <2>2
    <3> QED
      BY <1>1, <1>5, <1>6, <3>1
  <2> QED
    BY <1>1, <2>1, <2>2
<1>7. <<x, y>> \in Stretches(a, b, ends)
  <2>1. x \in starts /\ y \in ends \cup {b + 1} /\ x < y
    BY <1>1, <1>4, <1>5
  <2> HIDE DEF S, T
  <2> QED
    BY <1>6, <2>1 DEF Stretches
<1> QED
  BY <1>4, <1>5, <1>7

\* Every token of a stretch but its semicolons is in one of its statements.
LEMMA StatementsCover ==
  ASSUME NEW s, NEW a \in Nat, NEW b \in Nat, NEW i \in a..b, s[i] # Semicolon
  PROVE  /\ \E p \in StatementsOf(a, b, s) : p[1] <= i /\ i < p[2]
         /\ \E p \in PiecesOf(a, b, s) : p[1] <= i /\ i < p[2]
<1> DEFINE E == Semicolons(a, b, s)
           F == {j \in E : OpenIfs(a, j, s) = 0}
<1>1. E \in SUBSET (a..b) /\ F \in SUBSET (a..b) /\ i \notin E /\ i \notin F
  BY DEF Semicolons
<1>2. StatementsOf(a, b, s) = Stretches(a, b, F) /\ PiecesOf(a, b, s) = Stretches(a, b, E)
  BY DEF StatementsOf, PiecesOf
<1> HIDE DEF E, F
<1> QED
  BY <1>1, <1>2, StretchesCover

\* A piece of a balanced source is balanced, has no semicolon outside of
\* braces, and its braces are counted as those of the source.
LEMMA OnePiece ==
  ASSUME NEW s, NEW n \in Nat, Balanced(1, n, s), NEW c \in PiecesOf(1, n, s)
  PROVE  /\ Balanced(c[1], c[2] - 1, s) /\ Semicolons(c[1], c[2] - 1, s) = {}
         /\ StatementsOf(c[1], c[2] - 1, s) = {c}
         /\ c[1] \in 1..n /\ c[2] \in 2..(n + 1) /\ c[1] < c[2]
         /\ \A j \in c[1]..n : OpenBraces(c[1], j, s) = OpenBraces(1, j, s)
<1> DEFINE ends == Semicolons(1, n, s)
           x == c[1]
           y == c[2]
<1>1. /\ c = <<x, y>> /\ x \in {1} \cup {i + 1 : i \in ends} /\ y \in ends \cup {n + 1} /\ x < y
      /\ \A i \in ends : ~(x <= i /\ i < y)
  BY DEF PiecesOf, Stretches
<1>a. \A i \in ends : i \in 1..n /\ s[i] = Semicolon /\ OpenBraces(1, i, s) = 0
  BY DEF Semicolons
<1> HIDE DEF ends
<1>2. x \in 1..n /\ y \in 2..(n + 1) /\ y - 1 \in 1..n /\ x <= y - 1
  BY <1>1, <1>a
<1>3. OpenBraces(1, x - 1, s) = 0
  <2>1. CASE x = 1
    <3>1. x - 1 \in Int /\ 1..(x - 1) = {} /\ 1 \in Int
      BY <2>1
    <3> QED
      BY <3>1, NoneOpened DEF OpenBraces
  <2>2. CASE x # 1
    <3>1. PICK i \in ends : x = i + 1
      BY <1>1, <2>2
    <3>2. x - 1 = i
      BY <1>a, <3>1
    <3> QED
      BY <1>a, <3>2
  <2> QED
    BY <2>1, <2>2
<1>4. ASSUME NEW j \in x..n PROVE OpenBraces(x, j, s) = OpenBraces(1, j, s)
  <2>d. PICK d : d = x - 1
    OBVIOUS
  <2>1. d \in Int /\ j \in Int /\ 1 <= d + 1 /\ d <= j /\ d + 1 = x /\ x \in Int
    BY <1>2, <2>d
  <2> HIDE DEF x
  <2>2. OpenBraces(1, j, s) = OpenBraces(1, d, s) + OpenBraces(d + 1, j, s)
    BY <2>1, Together DEF OpenBraces
  <2>3. OpenBraces(x, j, s) \in Int
    BY <2>1, Counted DEF OpenBraces
  <2> QED
    BY <1>3, <2>d, <2>1, <2>2, <2>3
<1>5. OpenBraces(1, y - 1, s) = 0
  <2>1. CASE y = n + 1
    BY <1>2, <2>1 DEF Balanced
  <2>2. CASE y # n + 1
    <3>1. y \in ends
      BY <1>1, <2>2
    <3>2. y \in Nat \ {0} /\ y - 1 \in Int /\ s[y] = Semicolon /\ OpenBraces(1, y, s) = 0
      BY <1>2, <1>a, <3>1
    <3> HIDE DEF y
    <3>3. OpenBraces(1, y, s) = OpenBraces(1, y - 1, s) + 0
      BY <3>2, OneMore, TokensDiffer DEF OpenBraces
    <3>4. OpenBraces(1, y - 1, s) \in Int
      BY <3>2, Counted DEF OpenBraces
    <3> QED
      BY <3>2, <3>3, <3>4
  <2> QED
    BY <2>1, <2>2
<1>6. Balanced(x, y - 1, s)
  <2>1. OpenBraces(x, y - 1, s) = 0
    BY <1>2, <1>4, <1>5
  <2>2. ASSUME NEW i \in x..(y - 1) PROVE OpenBraces(x, i, s) >= 0
    <3>1. i \in x..n /\ i \in 1..n
      BY <1>2
    <3> QED
      BY <1>4, <3>1 DEF Balanced
  <2> QED
    BY <2>1, <2>2 DEF Balanced
<1>7. Semicolons(x, y - 1, s) = {}
  <2> SUFFICES ASSUME NEW j \in x..(y - 1), s[j] = Semicolon, OpenBraces(x, j, s) = 0 PROVE FALSE
    BY DEF Semicolons
  <2>1. j \in x..n /\ j \in 1..n /\ x <= j /\ j < y
    BY <1>2
  <2>2. j \in ends
    BY <1>4, <2>1 DEF ends, Semicolons
  <2> QED
    BY <1>1, <2>1, <2>2
<1> HIDE DEF x, y
<1>8. StatementsOf(x, y - 1, s) = {p \in ({x} \cup {i + 1 : i \in {}}) \X ({} \cup {(y - 1) + 1}) :
         p[1] < p[2] /\ \A i \in {} : ~(p[1] <= i /\ i < p[2])}
  <2>1. {i \in Semicolons(x, y - 1, s) : OpenIfs(x, i, s) = 0} = {}
    BY <1>7
  <2> QED
    BY <2>1 DEF StatementsOf, Stretches
<1>9. StatementsOf(x, y - 1, s) = {<<x, y>>}
  BY <1>1, <1>2, <1>8
<1> QED
  BY <1>1, <1>2, <1>4, <1>6, <1>7, <1>9 DEF x, y

\* A piece of a source that parses has all of its IFs if, and only if, it is a
\* statement (if.rs): behind a semicolon in an IF there is an ELSE or the END,
\* with which nothing begins.
LEMMA WholeStatements ==
  ASSUME NEW s, NEW n \in Nat, Balanced(1, n, s), IfsParse(1, n, s), NEW c \in PiecesOf(1, n, s)
  PROVE  IfsParse(c[1], c[2] - 1, s) <=> c \in StatementsOf(1, n, s)
<1> DEFINE E == Semicolons(1, n, s)
           F == {i \in E : OpenIfs(1, i, s) = 0}
           x == c[1]
           y == c[2]
<1>1. /\ c = <<x, y>> /\ x \in {1} \cup {i + 1 : i \in E} /\ y \in E \cup {n + 1} /\ x < y
      /\ \A i \in E : ~(x <= i /\ i < y)
  BY DEF PiecesOf, Stretches
<1>2. \A i \in E : i \in 1..n /\ s[i] = Semicolon
  BY DEF Semicolons
<1>3. /\ x \in 1..n /\ y \in 2..(n + 1) /\ Semicolons(x, y - 1, s) = {}
      /\ \A j \in x..n : OpenBraces(x, j, s) = OpenBraces(1, j, s)
  BY OnePiece
<1>4. c \in StatementsOf(1, n, s) <=> x \in {1} \cup {i + 1 : i \in F} /\ y \in F \cup {n + 1}
  <2>1. F \subseteq E /\ StatementsOf(1, n, s) = Stretches(1, n, F)
    BY DEF StatementsOf
  <2> HIDE DEF E, F, x, y
  <2>2. <<x, y>>[1] = x /\ <<x, y>>[2] = y
    OBVIOUS
  <2>3. <<x, y>> \in Stretches(1, n, F) <=> x \in {1} \cup {i + 1 : i \in F} /\ y \in F \cup {n + 1}
    BY <1>1, <2>1, <2>2 DEF Stretches
  <2> QED
    BY <1>1, <2>1, <2>3
<1>5. \A j \in 0..n : OpenIfs(1, j, s) \in Int
  BY Counted DEF OpenIfs
<1>6. OpenIfs(1, 0, s) = 0
  <2>1. 1..0 = {}
    OBVIOUS
  <2> QED
    BY <2>1, NoneOpened DEF OpenIfs
<1>7. /\ OpenIfs(1, n, s) = 0
      /\ \A i \in 1..n : /\ OpenIfs(1, i, s) >= (IF s[i] = Otherwise THEN 1 ELSE 0)
                         /\ s[i] \in {IfThen, Otherwise, EndIf} => OpenBraces(1, i, s) = 0
                         /\ s[i] \in {IfThen, Otherwise} /\ i < n => s[i + 1] \notin {Semicolon, Otherwise, EndIf}
      /\ \A i \in E : OpenIfs(1, i, s) > 0 /\ i < n => s[i + 1] \in {Otherwise, EndIf}
  BY DEF IfsParse
<1>s. ASSUME NEW i \in E PROVE OpenIfs(1, i, s) = OpenIfs(1, i - 1, s)
  <2>1. i \in Nat \ {0} /\ i - 1 \in 0..n /\ s[i] = Semicolon
    BY <1>2
  <2>2. OpenIfs(1, i, s) = OpenIfs(1, i - 1, s) + 0
    BY <2>1, OneMore, TokensDiffer DEF OpenIfs
  <2> QED
    BY <1>5, <2>1, <2>2
<1> HIDE DEF E, F, x, y
<1>8. F = {i \in E : OpenIfs(1, i, s) = 0}
  BY DEF F
<1>9. x - 1 \in 0..n /\ y - 1 \in x..n /\ x \in Int
  BY <1>1, <1>3
<1>10. ASSUME NEW j \in (x - 1)..n PROVE OpenIfs(1, j, s) = OpenIfs(1, x - 1, s) + OpenIfs(x, j, s) /\ OpenIfs(x, j, s) \in Int
  <2>d. PICK d : d = x - 1
    OBVIOUS
  <2>1. d \in Int /\ j \in Int /\ 1 <= d + 1 /\ d <= j /\ d + 1 = x
    BY <1>9, <2>d
  <2>2. OpenIfs(1, j, s) = OpenIfs(1, d, s) + OpenIfs(d + 1, j, s)
    BY <2>1, Together DEF OpenIfs
  <2>3. OpenIfs(x, j, s) \in Int
    BY <1>9, <2>1, Counted DEF OpenIfs
  <2> QED
    BY <2>d, <2>1, <2>2, <2>3
<1>11. ASSUME x \in {1} \cup {i + 1 : i \in F}, y \in F \cup {n + 1} PROVE IfsParse(x, y - 1, s)
  <2>1. OpenIfs(1, x - 1, s) = 0
    <3>1. CASE x = 1
      <4>1. x - 1 = 0
        BY <3>1
      <4> QED
        BY <1>6, <4>1
    <3>2. CASE x # 1
      <4>1. PICK i \in F : x = i + 1
        BY <1>11, <3>2
      <4>2. x - 1 = i
        BY <1>2, <1>8, <4>1
      <4> QED
        BY <1>8, <4>1, <4>2
    <3> QED
      BY <3>1, <3>2
  <2>2. \A j \in x..n : OpenIfs(x, j, s) = OpenIfs(1, j, s)
    BY <1>5, <1>9, <1>10, <2>1
  <2>3. OpenIfs(1, y - 1, s) = 0
    <3>1. CASE y = n + 1
      <4>1. y - 1 = n
        BY <3>1
      <4> QED
        BY <1>7, <4>1
    <3>2. CASE y \in F
      BY <1>8, <1>s, <3>2
    <3> QED
      BY <1>11, <3>1, <3>2
  <2>4. OpenIfs(x, y - 1, s) = 0
    BY <1>9, <2>2, <2>3
  <2>5. ASSUME NEW i \in x..(y - 1)
        PROVE  /\ OpenIfs(x, i, s) >= (IF s[i] = Otherwise THEN 1 ELSE 0)
               /\ s[i] \in {IfThen, Otherwise, EndIf} => OpenBraces(x, i, s) = 0
               /\ s[i] \in {IfThen, Otherwise} /\ i < y - 1 => s[i + 1] \notin {Semicolon, Otherwise, EndIf}
    <3>1. i \in x..n /\ i \in 1..n /\ (i < y - 1 => i < n)
      BY <1>3, <1>9
    <3>2. OpenIfs(x, i, s) = OpenIfs(1, i, s) /\ OpenBraces(x, i, s) = OpenBraces(1, i, s)
      BY <1>3, <2>2, <3>1
    <3> QED
      BY <1>7, <3>1, <3>2
  <2> QED
    BY <1>3, <2>4, <2>5 DEF IfsParse
<1>12. ASSUME IfsParse(x, y - 1, s) PROVE x \in {1} \cup {i + 1 : i \in F} /\ y \in F \cup {n + 1}
  <2>1. ASSUME NEW i \in E, x = i + 1 PROVE i \in F
    <3>1. CASE OpenIfs(1, i, s) > 0
      <4>1. i < n /\ i + 1 = x
        BY <1>2, <1>3, <2>1
      <4>2. s[x] \in {Otherwise, EndIf}
        BY <1>7, <3>1, <4>1
      <4>3. OpenIfs(x, x, s) = IF s[x] = EndIf THEN -1 ELSE 0
        BY <1>9, <4>2, OneToken, TokensDiffer DEF OpenIfs
      <4>4. x \in x..(y - 1)
        BY <1>9
      <4>5. OpenIfs(x, x, s) >= IF s[x] = Otherwise THEN 1 ELSE 0
        BY <1>12, <4>4 DEF IfsParse
      <4> QED
        BY <4>2, <4>3, <4>5, TokensDiffer
    <3>2. CASE ~(OpenIfs(1, i, s) > 0)
      <4>1. i \in 1..n
        BY <1>2
      <4>2. OpenIfs(1, i, s) >= 0 /\ OpenIfs(1, i, s) \in Int
        BY <1>5, <1>7, <4>1
      <4> QED
        BY <1>8, <3>2, <4>2
    <3> QED
      BY <3>1, <3>2
  <2>2. x \in {1} \cup {i + 1 : i \in F}
    BY <1>1, <2>1
  <2>3. OpenIfs(1, x - 1, s) = 0
    <3>1. CASE x = 1
      <4>1. x - 1 = 0
        BY <3>1
      <4> QED
        BY <1>6, <4>1
    <3>2. CASE x # 1
      <4>1. PICK i \in F : x = i + 1
        BY <2>2, <3>2
      <4>2. x - 1 = i
        BY <1>2, <1>8, <4>1
      <4> QED
        BY <1>8, <4>1, <4>2
    <3> QED
      BY <3>1, <3>2
  <2>4. OpenIfs(x, y - 1, s) = 0
    BY <1>12 DEF IfsParse
  <2>5. OpenIfs(1, y - 1, s) = 0
    <3>1. y - 1 \in (x - 1)..n
      BY <1>9
    <3>2. OpenIfs(1, y - 1, s) = OpenIfs(1, x - 1, s) + OpenIfs(x, y - 1, s)
      BY <1>10, <3>1
    <3> QED
      BY <2>3, <2>4, <3>2
  <2>6. y \in E => y \in F
    BY <1>8, <1>s, <2>5
  <2> QED
    BY <1>1, <2>2, <2>6
<1>13. IfsParse(x, y - 1, s) <=> c \in StatementsOf(1, n, s)
  BY <1>4, <1>11, <1>12
<1> QED
  BY <1>13 DEF x, y


-----------------------------------------------------------------------------
\* The inductive invariant.

\* The length of the source, its pieces, and the k-th one that was cut.
Tokens == Len(source)
Whole == PiecesOf(1, Tokens, source)
PieceAt(k) == chunks[k]

\* The piece parses in a source whose braces balance.
IsGood(p) == ~HasBad(p) /\ IfsParse(p[1], p[2] - 1, source)

\* The variables keep their types, and pieces are stretches of the source.
RecoveryTyped ==
  /\ source \in Seq(Token) /\ Tokens >= 1
  /\ position \in 1..(Tokens + 2) /\ braceDepth \in Nat
  /\ chunkStart \in 1..(Tokens + 1) /\ chunkStart <= position
  /\ chunks \in Seq(Nat \X Nat) /\ \A k \in DOMAIN chunks : PieceAt(k)[1] >= 1 /\ PieceAt(k)[2] <= Tokens + 1
  /\ parsed \in 0..Len(chunks) /\ (position # Tokens + 2 => parsed = 0)

\* Every token that was passed, but the semicolons, is in a piece, or will be
\* in the one that is begun (split_into_chunks).
PiecesCover ==
  \A i \in 1..Tokens : i < position =>
    \/ source[i] = Semicolon
    \/ position # Tokens + 2 /\ chunkStart <= i
    \/ \E k \in DOMAIN chunks : PieceAt(k)[1] <= i /\ i < PieceAt(k)[2]

\* A piece that was parsed is reported, or its statements are kept
\* (parse_with_recovery).
ParsedCover ==
  \A k \in 1..parsed :
    \/ PieceAt(k) \in diagnostics
    \/ StatementsOf(PieceAt(k)[1], PieceAt(k)[2] - 1, source) \subseteq statements

\* The semicolons in no braces.
TopLevelEnds == Semicolons(1, Tokens, source)

\* In a source whose braces balance, the pieces up to the lexer's position are
\* cut, whatever tokens are bad; and those parsed are kept, or reported when
\* they have a bad token or a part of an IF.
Exactly ==
  Balanced(1, Tokens, source) =>
    /\ position # Tokens + 2 =>
         /\ braceDepth = OpenBraces(1, position - 1, source)
         /\ chunkStart \in {1} \cup {i + 1 : i \in TopLevelEnds}
         /\ \A i \in TopLevelEnds : ~(chunkStart <= i /\ i < position)
         /\ Range(chunks) = {p \in Whole : p[2] < position}
         /\ statements = {} /\ diagnostics = {}
    /\ position = Tokens + 2 =>
         \/ /\ Range(chunks) = Whole
            /\ statements = {PieceAt(k) : k \in {j \in 1..parsed : IsGood(PieceAt(j))}}
            /\ diagnostics = {PieceAt(k) : k \in {j \in 1..parsed : ~IsGood(PieceAt(j))}}
         \/ /\ Whole = {} /\ chunks = << <<1, Tokens + 1>> >>
            /\ statements = {} /\ diagnostics = {}

\* The inductive invariant of error recovery (recovery.rs).
RecoveryIInv == RecoveryTyped /\ PiecesCover /\ ParsedCover /\ Exactly

\* Before the first token.
LEMMA RecoveryStarts == RecoveryInit => RecoveryIInv
<1> SUFFICES ASSUME RecoveryInit PROVE RecoveryIInv
  OBVIOUS
<1>1. PICK n \in 1..MaxTokens : source \in [1..n -> Token]
  BY DEF RecoveryInit
<1>2. n \in Nat /\ n >= 1
  BY <1>1, RecoveryAssumption
<1>3. source \in Seq(Token) /\ Len(source) = n
  BY <1>1, <1>2
<1>4. /\ position = 1 /\ braceDepth = 0 /\ chunkStart = 1 /\ chunks = <<>> /\ parsed = 0
      /\ statements = {} /\ diagnostics = {} /\ Tokens = n /\ DOMAIN chunks = {} /\ Len(chunks) = 0
  BY <1>3 DEF RecoveryInit, Tokens
<1>5. RecoveryTyped
  BY <1>2, <1>3, <1>4 DEF RecoveryTyped
<1>6. PiecesCover /\ ParsedCover
  BY <1>2, <1>4 DEF PiecesCover, ParsedCover
<1>7. OpenBraces(1, position - 1, source) = 0
  <2>1. 1 \in Int /\ position - 1 \in Int /\ 1..(position - 1) = {}
    BY <1>4
  <2> QED
    BY <2>1, NoneOpened DEF OpenBraces
<1>8. ASSUME NEW p \in Whole PROVE p[2] >= 1
  <2>1. p[2] \in TopLevelEnds \cup {Tokens + 1}
    BY DEF Whole, PiecesOf, Stretches, TopLevelEnds, Semicolons
  <2> QED
    BY <1>2, <1>4, <2>1 DEF TopLevelEnds, Semicolons
<1>9. Range(chunks) = {p \in Whole : p[2] < position}
  <2>1. Range(chunks) = {}
    BY <1>4 DEF Range
  <2>2. \A p \in Whole : p[2] \in Int
    BY <1>2, <1>4 DEF Whole, PiecesOf, Stretches, Semicolons
  <2> QED
    BY <1>4, <1>8, <2>1, <2>2
<1>10. \A i \in TopLevelEnds : ~(chunkStart <= i /\ i < position)
  BY <1>4 DEF TopLevelEnds, Semicolons
<1>11. position # Tokens + 2 /\ chunkStart \in {1} \cup {i + 1 : i \in TopLevelEnds}
         /\ braceDepth = OpenBraces(1, position - 1, source)
  BY <1>2, <1>4, <1>7
<1>12. Exactly
  BY <1>4, <1>9, <1>10, <1>11 DEF Exactly
<1> QED
  BY <1>5, <1>6, <1>12 DEF RecoveryIInv

\* The pieces after a cut of the token at position, i, or at the end of a
\* source, for the last piece.
LEMMA NewPiece ==
  ASSUME RecoveryTyped, NEW i \in Nat, i = position, i <= Tokens + 1,
         i \in TopLevelEnds \cup {Tokens + 1},
         chunkStart \in {1} \cup {j + 1 : j \in TopLevelEnds},
         \A j \in TopLevelEnds : ~(chunkStart <= j /\ j < i)
  PROVE  {p \in Whole : p[2] < i + 1} =
           {p \in Whole : p[2] < i} \cup (IF chunkStart < i THEN {<<chunkStart, i>>} ELSE {})
<1> DEFINE E == TopLevelEnds
           N == Tokens
<1>1. Whole = {p \in ({1} \cup {j + 1 : j \in E}) \X (E \cup {N + 1}) :
                  p[1] < p[2] /\ \A j \in E : ~(p[1] <= j /\ j < p[2])}
  BY DEF Whole, PiecesOf, Stretches, TopLevelEnds, Semicolons
<1>2. E \subseteq 1..N /\ N \in Nat /\ chunkStart \in Nat /\ chunkStart >= 1
  BY DEF TopLevelEnds, Semicolons, RecoveryTyped, Tokens
<1> HIDE DEF E, N
<1>3. ASSUME NEW p \in Whole
      PROVE  /\ p = <<p[1], p[2]>> /\ p[1] \in Nat /\ p[2] \in Nat /\ p[1] >= 1
             /\ p[1] \in {1} \cup {j + 1 : j \in E} /\ p[1] < p[2]
             /\ \A j \in E : ~(p[1] <= j /\ j < p[2])
  <2>1. {1} \cup {j + 1 : j \in E} \subseteq Nat \ {0} /\ E \cup {N + 1} \subseteq Nat
    BY <1>2
  <2>2. /\ p = <<p[1], p[2]>> /\ p[1] \in {1} \cup {j + 1 : j \in E} /\ p[2] \in E \cup {N + 1}
        /\ p[1] < p[2] /\ \A j \in E : ~(p[1] <= j /\ j < p[2])
    BY <1>1
  <2>3. p[1] \in Nat \ {0} /\ p[2] \in Nat
    BY <2>1, <2>2
  <2> QED
    BY <2>2, <2>3
<1>4. ASSUME NEW p \in Whole, p[2] = i PROVE p[1] = chunkStart
  <2>1. CASE p[1] < chunkStart
    <3>1. PICK j \in E : chunkStart = j + 1
      BY <1>2, <1>3, <2>1 DEF E
    <3>2. p[1] <= j /\ j < p[2]
      BY <1>2, <1>3, <1>4, <2>1, <3>1 DEF RecoveryTyped
    <3> QED
      BY <1>3, <3>2
  <2>2. CASE chunkStart < p[1]
    <3>1. PICK j \in E : p[1] = j + 1
      BY <1>2, <1>3, <2>2
    <3>2. chunkStart <= j /\ j < i
      BY <1>2, <1>3, <1>4, <2>2, <3>1
    <3> QED
      BY <3>2 DEF E
  <2> QED
    BY <1>2, <1>3, <2>1, <2>2
<1>5. ASSUME chunkStart < i PROVE <<chunkStart, i>> \in Whole
  BY <1>1, <1>2, <1>5 DEF E, N
<1>6. ASSUME NEW p \in Whole PROVE p[2] < i + 1 <=> p[2] < i \/ (p[2] = i)
  BY <1>3
<1>7. ASSUME NEW p \in Whole, p[2] = i PROVE p = <<chunkStart, i>> /\ chunkStart < i
  BY <1>3, <1>4, <1>7
<1>8. ASSUME NEW p PROVE p \in {q \in Whole : q[2] < i + 1} <=>
         p \in {q \in Whole : q[2] < i} \cup (IF chunkStart < i THEN {<<chunkStart, i>>} ELSE {})
  BY <1>5, <1>6, <1>7
<1> QED
  BY <1>8

\* The pieces with the piece from x to y after them.
ChunksWith(q, x, y) ==
  /\ q = Append(chunks, <<x, y>>) /\ q \in Seq(Nat \X Nat) /\ Len(q) = Len(chunks) + 1
  /\ DOMAIN q = 1..(Len(chunks) + 1)
  /\ \A k \in 1..Len(chunks) : k \in 1..(Len(chunks) + 1) /\ q[k] = chunks[k]
  /\ q[Len(chunks) + 1] = <<x, y>> /\ Len(chunks) + 1 \in 1..(Len(chunks) + 1)
  /\ Range(q) = Range(chunks) \cup {<<x, y>>}

\* There are such pieces, and they keep the type of the pieces.
LEMMA PieceAppended ==
  ASSUME RecoveryTyped, NEW x \in Nat, NEW y \in Nat
  PROVE  \E q : ChunksWith(q, x, y)
<1>t. chunks \in Seq(Nat \X Nat) /\ Len(chunks) \in Nat /\ DOMAIN chunks = 1..Len(chunks)
  BY DEF RecoveryTyped
<1>p. PICK e : e = <<x, y>>
  OBVIOUS
<1>e. e \in Nat \X Nat /\ e[1] = x /\ e[2] = y
  BY <1>p
<1>q. PICK q : q = Append(chunks, e)
  OBVIOUS
<1>ap. /\ q \in Seq(Nat \X Nat) /\ Len(q) = Len(chunks) + 1
       /\ DOMAIN q = 1..(Len(chunks) + 1)
       /\ \A k \in 1..Len(chunks) : k \in 1..(Len(chunks) + 1) /\ q[k] = chunks[k]
       /\ q[Len(chunks) + 1] = e /\ Len(chunks) + 1 \in 1..(Len(chunks) + 1)
       /\ Range(q) = Range(chunks) \cup {e}
  <2>1. PICK A : A = Nat \X Nat
    OBVIOUS
  <2>2. chunks \in Seq(A) /\ e \in A
    BY <1>t, <1>e, <2>1
  <2>3. /\ q \in Seq(A) /\ Len(q) = Len(chunks) + 1
        /\ DOMAIN q = 1..(Len(chunks) + 1)
        /\ \A k \in 1..Len(chunks) : k \in 1..(Len(chunks) + 1) /\ q[k] = chunks[k]
        /\ q[Len(chunks) + 1] = e /\ Len(chunks) + 1 \in 1..(Len(chunks) + 1)
    BY <1>q, <2>2
  <2>4. Range(q) = Range(chunks) \cup {e}
    <3>1. 1..(Len(chunks) + 1) = (1..Len(chunks)) \cup {Len(chunks) + 1} /\ DOMAIN chunks = 1..Len(chunks)
      BY <1>t
    <3>2. \A k \in 1..(Len(chunks) + 1) : q[k] \in {chunks[j] : j \in DOMAIN chunks} \cup {e}
      BY <2>3, <3>1
    <3>3. \A j \in DOMAIN chunks : j \in DOMAIN q /\ q[j] = chunks[j]
      BY <2>3, <3>1
    <3>4. Range(q) \subseteq Range(chunks) \cup {e}
      BY <2>3, <3>2 DEF Range
    <3>5. Range(chunks) \subseteq Range(q)
      BY <3>3 DEF Range
    <3>6. e \in Range(q)
      BY <2>3 DEF Range
    <3> QED
      BY <3>4, <3>5, <3>6
  <2>5. q \in Seq(Nat \X Nat)
    BY <2>1, <2>3
  <2> QED
    BY <2>3, <2>4, <2>5
<1>c. ChunksWith(q, x, y)
  BY <1>p, <1>q, <1>ap, Zenon DEF ChunksWith
<1> QED
  BY <1>c

\* split_into_chunks, one token.
LEMMA SplitKeeps ==
  ASSUME RecoveryIInv, Split
  PROVE  RecoveryIInv'
<1> DEFINE N == Tokens
           i == position
<1>1. /\ source \in Seq(Token) /\ N \in Nat /\ N >= 1 /\ i \in 1..N /\ braceDepth \in Nat
      /\ chunkStart \in 1..(N + 1) /\ chunkStart <= i /\ parsed = 0
      /\ chunks \in Seq(Nat \X Nat) /\ Len(chunks) \in Nat /\ DOMAIN chunks = 1..Len(chunks)
      /\ \A k \in DOMAIN chunks : chunks[k][1] >= 1 /\ chunks[k][2] <= N + 1
      /\ Tokens' = N /\ position' = i + 1 /\ position # N + 2 /\ position' # N + 2 /\ source' = source
      /\ statements' = statements /\ diagnostics' = diagnostics /\ parsed' = parsed
      /\ braceDepth' = DepthAfter
  BY DEF RecoveryIInv, RecoveryTyped, Split, End, Tokens, PieceAt
<1>2. \/ Cuts /\ chunkStart < i /\ chunkStart' = i + 1 /\ chunks' = Append(chunks, <<chunkStart, i>>)
      \/ Cuts /\ ~(chunkStart < i) /\ chunkStart' = i + 1 /\ chunks' = chunks
      \/ ~Cuts /\ chunkStart' = chunkStart /\ chunks' = chunks
  BY DEF Split
<1>d. braceDepth' \in Nat
  BY <1>1 DEF DepthAfter
<1>p. PICK e : e = <<chunkStart, i>>
  OBVIOUS
<1>e. e \in Nat \X Nat /\ e[1] = chunkStart /\ e[2] = i
  BY <1>1, <1>p
<1>a. Cuts => source[i] = Semicolon
  BY DEF Cuts
<1>w. PICK q : ChunksWith(q, chunkStart, i)
  <2>1. chunkStart \in Nat /\ i \in Nat /\ RecoveryTyped
    BY <1>1 DEF RecoveryIInv
  <2> HIDE DEF i
  <2> QED
    BY <2>1, PieceAppended
<1>q. /\ q = Append(chunks, e) /\ q \in Seq(Nat \X Nat) /\ Len(q) = Len(chunks) + 1
      /\ DOMAIN q = 1..(Len(chunks) + 1)
      /\ \A k \in 1..Len(chunks) : k \in 1..(Len(chunks) + 1) /\ q[k] = chunks[k]
      /\ q[Len(chunks) + 1] = e /\ Len(chunks) + 1 \in 1..(Len(chunks) + 1)
      /\ Range(q) = Range(chunks) \cup {e}
  BY <1>p, <1>w, Zenon DEF ChunksWith
<1>3. /\ chunks' \in Seq(Nat \X Nat) /\ \A k \in DOMAIN chunks' : chunks'[k][1] >= 1 /\ chunks'[k][2] <= N + 1
      /\ chunkStart' \in 1..(N + 1) /\ chunkStart' <= position' /\ parsed' \in 0..Len(chunks')
      /\ \A k \in DOMAIN chunks : k \in DOMAIN chunks' /\ chunks'[k] = chunks[k]
      /\ Cuts /\ chunkStart < i => \E k \in DOMAIN chunks' : chunks'[k] = e
      /\ chunkStart' = IF Cuts THEN i + 1 ELSE chunkStart
      /\ Range(chunks') = Range(chunks) \cup IF Cuts /\ chunkStart < i THEN {e} ELSE {}
  <2>1. CASE chunks' = Append(chunks, <<chunkStart, i>>) /\ Cuts /\ chunkStart < i /\ chunkStart' = i + 1
    <3>1. chunks' = q
      BY <1>p, <1>q, <2>1
    <3>2. \A k \in 1..(Len(chunks) + 1) : k \in 1..Len(chunks) \/ k = Len(chunks) + 1
      BY <1>1
    <3>3. ASSUME NEW k \in DOMAIN chunks' PROVE chunks'[k][1] >= 1 /\ chunks'[k][2] <= N + 1
      <4>1. k \in 1..(Len(chunks) + 1)
        BY <1>q, <3>1, <3>3
      <4>2. CASE k \in 1..Len(chunks)
        <5>1. chunks'[k] = chunks[k] /\ k \in DOMAIN chunks
          BY <1>1, <1>q, <3>1, <4>2
        <5> QED
          BY <1>1, <5>1
      <4>3. CASE k = Len(chunks) + 1
        <5>1. chunks'[k] = e
          BY <1>q, <3>1, <4>3
        <5> QED
          BY <1>1, <1>e, <2>1, <5>1
      <4> QED
        BY <3>2, <4>1, <4>2, <4>3
    <3>4. chunkStart' \in 1..(N + 1) /\ chunkStart' <= position' /\ parsed' \in 0..Len(chunks')
      BY <1>1, <1>q, <2>1, <3>1
    <3> QED
      BY <1>1, <1>q, <2>1, <3>1, <3>3, <3>4
  <2>2. CASE chunks' = chunks /\ (Cuts => ~(chunkStart < i) /\ chunkStart' = i + 1)
                  /\ (~Cuts => chunkStart' = chunkStart)
    <3>1. chunkStart' = (IF Cuts THEN i + 1 ELSE chunkStart) /\ ~(Cuts /\ chunkStart < i)
      BY <2>2
    <3>2. chunkStart' \in 1..(N + 1) /\ chunkStart' <= position' /\ parsed' \in 0..Len(chunks')
      BY <1>1, <2>2
    <3> QED
      BY <1>1, <2>2, <3>1, <3>2
  <2> QED
    BY <1>2, <2>1, <2>2
<1>4. RecoveryTyped'
  BY <1>1, <1>d, <1>3 DEF RecoveryTyped, PieceAt, Tokens
<1>5. PiecesCover'
  <2> SUFFICES ASSUME NEW j \in 1..N, j < i + 1, source[j] # Semicolon
               PROVE  \/ chunkStart' <= j
                      \/ \E k \in DOMAIN chunks' : chunks'[k][1] <= j /\ j < chunks'[k][2]
    BY <1>1 DEF PiecesCover, PieceAt
  <2>1. CASE chunkStart <= j
    <3>1. CASE Cuts
      <4>1. j < i /\ chunkStart < i
        BY <1>1, <1>a, <2>1, <3>1
      <4>2. PICK k \in DOMAIN chunks' : chunks'[k] = e
        BY <1>3, <3>1, <4>1
      <4> QED
        BY <1>e, <2>1, <4>1, <4>2
    <3> QED
      BY <1>3, <2>1, <3>1
  <2>2. CASE ~(chunkStart <= j)
    <3>1. j < i
      BY <1>1, <2>2
    <3>2. \E k \in DOMAIN chunks : chunks[k][1] <= j /\ j < chunks[k][2]
      BY <1>1, <2>2, <3>1 DEF RecoveryIInv, PiecesCover, PieceAt
    <3> QED
      BY <1>3, <3>2
  <2> QED
    BY <2>1, <2>2
<1>6. ParsedCover'
  BY <1>1 DEF ParsedCover
<1>7. Exactly'
  <2> SUFFICES ASSUME Balanced(1, N, source) PROVE Exactly'
    BY <1>1 DEF Exactly
  <2>1. /\ braceDepth = OpenBraces(1, i - 1, source)
        /\ chunkStart \in {1} \cup {j + 1 : j \in TopLevelEnds}
        /\ \A j \in TopLevelEnds : ~(chunkStart <= j /\ j < i)
        /\ Range(chunks) = {p \in Whole : p[2] < i}
        /\ statements = {} /\ diagnostics = {}
    BY <1>1 DEF RecoveryIInv, Exactly
  <2>2. OpenBraces(1, i, source) = braceDepth +
           (IF source[i] = OpenBrace THEN 1 ELSE IF source[i] = CloseBrace THEN -1 ELSE 0)
    <3>1. i \in Nat \ {0}
      BY <1>1
    <3> HIDE DEF i
    <3>2. OpenBraces(1, i, source) = OpenBraces(1, i - 1, source) +
             (IF source[i] = OpenBrace THEN 1 ELSE IF source[i] = CloseBrace THEN -1 ELSE 0)
      BY <3>1, OneMore, TokensDiffer DEF OpenBraces
    <3> QED
      BY <2>1, <3>2
  <2>3. OpenBraces(1, i, source) >= 0
    BY <1>1 DEF Balanced
  <2>4. braceDepth' = OpenBraces(1, i, source)
    BY <1>1, <2>2, <2>3, TokensDiffer DEF DepthAfter
  <2>5. Cuts <=> i \in TopLevelEnds
    BY <1>1, <2>2, TokensDiffer DEF Cuts, TopLevelEnds, Semicolons
  <2>6. TopLevelEnds' = TopLevelEnds /\ Whole' = Whole
    BY <1>1 DEF TopLevelEnds, Whole
  <2>t. TopLevelEnds \subseteq 1..N
    BY DEF TopLevelEnds, Semicolons
  <2>w. \A p \in Whole : p[2] \in Nat
    BY <1>1, <2>t DEF Whole, PiecesOf, Stretches, TopLevelEnds, Semicolons
  <2>7. {p \in Whole : p[2] < i + 1} = {p \in Whole : p[2] < i} \cup (IF Cuts /\ chunkStart < i THEN {e} ELSE {})
    <3>1. CASE Cuts
      <4>1. {p \in Whole : p[2] < i + 1} =
               {p \in Whole : p[2] < i} \cup (IF chunkStart < i THEN {<<chunkStart, i>>} ELSE {})
        BY <1>1, <2>1, <2>5, <3>1, NewPiece DEF RecoveryIInv
      <4> QED
        BY <1>p, <3>1, <4>1
    <3>2. CASE ~Cuts
      <4>1. \A p \in Whole : p[2] # i
        BY <1>1, <2>5, <3>2 DEF Whole, PiecesOf, Stretches, TopLevelEnds, Semicolons
      <4>2. \A p \in Whole : p[2] < i + 1 <=> p[2] < i
        BY <1>1, <2>w, <4>1
      <4> QED
        BY <3>2, <4>2
    <3> QED
      BY <3>1, <3>2
  <2>8. Range(chunks') = {p \in Whole : p[2] < i + 1}
    BY <1>3, <2>1, <2>7
  <2>9. chunkStart' \in {1} \cup {j + 1 : j \in TopLevelEnds}
    BY <1>3, <2>1, <2>5
  <2>10. \A j \in TopLevelEnds : ~(chunkStart' <= j /\ j < i + 1)
    BY <1>1, <1>3, <2>1, <2>5, <2>t
  <2>11. position' - 1 = i
    BY <1>1
  <2> QED
    BY <1>1, <2>1, <2>4, <2>6, <2>8, <2>9, <2>10, <2>11 DEF Exactly
<1> QED
  BY <1>4, <1>5, <1>6, <1>7 DEF RecoveryIInv

\* split_into_chunks, after the last token.
LEMMA LastChunkKeeps ==
  ASSUME RecoveryIInv, LastChunk
  PROVE  RecoveryIInv'
<1> DEFINE N == Tokens
           z == N + 1
<1>1. /\ source \in Seq(Token) /\ N \in Nat /\ N >= 1 /\ position = z /\ braceDepth \in Nat
      /\ chunkStart \in 1..z /\ parsed = 0
      /\ chunks \in Seq(Nat \X Nat) /\ Len(chunks) \in Nat /\ DOMAIN chunks = 1..Len(chunks)
      /\ \A k \in DOMAIN chunks : chunks[k][1] >= 1 /\ chunks[k][2] <= z
      /\ Tokens' = N /\ position' = N + 2 /\ position # N + 2 /\ source' = source
      /\ statements' = statements /\ diagnostics' = diagnostics /\ parsed' = parsed
      /\ braceDepth' = braceDepth /\ chunkStart' = chunkStart
  BY DEF RecoveryIInv, RecoveryTyped, LastChunk, End, Tokens, PieceAt
<1>2. \/ chunkStart < z /\ chunks' = Append(chunks, <<chunkStart, z>>)
      \/ chunkStart = z /\ chunks = <<>> /\ chunks' = << <<1, z>> >>
      \/ chunkStart = z /\ chunks' = chunks
  <2>1. End = z
    BY DEF End, Tokens
  <2>2. chunks' = IF chunkStart < End THEN Append(chunks, <<chunkStart, End>>)
                  ELSE IF chunks = <<>> THEN << <<1, End>> >> ELSE chunks
    BY Zenon DEF LastChunk
  <2>3. chunkStart < z \/ (chunkStart = z /\ ~(chunkStart < z))
    <3>1. N \in Nat /\ chunkStart \in 1..(N + 1)
      BY <1>1
    <3> HIDE DEF N
    <3> QED
      BY <3>1
  <2> HIDE DEF z
  <2> QED
    BY <2>1, <2>2, <2>3, Zenon
<1>p. PICK e : e = <<chunkStart, z>>
  OBVIOUS
<1>e. e \in Nat \X Nat /\ e[1] = chunkStart /\ e[2] = z
  BY <1>1, <1>p
<1>w. PICK q : ChunksWith(q, chunkStart, z)
  <2>1. chunkStart \in Nat /\ z \in Nat /\ RecoveryTyped
    BY <1>1 DEF RecoveryIInv
  <2> HIDE DEF z
  <2> QED
    BY <2>1, PieceAppended
<1>q. /\ q = Append(chunks, e) /\ q \in Seq(Nat \X Nat) /\ Len(q) = Len(chunks) + 1
      /\ DOMAIN q = 1..(Len(chunks) + 1)
      /\ \A k \in 1..Len(chunks) : k \in 1..(Len(chunks) + 1) /\ q[k] = chunks[k]
      /\ q[Len(chunks) + 1] = e /\ Len(chunks) + 1 \in 1..(Len(chunks) + 1)
      /\ Range(q) = Range(chunks) \cup {e}
  BY <1>p, <1>w, Zenon DEF ChunksWith
<1>o. PICK o : o = << <<1, z>> >>
  OBVIOUS
<1>u. o \in Seq(Nat \X Nat) /\ Len(o) = 1 /\ DOMAIN o = {1} /\ o[1][1] = 1 /\ o[1][2] = z
  BY <1>1, <1>o
<1>3. /\ chunks' \in Seq(Nat \X Nat) /\ \A k \in DOMAIN chunks' : chunks'[k][1] >= 1 /\ chunks'[k][2] <= z
      /\ parsed' \in 0..Len(chunks')
      /\ \A k \in DOMAIN chunks : k \in DOMAIN chunks' /\ chunks'[k] = chunks[k]
      /\ chunkStart < z => \E k \in DOMAIN chunks' : chunks'[k] = e
      /\ \/ Range(chunks') = Range(chunks) \cup IF chunkStart < z THEN {e} ELSE {}
         \/ chunkStart = z /\ Range(chunks) = {} /\ chunks' = o
  <2>1. CASE chunkStart < z /\ chunks' = Append(chunks, <<chunkStart, z>>)
    <3>1. chunks' = q
      BY <1>p, <1>q, <2>1
    <3>2. \A k \in 1..(Len(chunks) + 1) : k \in 1..Len(chunks) \/ k = Len(chunks) + 1
      BY <1>1
    <3>3. ASSUME NEW k \in DOMAIN chunks' PROVE chunks'[k][1] >= 1 /\ chunks'[k][2] <= z
      <4>1. k \in 1..(Len(chunks) + 1)
        BY <1>q, <3>1, <3>3
      <4>2. CASE k \in 1..Len(chunks)
        <5>1. chunks'[k] = chunks[k] /\ k \in DOMAIN chunks
          BY <1>1, <1>q, <3>1, <4>2
        <5> QED
          BY <1>1, <5>1
      <4>3. CASE k = Len(chunks) + 1
        <5>1. chunks'[k] = e
          BY <1>q, <3>1, <4>3
        <5>2. chunks'[k][1] = chunkStart /\ chunks'[k][2] = z
          BY <1>e, <5>1
        <5> QED
          BY <1>1, <2>1, <5>2
      <4> QED
        BY <3>2, <4>1, <4>2, <4>3
    <3>4. parsed' \in 0..Len(chunks')
      BY <1>1, <1>q, <3>1
    <3> QED
      BY <1>1, <1>q, <2>1, <3>1, <3>3, <3>4
  <2>2. CASE chunkStart = z /\ chunks = <<>> /\ chunks' = o
    <3>1. DOMAIN chunks = {} /\ ~(chunkStart < z)
      BY <1>1, <2>2
    <3>2. Range(chunks) = {}
      BY <3>1 DEF Range
    <3>3. \A k \in DOMAIN chunks' : chunks'[k][1] >= 1 /\ chunks'[k][2] <= z
      BY <1>1, <1>u, <2>2
    <3> QED
      BY <1>1, <1>u, <2>2, <3>1, <3>2, <3>3
  <2>3. CASE chunkStart = z /\ chunks' = chunks
    <3>1. ~(chunkStart < z)
      BY <1>1, <2>3
    <3> QED
      BY <1>1, <2>3, <3>1
  <2> QED
    BY <1>2, <1>o, <2>1, <2>2, <2>3
<1>4. RecoveryTyped'
  BY <1>1, <1>3 DEF RecoveryTyped, PieceAt, Tokens
<1>5. PiecesCover'
  <2> SUFFICES ASSUME NEW j \in 1..N, source[j] # Semicolon
               PROVE  \E k \in DOMAIN chunks' : chunks'[k][1] <= j /\ j < chunks'[k][2]
    BY <1>1 DEF PiecesCover, PieceAt
  <2>1. CASE chunkStart <= j
    <3>1. j < z /\ chunkStart < z
      BY <1>1, <2>1
    <3>2. PICK k \in DOMAIN chunks' : chunks'[k] = e
      BY <1>3, <3>1
    <3> QED
      BY <1>e, <2>1, <3>1, <3>2
  <2>2. CASE ~(chunkStart <= j)
    <3>1. j < z
      BY <1>1
    <3>2. \E k \in DOMAIN chunks : chunks[k][1] <= j /\ j < chunks[k][2]
      BY <1>1, <2>2, <3>1 DEF RecoveryIInv, PiecesCover, PieceAt
    <3> QED
      BY <1>3, <3>2
  <2> QED
    BY <2>1, <2>2
<1>6. ParsedCover'
  BY <1>1 DEF ParsedCover
<1>7. Exactly'
  <2> SUFFICES ASSUME Balanced(1, N, source) PROVE Exactly'
    BY <1>1 DEF Exactly
  <2>1. /\ chunkStart \in {1} \cup {j + 1 : j \in TopLevelEnds}
        /\ \A j \in TopLevelEnds : ~(chunkStart <= j /\ j < z)
        /\ Range(chunks) = {p \in Whole : p[2] < z}
        /\ statements = {} /\ diagnostics = {}
    BY <1>1 DEF RecoveryIInv, Exactly
  <2>6. TopLevelEnds' = TopLevelEnds /\ Whole' = Whole
    BY <1>1 DEF TopLevelEnds, Whole
  <2>t. TopLevelEnds \subseteq 1..N
    BY DEF TopLevelEnds, Semicolons
  <2>w. \A p \in Whole : p[2] \in Nat /\ p[2] < z + 1
    BY <1>1, <2>t DEF Whole, PiecesOf, Stretches, TopLevelEnds, Semicolons
  <2>7. Whole = Range(chunks) \cup (IF chunkStart < z THEN {e} ELSE {})
    <3>1. {p \in Whole : p[2] < z + 1} =
             {p \in Whole : p[2] < z} \cup (IF chunkStart < z THEN {<<chunkStart, z>>} ELSE {})
      <4>1. RecoveryTyped /\ z \in Nat /\ z = position /\ z <= Tokens + 1 /\ z \in TopLevelEnds \cup {Tokens + 1}
        BY <1>1 DEF RecoveryIInv
      <4> HIDE DEF z
      <4> QED
        BY <2>1, <4>1, NewPiece
    <3>2. {p \in Whole : p[2] < z + 1} = Whole
      BY <2>w
    <3> HIDE DEF z
    <3> QED
      BY <1>p, <2>1, <3>1, <3>2
  <2>8. {PieceAt(k)' : k \in {j \in 1..parsed' : IsGood(PieceAt(j))'}} = {}
        /\ {PieceAt(k)' : k \in {j \in 1..parsed' : ~IsGood(PieceAt(j))'}} = {}
    <3>1. 1..parsed' = {}
      BY <1>1
    <3> QED
      BY <3>1
  <2>9. CASE Range(chunks') = Range(chunks) \cup IF chunkStart < z THEN {e} ELSE {}
    BY <1>1, <2>1, <2>6, <2>7, <2>8, <2>9 DEF Exactly
  <2>10. CASE chunkStart = z /\ Range(chunks) = {} /\ chunks' = o
    <3>1. Whole = {}
      BY <1>1, <2>7, <2>10
    <3>2. chunks' = << <<1, Tokens' + 1>> >>
      BY <1>1, <1>o, <2>10
    <3> QED
      BY <1>1, <2>1, <2>6, <3>1, <3>2 DEF Exactly
  <2> QED
    BY <1>3, <2>9, <2>10
<1> QED
  BY <1>4, <1>5, <1>6, <1>7 DEF RecoveryIInv

\* parse_with_recovery, one piece.
LEMMA ParseChunkKeeps ==
  ASSUME RecoveryIInv, ParseChunk
  PROVE  RecoveryIInv'
<1> DEFINE N == Tokens
           n == parsed + 1
<1>p. PICK c : c = chunks[n]
  OBVIOUS
<1>1. /\ source \in Seq(Token) /\ N \in Nat /\ N >= 1 /\ position = N + 2
      /\ parsed \in Nat /\ n \in 1..Len(chunks) /\ parsed' = n
      /\ chunks \in Seq(Nat \X Nat) /\ Len(chunks) \in Nat /\ DOMAIN chunks = 1..Len(chunks)
      /\ Tokens' = N /\ position' = position /\ source' = source
      /\ braceDepth' = braceDepth /\ chunkStart' = chunkStart /\ chunks' = chunks
  BY DEF RecoveryIInv, RecoveryTyped, ParseChunk, End, Tokens
<1>2. IF Parses(c[1], c[2] - 1, source)
        THEN statements' = statements \cup StatementsOf(c[1], c[2] - 1, source) /\ diagnostics' = diagnostics
        ELSE diagnostics' = diagnostics \cup {c} /\ statements' = statements
  BY <1>p DEF ParseChunk
<1>3. RecoveryTyped'
  BY <1>1 DEF RecoveryIInv, RecoveryTyped, PieceAt, Tokens
<1>4. PiecesCover'
  BY <1>1 DEF RecoveryIInv, PiecesCover, PieceAt
<1>5. ParsedCover'
  <2>1. ASSUME NEW k \in 1..n
        PROVE  chunks[k] \in diagnostics' \/ StatementsOf(chunks[k][1], chunks[k][2] - 1, source) \subseteq statements'
    <3>1. CASE k = n
      BY <1>2, <1>p, <3>1
    <3>2. CASE k # n
      <4>1. k \in 1..parsed
        BY <1>1, <3>2
      <4>2. chunks[k] \in diagnostics \/ StatementsOf(chunks[k][1], chunks[k][2] - 1, source) \subseteq statements
        BY <4>1 DEF RecoveryIInv, ParsedCover, PieceAt
      <4> QED
        BY <1>2, <4>2
    <3> QED
      BY <3>1, <3>2
  <2> QED
    BY <1>1, <2>1 DEF ParsedCover, PieceAt
<1>6. Exactly'
  <2> SUFFICES ASSUME Balanced(1, N, source) PROVE Exactly'
    BY <1>1 DEF Exactly
  <2>1. Whole' = Whole /\ \A k : PieceAt(k)' = PieceAt(k) /\ IsGood(PieceAt(k))' = IsGood(PieceAt(k))
    BY <1>1 DEF Whole, PieceAt, IsGood, HasBad
  <2>2. CASE /\ Range(chunks) = Whole
             /\ statements = {PieceAt(k) : k \in {j \in 1..parsed : IsGood(PieceAt(j))}}
             /\ diagnostics = {PieceAt(k) : k \in {j \in 1..parsed : ~IsGood(PieceAt(j))}}
    <3>1. c \in PiecesOf(1, N, source)
      BY <1>1, <1>p, <2>2 DEF Range, Whole
    <3>2. Balanced(c[1], c[2] - 1, source) /\ StatementsOf(c[1], c[2] - 1, source) = {c}
      BY <1>1, <3>1, OnePiece
    <3>3. Parses(c[1], c[2] - 1, source) <=> IsGood(c)
      BY <3>2 DEF Parses, IsGood, HasBad
    <3>4. 1..n = (1..parsed) \cup {n} /\ PieceAt(n) = c
      BY <1>1, <1>p DEF PieceAt
    <3>5. {PieceAt(k) : k \in {j \in 1..n : IsGood(PieceAt(j))}} =
            {PieceAt(k) : k \in {j \in 1..parsed : IsGood(PieceAt(j))}} \cup (IF IsGood(c) THEN {c} ELSE {})
      BY <3>4
    <3>6. {PieceAt(k) : k \in {j \in 1..n : ~IsGood(PieceAt(j))}} =
            {PieceAt(k) : k \in {j \in 1..parsed : ~IsGood(PieceAt(j))}} \cup (IF IsGood(c) THEN {} ELSE {c})
      BY <3>4
    <3>7. /\ statements' = {PieceAt(k) : k \in {j \in 1..n : IsGood(PieceAt(j))}}
          /\ diagnostics' = {PieceAt(k) : k \in {j \in 1..n : ~IsGood(PieceAt(j))}}
      BY <1>2, <2>2, <3>2, <3>3, <3>5, <3>6
    <3>8. /\ statements' = {PieceAt(k)' : k \in {j \in 1..parsed' : IsGood(PieceAt(j))'}}
          /\ diagnostics' = {PieceAt(k)' : k \in {j \in 1..parsed' : ~IsGood(PieceAt(j))'}}
      BY <1>1, <2>1, <3>7
    <3> QED
      BY <1>1, <2>1, <2>2, <3>8 DEF Exactly
  <2>3. CASE Whole = {} /\ chunks = << <<1, N + 1>> >> /\ statements = {} /\ diagnostics = {}
    <3>1. c[1] = 1 /\ c[2] - 1 = N
      <4>1. n = 1
        BY <1>1, <2>3
      <4> QED
        BY <1>1, <1>p, <2>3, <4>1
    <3>2. \A i \in 1..N : source[i] = Semicolon
      <4> SUFFICES ASSUME NEW i \in 1..N, source[i] # Semicolon PROVE FALSE
        OBVIOUS
      <4>1. \E p \in PiecesOf(1, N, source) : p[1] <= i /\ i < p[2]
        BY <1>1, StatementsCover
      <4> QED
        BY <2>3, <4>1 DEF Whole
    <3>3. OpenIfs(1, N, source) = 0 /\ \A i \in 1..N : OpenIfs(1, i, source) = 0
      <4>1. ASSUME NEW b \in 1..N PROVE OpenIfs(1, b, source) = 0
        <5>1. 1 \in Int /\ b \in Int /\ \A i \in 1..b : source[i] \notin {IfThen, EndIf}
          BY <1>1, <3>2, TokensDiffer
        <5> QED
          BY <5>1, NoneOpened DEF OpenIfs
      <4> QED
        BY <1>1, <4>1
    <3>4. IfsParse(1, N, source)
      <4>1. \A i \in 1..N : source[i] \notin {IfThen, Otherwise, EndIf}
        BY <3>2, TokensDiffer
      <4>2. \A i \in Semicolons(1, N, source) : OpenIfs(1, i, source) = 0
        BY <3>3 DEF Semicolons
      <4> QED
        BY <3>3, <4>1, <4>2 DEF IfsParse
    <3>5. Parses(c[1], c[2] - 1, source)
      BY <3>1, <3>2, <3>4, RecoveryAssumption DEF Parses, Marks
    <3>6. StatementsOf(1, N, source) = {}
      <4>1. {i \in Semicolons(1, N, source) : OpenIfs(1, i, source) = 0} = Semicolons(1, N, source)
        BY <3>3 DEF Semicolons
      <4> QED
        BY <2>3, <4>1 DEF Whole, PiecesOf, StatementsOf
    <3>7. statements' = {} /\ diagnostics' = {}
      BY <1>2, <2>3, <3>1, <3>5, <3>6
    <3> QED
      BY <1>1, <2>1, <2>3, <3>7 DEF Exactly
  <2> QED
    BY <1>1, <2>2, <2>3 DEF RecoveryIInv, Exactly
<1> QED
  BY <1>3, <1>4, <1>5, <1>6 DEF RecoveryIInv

\* Every step keeps the invariant.
LEMMA RecoveryGoesOn ==
  RecoveryIInv /\ [RecoveryNext]_recoveryVars => RecoveryIInv'
<1> SUFFICES ASSUME RecoveryIInv, [RecoveryNext]_recoveryVars PROVE RecoveryIInv'
  OBVIOUS
<1>1. CASE Split
  BY <1>1, SplitKeeps
<1>2. CASE LastChunk
  BY <1>2, LastChunkKeeps
<1>3. CASE ParseChunk
  BY <1>3, ParseChunkKeeps
<1>4. CASE UNCHANGED recoveryVars
  BY <1>4 DEF recoveryVars, RecoveryIInv, RecoveryTyped, PiecesCover, ParsedCover, Exactly, Tokens,
     Whole, PieceAt, TopLevelEnds, IsGood, HasBad
<1> QED
  BY <1>1, <1>2, <1>3, <1>4 DEF RecoveryNext

\* The inductive invariant holds of every source of any length.
THEOREM RecoveryInvariance == RecoverySpec => []RecoveryIInv
<1> QED
  BY RecoveryStarts, RecoveryGoesOn, PTL DEF RecoverySpec

\* What covers the source covers it in statements and reports.
LEMMA NothingIsMissed ==
  ASSUME RecoveryIInv
  PROVE  NothingGoesUnnoticed
<1> SUFFICES ASSUME Recovered, NEW i \in DOMAIN source, source[i] # Semicolon
             PROVE  \E s \in statements \cup diagnostics : s[1] <= i /\ i < s[2]
  BY DEF NothingGoesUnnoticed
<1>1. /\ Tokens \in Nat /\ i \in 1..Tokens /\ position = Tokens + 2 /\ parsed = Len(chunks)
      /\ chunks \in Seq(Nat \X Nat) /\ DOMAIN chunks = 1..parsed
  BY DEF RecoveryIInv, RecoveryTyped, Recovered, End, Tokens
<1>2. PICK k \in 1..parsed : chunks[k][1] <= i /\ i < chunks[k][2]
  BY <1>1 DEF RecoveryIInv, PiecesCover, PieceAt
<1>3. chunks[k][1] \in Nat /\ chunks[k][2] \in Nat
  BY <1>1
<1>4. CASE chunks[k] \in diagnostics
  BY <1>2, <1>4
<1>5. CASE StatementsOf(chunks[k][1], chunks[k][2] - 1, source) \subseteq statements
  <2>1. PICK a, b : a = chunks[k][1] /\ b = chunks[k][2] - 1
    OBVIOUS
  <2>2. a \in Nat /\ b \in Nat /\ i \in a..b
    BY <1>1, <1>2, <1>3, <2>1
  <2>3. \E p \in StatementsOf(a, b, source) : p[1] <= i /\ i < p[2]
    BY <2>2, StatementsCover
  <2> QED
    BY <1>5, <2>1, <2>3
<1> QED
  BY <1>4, <1>5 DEF RecoveryIInv, ParsedCover, PieceAt

\* Bad tokens do not change where a source is cut, and the pieces that parse
\* are the statements without them.
LEMMA TheRestIsKept ==
  ASSUME RecoveryIInv
  PROVE  RecoveryKeepsTheRest
<1> DEFINE R == Repaired(source)
           N == Tokens
           K == {p \in Whole \cap StatementsOf(1, N, R) : ~HasBad(p)}
<1> SUFFICES ASSUME Recovered, Parses(1, N, R)
             PROVE  statements = K /\ diagnostics = Whole \ K
  BY DEF RecoveryKeepsTheRest, Whole, Tokens
<1>1. /\ source \in Seq(Token) /\ N \in Nat /\ N = Len(source) /\ position = N + 2 /\ parsed = Len(chunks)
      /\ chunks \in Seq(Nat \X Nat) /\ DOMAIN chunks = 1..parsed
  BY DEF RecoveryIInv, RecoveryTyped, Recovered, End, Tokens
<1>2. \A i \in 1..N : \A k \in Marks : R[i] = k <=> source[i] = k
  BY <1>1, RepairedMarks
<1> HIDE DEF R, N
<1>3. Semicolons(1, N, R) = Semicolons(1, N, source) /\ Balanced(1, N, source) = Balanced(1, N, R)
  <2>1. 1 \in Int /\ N \in Int
    BY <1>1
  <2> QED
    BY <1>2, <2>1, SameMarks
<1>4. Balanced(1, N, R) /\ IfsParse(1, N, R) /\ Whole = PiecesOf(1, N, R)
  BY <1>3 DEF Parses, PiecesOf, Whole, N
<1>5. ASSUME NEW p \in Whole PROVE IsGood(p) <=> p \in K
  <2>1. p[1] \in 1..N /\ p[2] \in 2..(N + 1)
    BY <1>1, <1>4, OnePiece
  <2>2. PICK a, b : a = p[1] /\ b = p[2] - 1
    OBVIOUS
  <2>3. a \in Int /\ b \in Int /\ a..b \subseteq 1..N
    BY <1>1, <2>1, <2>2
  <2>4. IfsParse(a, b, R) = IfsParse(a, b, source)
    BY <1>2, <2>3, SameMarks
  <2>5. IfsParse(p[1], p[2] - 1, R) <=> p \in StatementsOf(1, N, R)
    BY <1>1, <1>4, WholeStatements
  <2> QED
    BY <2>2, <2>4, <2>5 DEF IsGood
<1> HIDE DEF K
<1>6. K \subseteq Whole
  BY DEF K
<1>7. CASE /\ Range(chunks) = Whole
           /\ statements = {PieceAt(k) : k \in {j \in 1..parsed : IsGood(PieceAt(j))}}
           /\ diagnostics = {PieceAt(k) : k \in {j \in 1..parsed : ~IsGood(PieceAt(j))}}
  <2>1. Whole = {PieceAt(k) : k \in 1..parsed}
    BY <1>1, <1>7 DEF Range, PieceAt
  <2> QED
    BY <1>5, <1>6, <1>7, <2>1
<1>8. CASE Whole = {} /\ statements = {} /\ diagnostics = {}
  BY <1>6, <1>8
<1> QED
  BY <1>1, <1>3, <1>4, <1>7, <1>8 DEF RecoveryIInv, Exactly, N

\* Error recovery keeps the statements around one that does not parse, and
\* leaves no token out without a report (parse_with_recovery, recovery.rs).
THEOREM RecoveryCompleteness == RecoverySpec => []RecoveryIsComplete
<1>1. RecoveryIInv => RecoveryIsComplete
  BY NothingIsMissed, TheRestIsKept DEF RecoveryIsComplete
<1> QED
  BY <1>1, RecoveryInvariance, PTL

\* No brace is counted before it is passed, and pieces do not overlap.
PiecesApart ==
  /\ braceDepth <= Tokens /\ braceDepth < position
  /\ position # Tokens + 2 => \A k \in DOMAIN chunks : PieceAt(k)[2] < chunkStart
  /\ \A i, j \in DOMAIN chunks : i < j => PieceAt(i)[2] < PieceAt(j)[1]

\* A piece that begins after all others.
LEMMA AppendedApart ==
  ASSUME RecoveryTyped, PiecesApart, NEW x \in Nat, NEW y \in Nat, NEW q, ChunksWith(q, x, y),
         \A k \in DOMAIN chunks : PieceAt(k)[2] < x
  PROVE  /\ \A i, j \in DOMAIN q : i < j => q[i][2] < q[j][1]
         /\ \A k \in DOMAIN q : (\E l \in DOMAIN chunks : q[k] = PieceAt(l)) \/ q[k][2] = y
<1>1. /\ Len(chunks) \in Nat /\ DOMAIN chunks = 1..Len(chunks) /\ DOMAIN q = 1..(Len(chunks) + 1)
      /\ \A k \in 1..Len(chunks) : q[k] = PieceAt(k)
      /\ q[Len(chunks) + 1][1] = x /\ q[Len(chunks) + 1][2] = y
  BY DEF ChunksWith, RecoveryTyped, PieceAt
<1>2. ASSUME NEW k \in DOMAIN q PROVE k \in 1..Len(chunks) \/ k = Len(chunks) + 1
  BY <1>1
<1>3. ASSUME NEW i \in DOMAIN q, NEW j \in DOMAIN q, i < j PROVE q[i][2] < q[j][1]
  <2>1. i \in 1..Len(chunks)
    BY <1>1, <1>3
  <2>2. CASE j \in 1..Len(chunks)
    BY <1>1, <1>3, <2>1, <2>2 DEF PiecesApart
  <2>3. CASE j = Len(chunks) + 1
    BY <1>1, <2>1, <2>3
  <2> QED
    BY <1>2, <2>2, <2>3
<1>4. ASSUME NEW k \in DOMAIN q PROVE (\E l \in DOMAIN chunks : q[k] = PieceAt(l)) \/ q[k][2] = y
  BY <1>1, <1>2
<1> QED
  BY <1>3, <1>4

\* Before the first token.
LEMMA ApartStarts == RecoveryInit => PiecesApart
<1> SUFFICES ASSUME RecoveryInit PROVE PiecesApart
  OBVIOUS
<1>1. RecoveryTyped
  BY RecoveryStarts DEF RecoveryIInv
<1>2. DOMAIN chunks = {} /\ braceDepth = 0 /\ position = 1
  BY DEF RecoveryInit
<1> QED
  BY <1>1, <1>2 DEF RecoveryTyped, PiecesApart, Tokens

\* Every step keeps the pieces apart.
LEMMA ApartGoesOn ==
  RecoveryIInv /\ PiecesApart /\ [RecoveryNext]_recoveryVars => PiecesApart'
<1> SUFFICES ASSUME RecoveryIInv, PiecesApart, [RecoveryNext]_recoveryVars PROVE PiecesApart'
  OBVIOUS
<1>1. /\ Tokens \in Nat /\ position \in 1..(Tokens + 2) /\ braceDepth \in Nat /\ chunkStart \in Nat
      /\ chunkStart <= position /\ RecoveryTyped
      /\ \A k \in DOMAIN chunks : PieceAt(k)[1] \in Nat /\ PieceAt(k)[2] \in Nat
  <2>1. chunks \in Seq(Nat \X Nat)
    BY DEF RecoveryIInv, RecoveryTyped
  <2>2. \A k \in DOMAIN chunks : PieceAt(k)[1] \in Nat /\ PieceAt(k)[2] \in Nat
    BY <2>1 DEF PieceAt
  <2> QED
    BY <2>2 DEF RecoveryIInv, RecoveryTyped, Tokens
<1>2. CASE Split
  <2>1. /\ position \in 1..Tokens /\ position' = position + 1 /\ Tokens' = Tokens
        /\ braceDepth' \in Nat /\ braceDepth' <= braceDepth + 1
    <3>1. position < End /\ position' = position + 1 /\ braceDepth' = DepthAfter /\ source' = source
      BY <1>2 DEF Split
    <3>2. DepthAfter \in Nat /\ DepthAfter <= braceDepth + 1
      BY <1>1 DEF DepthAfter
    <3> QED
      BY <1>1, <3>1, <3>2 DEF End, Tokens
  <2>2. braceDepth' <= Tokens /\ braceDepth' < position'
    BY <1>1, <2>1 DEF PiecesApart
  <2>3. \A k \in DOMAIN chunks : PieceAt(k)[2] < chunkStart
    BY <1>1, <2>1 DEF PiecesApart
  <2>4. CASE chunkStart' = position + 1 /\ chunks' = Append(chunks, <<chunkStart, position>>)
    <3>1. PICK q : ChunksWith(q, chunkStart, position)
      BY <1>1, PieceAppended
    <3>2. chunks' = q
      BY <2>4, <3>1 DEF ChunksWith
    <3>3. /\ \A i, j \in DOMAIN q : i < j => q[i][2] < q[j][1]
          /\ \A k \in DOMAIN q : (\E l \in DOMAIN chunks : q[k] = PieceAt(l)) \/ q[k][2] = position
      BY <1>1, <2>3, <3>1, AppendedApart
    <3>4. \A k \in DOMAIN q : q[k][2] < position + 1
      <4>1. \A l \in DOMAIN chunks : PieceAt(l)[2] < position + 1
        BY <1>1, <2>3
      <4> QED
        BY <1>1, <3>3, <4>1
    <3> QED
      BY <2>1, <2>2, <2>4, <3>2, <3>3, <3>4 DEF PiecesApart, PieceAt
  <2>5. CASE chunks' = chunks /\ chunkStart' \in {chunkStart, position + 1}
    <3>1. \A k \in DOMAIN chunks : PieceAt(k)[2] < chunkStart'
      BY <1>1, <2>3, <2>5
    <3> QED
      BY <2>1, <2>2, <2>5, <3>1 DEF PiecesApart, PieceAt
  <2> QED
    BY <1>2, <2>4, <2>5 DEF Split
<1>3. CASE LastChunk
  <2>1. /\ position = Tokens + 1 /\ position' = Tokens + 2 /\ Tokens' = Tokens /\ braceDepth' = braceDepth
    BY <1>3 DEF LastChunk, End, Tokens
  <2>2. braceDepth' <= Tokens /\ braceDepth' < position'
    BY <1>1, <2>1 DEF PiecesApart
  <2>3. \A k \in DOMAIN chunks : PieceAt(k)[2] < chunkStart
    BY <1>1, <2>1 DEF PiecesApart
  <2>4. CASE chunks' = Append(chunks, <<chunkStart, position>>)
    <3>1. PICK q : ChunksWith(q, chunkStart, position)
      BY <1>1, PieceAppended
    <3>2. chunks' = q
      BY <2>4, <3>1 DEF ChunksWith
    <3>3. \A i, j \in DOMAIN q : i < j => q[i][2] < q[j][1]
      BY <1>1, <2>3, <3>1, AppendedApart
    <3> QED
      BY <2>1, <2>2, <3>2, <3>3 DEF PiecesApart, PieceAt
  <2>5. CASE chunks' = << <<1, position>> >>
    <3>1. DOMAIN chunks' = {1}
      BY <2>5
    <3> QED
      BY <2>1, <2>2, <3>1 DEF PiecesApart, PieceAt
  <2>6. CASE chunks' = chunks
    BY <2>1, <2>2, <2>6 DEF PiecesApart, PieceAt
  <2>7. position = End
    BY <1>3 DEF LastChunk
  <2>8. chunks' = IF chunkStart < End THEN Append(chunks, <<chunkStart, End>>)
                  ELSE IF chunks = <<>> THEN << <<1, End>> >> ELSE chunks
    BY <1>3, Zenon DEF LastChunk
  <2> QED
    BY <2>4, <2>5, <2>6, <2>7, <2>8, Zenon
<1>4. CASE ParseChunk
  BY <1>1, <1>4 DEF ParseChunk, End, PiecesApart, PieceAt, Tokens
<1>5. CASE UNCHANGED recoveryVars
  BY <1>5 DEF recoveryVars, PiecesApart, PieceAt, Tokens
<1> QED
  BY <1>2, <1>3, <1>4, <1>5 DEF RecoveryNext

\* The variables of error recovery keep their types, the depth never exceeds
\* the tokens, and no token is in two pieces (split_into_chunks, recovery.rs).
THEOREM RecoveryTypeCorrect == RecoverySpec => []RecoveryTypeOK
<1>1. RecoveryIInv /\ PiecesApart => RecoveryTypeOK
  BY DEF RecoveryIInv, RecoveryTyped, PiecesApart, PieceAt, RecoveryTypeOK, End, Tokens
<1> QED
  BY <1>1, RecoveryInvariance, ApartStarts, ApartGoesOn, PTL DEF RecoverySpec

-----------------------------------------------------------------------------
\* What the words of a text are.
Names == TableNames \cup FieldNames \cup {NewName}
AllWords == OtherWords \cup Names

\* Behind position b of the words w stands statement s, with names for its
\* symbols.
Kept(w, b, s) ==
  /\ w \in Seq(AllWords) /\ s \in KnownStatements
  /\ b \in Nat /\ b + Len(s) <= Len(w) /\ (b = 0 \/ w[b] = Terminator)
  /\ \A o \in 1..Len(s) : IF s[o] \in Symbols THEN w[b + o] \in Names ELSE w[b + o] = s[o]

LEMMA StatementIsList ==
  ASSUME NEW s \in SearchedStatements
  PROVE  /\ Len(s) \in Nat /\ Len(s) > 0 /\ DOMAIN s = 1..Len(s)
         /\ \A i \in 1..Len(s) : s[i] = Terminator <=> i = Len(s)
<1> DEFINE X == Range(s)
<1>1. s \in Seq(X) /\ Len(s) > 0 /\ \A i \in DOMAIN s : s[i] = Terminator <=> i = Len(s)
  BY SearchAssumption
<1>a. s \in Seq(X)
  BY <1>1
<1>2. Len(s) \in Nat /\ DOMAIN s = 1..Len(s)
  <2> HIDE DEF X
  <2> QED
    BY <1>a
<1> QED
  BY <1>1, <1>2

LEMMA FormIsList ==
  ASSUME NEW s \in KnownStatements
  PROVE  /\ Len(s) \in Nat /\ Len(s) > 0 /\ DOMAIN s = 1..Len(s)
         /\ \A i \in 1..Len(s) : s[i] = Terminator <=> i = Len(s)
         /\ TableWordsStand(s) /\ DefinitionsStand(s) /\ TablesStand(s) /\ FieldsStand(s) /\ OthersStand(s)
<1>1. s \in SearchedStatements /\ Stands(s)
  BY DEF KnownStatements
<1> QED
  BY <1>1, StatementIsList DEF Stands

\* No symbol, and no name, is a word that is compared.
LEMMA NamesDiffer ==
  /\ \A x \in ComparedWords : x \notin Names /\ x \notin Symbols /\ x \notin PlainNames
  /\ TableWords \cup Punctuation \cup {"DEFINE", "ON", "ONLY", "TABLE", "RECORD"} = ComparedWords
<1>1. \A x \in ComparedWords : x \notin Names
  BY SearchAssumption DEF Names
<1>a. Terminator \notin Symbols /\ Terminator \notin {"t", "u", "f", "n", "^t"}
  BY Zenon DEF Terminator, Symbols
<1>2. \A x \in ComparedWords : x \notin Symbols
  BY <1>a DEF ComparedWords, Symbols, TableWords, TableKeywords, Punctuation
<1>3. \A x \in ComparedWords : x \notin PlainNames
  BY <1>1, <1>a DEF ComparedWords, PlainNames, TableWords, TableKeywords, Punctuation, Names
<1> QED
  BY <1>1, <1>2, <1>3 DEF ComparedWords

LEMMA KeptPlace ==
  ASSUME NEW w, NEW b, NEW s, Kept(w, b, s), NEW o \in 1..Len(s)
  PROVE  /\ b + o \in 1..Len(w) /\ b + o \in DOMAIN w /\ b + o \in Nat
         /\ Len(w) \in Nat /\ DOMAIN w = 1..Len(w) /\ b \in Nat
<1>1. s \in KnownStatements /\ w \in Seq(AllWords) /\ b \in Nat /\ b + Len(s) <= Len(w)
  BY DEF Kept
<1>2. Len(s) \in Nat
  BY <1>1, FormIsList
<1>3. Len(w) \in Nat /\ DOMAIN w = 1..Len(w)
  BY <1>1
<1> QED
  BY <1>1, <1>2, <1>3

\* A word that is compared stands in the text where it stands in the form.
LEMMA KeptWord ==
  ASSUME NEW w, NEW b, NEW s, Kept(w, b, s), NEW o \in 1..Len(s), NEW x \in ComparedWords
  PROVE  w[b + o] = x <=> s[o] = x
<1>1. x \notin Names /\ x \notin Symbols
  BY NamesDiffer
<1> QED
  BY <1>1 DEF Kept

LEMMA KeptWords ==
  ASSUME NEW w, NEW b, NEW s, Kept(w, b, s), NEW o \in 1..Len(s), NEW X \in SUBSET ComparedWords
  PROVE  w[b + o] \in X <=> s[o] \in X
<1>1. \A x \in X : w[b + o] = x <=> s[o] = x
  BY KeptWord
<1> QED
  BY <1>1

\* A word that is no symbol stands there as it is.
LEMMA KeptOther ==
  ASSUME NEW w, NEW b, NEW s, Kept(w, b, s), NEW o \in 1..Len(s), s[o] \notin Symbols
  PROVE  w[b + o] = s[o]
  BY DEF Kept

LEMMA KeptName ==
  ASSUME NEW w, NEW b, NEW s, Kept(w, b, s), NEW o \in 1..Len(s), s[o] \in Symbols
  PROVE  w[b + o] \in Names /\ w[b + o] \notin ComparedWords
  BY NamesDiffer DEF Kept

LEMMA KeywordHere ==
  ASSUME NEW w, NEW b, NEW s, Kept(w, b, s), NEW o \in 1..Len(s), NEW X \in SUBSET ComparedWords
  PROVE  KeywordAt(w, b + o, X) <=> s[o] \in X
<1>1. w[b + o] \in X <=> s[o] \in X
  BY KeptWords
<1>2. w[b + o] \in X => w[b + o] \notin PlainNames
  BY NamesDiffer
<1> QED
  BY <1>1, <1>2, KeptPlace DEF KeywordAt

\* Before the statement stands nothing, or a semicolon.
LEMMA NoKeywordBefore ==
  ASSUME NEW w, NEW b, NEW s, Kept(w, b, s), NEW X, Terminator \notin X
  PROVE  ~KeywordAt(w, b, X)
<1>1. CASE b = 0
  <2>1. w \in Seq(AllWords)
    BY DEF Kept
  <2>2. DOMAIN w = 1..Len(w)
    BY <2>1
  <2>3. 0 \notin DOMAIN w
    BY <2>2
  <2> QED
    BY <1>1, <2>3 DEF KeywordAt
<1>2. CASE w[b] = Terminator
  BY <1>2 DEF KeywordAt
<1> QED
  BY <1>1, <1>2 DEF Kept

LEMMA WordHere ==
  ASSUME NEW w, NEW b, NEW s, Kept(w, b, s), NEW o \in 1..Len(s)
  PROVE  IsWord(w, b + o) <=> s[o] \notin Punctuation
<1>1. Punctuation \in SUBSET ComparedWords
  BY DEF ComparedWords
<1>2. w[b + o] \in Punctuation <=> s[o] \in Punctuation
  BY <1>1, KeptWords
<1> QED
  BY <1>2, KeptPlace DEF IsWord
-----------------------------------------------------------------------------
\* Positions.

LEMMA StartHere ==
  ASSUME NEW w, NEW b, NEW s, Kept(w, b, s), NEW o \in 1..Len(s)
  PROVE  StatementStart(w, b + o) = b + 1
<1> DEFINE I == {k \in 1..b + o - 1 : w[k] = Terminator} \cup {0}
<1>1. b \in Nat /\ o \in Nat /\ o > 0 /\ s \in KnownStatements /\ Len(s) \in Nat /\ (b = 0 \/ w[b] = Terminator)
  BY FormIsList DEF Kept
<1>2. ASSUME NEW k \in I PROVE k <= b
  <2> SUFFICES ASSUME k > b PROVE FALSE
    BY <1>1
  <2>1. k - b \in 1..Len(s) /\ k - b < Len(s) /\ b + (k - b) = k /\ w[k] = Terminator
    BY <1>1
  <2>2. w[k] = Terminator <=> s[k - b] = Terminator
    <3>1. Terminator \in ComparedWords
      BY DEF ComparedWords, Punctuation
    <3> QED
      BY <2>1, <3>1, KeptWord
  <2> QED
    BY <1>1, <2>1, <2>2, FormIsList
<1>3. b \in I /\ I \in SUBSET Nat /\ IsFiniteSet(I)
  <2>1. IsFiniteSet(0..b + o)
    BY <1>1, FS_Interval
  <2>2. I \subseteq 0..b + o /\ b \in I
    BY <1>1
  <2> QED
    BY <2>1, <2>2, FS_Subset
<1>4. Max(I) \in I /\ \A i \in I : Max(I) >= i
  <2> HIDE DEF I
  <2> QED
    BY <1>3, MaxIsGreatest
<1>5. Max(I) <= b /\ b <= Max(I) /\ Max(I) \in Nat
  BY <1>2, <1>3, <1>4
<1> QED
  BY <1>1, <1>5 DEF StatementStart

LEMMA EndHere ==
  ASSUME NEW w, NEW b, NEW s, Kept(w, b, s), NEW o \in 1..Len(s)
  PROVE  StatementEnd(w, b + o) = b + Len(s)
<1> DEFINE I == {k \in b + o..Len(w) : w[k] = Terminator} \cup {Len(w) + 1}
           e == b + Len(s)
<1>1. /\ b \in Nat /\ o \in Nat /\ o > 0 /\ o <= Len(s) /\ s \in KnownStatements /\ Len(s) \in Nat
      /\ Len(s) \in 1..Len(s) /\ Len(w) \in Nat /\ e <= Len(w)
  BY FormIsList, KeptPlace DEF Kept
<1>2. \A k \in 1..Len(s) : w[b + k] = Terminator <=> k = Len(s)
  <2>1. Terminator \in ComparedWords
    BY DEF ComparedWords, Punctuation
  <2> QED
    BY <1>1, <2>1, KeptWord, FormIsList
<1>3. e \in I /\ I \in SUBSET Nat
  BY <1>1, <1>2
<1>5. Min(I) \in I /\ \A n \in I : Min(I) <= n
  <2> HIDE DEF I
  <2> QED
    BY <1>3, MinIsLeast
<1>6. Min(I) <= e /\ Min(I) - b \in 1..Len(s) /\ b + (Min(I) - b) = Min(I) /\ w[Min(I)] = Terminator
  BY <1>1, <1>3, <1>5
<1>7. Min(I) - b = Len(s)
  BY <1>2, <1>6
<1> QED
  BY <1>1, <1>6, <1>7 DEF StatementEnd

\* The words by which the functions go.
LEMMA Compared ==
  /\ {"ON", "ONLY", "TABLE", "DEFINE", "RECORD", ":", ".", "<", "INTO", "FROM", "UPDATE", "DELETE"} \subseteq ComparedWords
  /\ TableKeywords \subseteq ComparedWords /\ TableWords \subseteq ComparedWords
  /\ Terminator \in ComparedWords
  BY DEF ComparedWords, TableWords, TableKeywords, Punctuation

LEMMA LeastHere ==
  ASSUME NEW I \in SUBSET Nat, NEW m \in I, \A k \in I : m <= k
  PROVE  Min(I) = m
<1>1. Min(I) \in I /\ Min(I) <= m
  BY MinIsLeast
<1>2. Min(I) \in Nat /\ m \in Nat /\ m <= Min(I)
  BY <1>1
<1> QED
  BY <1>1, <1>2

\* A word that no modifier is, behind modifiers only.
LEMMA SkipHere ==
  ASSUME NEW w, NEW b, NEW s, Kept(w, b, s), NEW o \in 1..Len(s), NEW q \in o + 1..Len(s),
         s[q] \notin {"ONLY", "TABLE"}, \A k \in o + 1..q - 1 : s[k] \in {"ONLY", "TABLE"}
  PROVE  SkipModifiers(w, b + o) = b + q
<1> DEFINE I == {k \in b + o + 1..Len(w) : w[k] \notin {"ONLY", "TABLE"}}
<1>1. /\ b \in Nat /\ o \in Nat /\ q \in Nat /\ o > 0 /\ q > o /\ q <= Len(s) /\ s \in KnownStatements
      /\ Len(s) \in Nat /\ Len(w) \in Nat /\ b + Len(s) <= Len(w)
  BY FormIsList, KeptPlace DEF Kept
<1>2. \A k \in 1..Len(s) : w[b + k] \in {"ONLY", "TABLE"} <=> s[k] \in {"ONLY", "TABLE"}
  <2>1. "ONLY" \in ComparedWords /\ "TABLE" \in ComparedWords
    BY Compared
  <2> QED
    BY <2>1, KeptWord
<1>3. b + q \in I /\ I \in SUBSET Nat
  <2>1. q \in 1..Len(s) /\ w[b + q] \notin {"ONLY", "TABLE"}
    BY <1>1, <1>2
  <2> QED
    BY <1>1, <2>1
<1>4. ASSUME NEW k \in I PROVE b + q <= k
  <2> SUFFICES ASSUME k < b + q PROVE FALSE
    BY <1>1
  <2>1. k - b \in o + 1..q - 1 /\ k - b \in 1..Len(s) /\ b + (k - b) = k
    BY <1>1
  <2> QED
    BY <1>2, <2>1
<1>5. Min(I) = b + q
  <2> HIDE DEF I
  <2> QED
    BY <1>3, <1>4, LeastHere
<1>6. SkipModifiers(w, b + o) = IF I # {} THEN Min(I) ELSE 0
  BY DEF SkipModifiers, SelectInSubSeq
<1> QED
  BY <1>3, <1>5, <1>6

\* What is found behind a word stands in its statement.
LEMMA SkipInside ==
  ASSUME NEW w, NEW b, NEW s, Kept(w, b, s), NEW o \in 1..Len(s), NEW i \in 1..Len(w), i < b + o,
         SkipModifiers(w, i) = b + o, w[i] # Terminator
  PROVE  i - b \in 1..o - 1 /\ b + (i - b) = i
<1> DEFINE I == {k \in i + 1..Len(w) : w[k] \notin {"ONLY", "TABLE"}}
<1>1. b \in Nat /\ o \in Nat /\ o > 0 /\ i \in Nat /\ Len(w) \in Nat /\ (b = 0 \/ w[b] = Terminator) /\ b + o <= Len(w)
  BY KeptPlace DEF Kept
<1>2. SkipModifiers(w, i) = IF I # {} THEN Min(I) ELSE 0
  BY DEF SkipModifiers, SelectInSubSeq
<1>3. I \in SUBSET Nat /\ Min(I) = b + o /\ I # {}
  BY <1>1, <1>2
<1>4. \A k \in I : b + o <= k
  <2> HIDE DEF I
  <2> QED
    BY <1>3, MinIsLeast
<1>5. ASSUME i < b PROVE FALSE
  <2>1. b \notin I /\ b \in i + 1..Len(w)
    BY <1>1, <1>4, <1>5
  <2>2. Terminator \notin {"ONLY", "TABLE"}
    BY Zenon DEF Terminator
  <2> QED
    BY <1>1, <1>5, <2>1, <2>2
<1>6. i # b
  BY <1>1
<1> QED
  BY <1>1, <1>5, <1>6

LEMMA TakesTableHere ==
  ASSUME NEW w, NEW b, NEW s, Kept(w, b, s), NEW o \in 1..Len(s)
  PROVE  TakesTable(w, b + o) <=> s[o] \in TableWords
<1>1. KeywordAt(w, b + o, TableKeywords) <=> s[o] \in TableKeywords
  BY KeywordHere, Compared
<1>2. KeywordAt(w, b + o, {"INTO"}) <=> s[o] = "INTO"
  BY KeywordHere, Compared
<1>3. ASSUME s[o] = "INTO" PROVE KeywordAt(w, (b + o) - 1, {"INSERT"})
  <2>1. s \in KnownStatements /\ b \in Nat
    BY DEF Kept
  <2>2. o - 1 \in 1..Len(s) /\ s[o - 1] = "INSERT"
    BY <1>3, <2>1, FormIsList DEF TableWordsStand, StandsAt
  <2>3. w[b + (o - 1)] = "INSERT" /\ b + (o - 1) \in DOMAIN w
    <3>1. s[o - 1] \notin Symbols
      BY <2>2 DEF Symbols
    <3> QED
      BY <2>2, <3>1, KeptOther, KeptPlace
  <2>4. b + (o - 1) = (b + o) - 1
    BY <2>1
  <2>5. "INSERT" \notin PlainNames
    BY SearchAssumption, Zenon DEF PlainNames
  <2> QED
    BY <2>3, <2>4, <2>5 DEF KeywordAt
<1>4. TakesTable(w, b + o) <=> s[o] \in TableKeywords \/ s[o] = "INTO"
  BY <1>1, <1>2, <1>3 DEF TakesTable
<1> QED
  BY <1>4 DEF TableWords

-----------------------------------------------------------------------------
\* The words up to a cursor.

Agrees(v, w, n) == n \in Nat /\ n <= Len(w) /\ DOMAIN v = 1..n /\ \A i \in 1..n : v[i] = w[i]

LEMMA KeywordBefore ==
  ASSUME NEW w \in Seq(AllWords), NEW n, NEW v, Agrees(v, w, n), NEW i \in Int, i <= n, NEW X
  PROVE  (KeywordAt(v, i, X) <=> KeywordAt(w, i, X)) /\ (IsWord(v, i) <=> IsWord(w, i))
<1>1. n \in Nat /\ n <= Len(w) /\ Len(w) \in Nat /\ DOMAIN w = 1..Len(w) /\ DOMAIN v = 1..n /\ \A k \in 1..n : v[k] = w[k]
  BY DEF Agrees
<1>2. CASE i \in 1..n
  <2>1. i \in DOMAIN v /\ i \in DOMAIN w /\ v[i] = w[i]
    BY <1>1, <1>2
  <2> QED
    BY <2>1 DEF KeywordAt, IsWord
<1>3. CASE i \notin 1..n
  <2>1. i \notin DOMAIN v /\ i \notin DOMAIN w
    BY <1>1, <1>3
  <2> QED
    BY <2>1 DEF KeywordAt, IsWord
<1> QED
  BY <1>2, <1>3

LEMMA TakesTableBefore ==
  ASSUME NEW w \in Seq(AllWords), NEW n, NEW v, Agrees(v, w, n), NEW i \in Int, i <= n
  PROVE  TakesTable(v, i) <=> TakesTable(w, i)
<1>1. i - 1 \in Int /\ i - 1 <= n
  BY DEF Agrees
<1>2. KeywordAt(v, i, TableKeywords) <=> KeywordAt(w, i, TableKeywords)
  BY KeywordBefore
<1>3. KeywordAt(v, i, {"INTO"}) <=> KeywordAt(w, i, {"INTO"})
  BY KeywordBefore
<1>4. KeywordAt(v, i - 1, {"INSERT"}) <=> KeywordAt(w, i - 1, {"INSERT"})
  BY <1>1, KeywordBefore
<1> QED
  BY <1>2, <1>3, <1>4 DEF TakesTable

LEMMA AgreesWithItself ==
  ASSUME NEW w \in Seq(AllWords)
  PROVE  Agrees(w, w, Len(w))
<1>1. Len(w) \in Nat /\ DOMAIN w = 1..Len(w)
  OBVIOUS
<1> QED
  BY <1>1 DEF Agrees

LEMMA SkipIs ==
  ASSUME NEW w, NEW b, NEW s, Kept(w, b, s), NEW n, NEW v, Agrees(v, w, n),
         NEW o \in 1..Len(s) - 1, NEW m \in {"ONLY", "TABLE"}, b + (o + 1) <= n
  PROVE  Skip(v, b + o, m) = b + Behind(s, o, m)
<1>1. /\ b \in Nat /\ o \in Nat /\ o > 0 /\ s \in KnownStatements /\ w \in Seq(AllWords) /\ DOMAIN s = 1..Len(s)
      /\ Len(s) \in Nat
  BY FormIsList DEF Kept
<1>2. o + 1 \in 1..Len(s) /\ (b + o) + 1 = b + (o + 1) /\ o + 1 \in DOMAIN s /\ b + (o + 1) \in Int
  BY <1>1
<1>3. KeywordAt(v, b + (o + 1), {m}) <=> KeywordAt(w, b + (o + 1), {m})
  BY <1>1, <1>2, KeywordBefore
<1>4. m \in ComparedWords
  BY Compared
<1>5. KeywordAt(w, b + (o + 1), {m}) <=> s[o + 1] = m
  BY <1>2, <1>4, KeywordHere
<1>6. Behind(s, o, m) = IF s[o + 1] = m THEN o + 2 ELSE o + 1
  BY <1>2 DEF Behind
<1>7. Skip(v, b + o, m) = IF s[o + 1] = m THEN (b + o) + 2 ELSE (b + o) + 1
  BY <1>2, <1>3, <1>5 DEF Skip
<1> QED
  BY <1>1, <1>6, <1>7

LEMMA WordBefore ==
  ASSUME NEW w, NEW b, NEW s, Kept(w, b, s), NEW n, NEW v, Agrees(v, w, n),
         NEW o \in 1..Len(s), b + o <= n
  PROVE  (IsWord(v, b + o) <=> s[o] \notin Punctuation) /\ v[b + o] = w[b + o]
<1>1. w \in Seq(AllWords) /\ b + o \in Int /\ b + o \in 1..n
  BY KeptPlace DEF Kept, Agrees
<1>2. IsWord(v, b + o) <=> IsWord(w, b + o)
  BY <1>1, KeywordBefore
<1> QED
  BY <1>1, <1>2, WordHere DEF Agrees

-----------------------------------------------------------------------------
\* What stands behind a word that takes a table.

LEMMA TableWordForm ==
  ASSUME NEW s \in KnownStatements, NEW k \in 1..Len(s), s[k] \in TableWords
  PROVE  LET q == Behind(s, k, "ONLY") IN
         /\ k < Len(s) /\ q \in k + 1..Len(s) /\ q <= k + 2 /\ s[q] \notin {"ONLY", "TABLE"} /\ s[q] \notin Punctuation
         /\ \A j \in k + 1..q - 1 : s[j] = "ONLY"
         /\ \/ IsAbout(s, k) /\ s[q] = "T"
            \/ DeletesFrom(s, k) /\ q = k + 1 /\ s[q] = "FROM" /\ s[k] = "DELETE" /\ IsAbout(s, q)
            \/ EndsInField(s, k) /\ q = k + 1 /\ s[q] = "F" /\ s[k] = "UPDATE"
<1> DEFINE q == Behind(s, k, "ONLY")
<1>1. Len(s) \in Nat /\ DOMAIN s = 1..Len(s) /\ TableWordsStand(s) /\ k \in Nat /\ k > 0 /\ k <= Len(s)
  BY FormIsList
<1>2. IsAbout(s, k) \/ DeletesFrom(s, k) \/ EndsInField(s, k)
  BY <1>1 DEF TableWordsStand
<1>3. q = IF k + 1 \in 1..Len(s) /\ s[k + 1] = "ONLY" THEN k + 2 ELSE k + 1
  BY <1>1 DEF Behind
<1>4. "T" \notin Punctuation /\ "F" \notin Punctuation /\ "FROM" \notin Punctuation
  <2>1. "T" # Terminator /\ "F" # Terminator /\ "FROM" # Terminator
    BY Zenon DEF Terminator
  <2> QED
    BY <2>1 DEF Punctuation
<1>5. CASE IsAbout(s, k)
  <2>1. q \in 1..Len(s) /\ s[q] = "T"
    BY <1>1, <1>5 DEF IsAbout, StandsAt
  <2>2. q \in k + 1..Len(s) /\ k < Len(s) /\ q <= k + 2 /\ \A j \in k + 1..q - 1 : s[j] = "ONLY"
    BY <1>1, <1>3, <2>1
  <2> QED
    BY <1>4, <1>5, <2>1, <2>2
<1>6. CASE DeletesFrom(s, k)
  <2>1. s[k] = "DELETE" /\ k + 1 \in 1..Len(s) /\ s[k + 1] = "FROM"
    BY <1>1, <1>6 DEF DeletesFrom, StandsAt
  <2>2. q = k + 1 /\ q \in k + 1..Len(s) /\ k < Len(s) /\ \A j \in k + 1..q - 1 : s[j] = "ONLY"
    BY <1>1, <1>3, <2>1
  <2>3. IsAbout(s, k + 1) \/ DeletesFrom(s, k + 1) \/ EndsInField(s, k + 1)
    BY <1>1, <2>1 DEF TableWordsStand, TableWords, TableKeywords
  <2>4. IsAbout(s, k + 1)
    BY <2>1, <2>3 DEF DeletesFrom, EndsInField, StandsAt
  <2> HIDE DEF q
  <2> QED
    BY <1>4, <1>6, <2>1, <2>2, <2>4 DEF q
<1>7. CASE EndsInField(s, k)
  <2>1. s[k] = "UPDATE" /\ k + 1 \in 1..Len(s) /\ s[k + 1] = "F"
    BY <1>1, <1>7 DEF EndsInField, StandsAt
  <2>2. q = k + 1 /\ q \in k + 1..Len(s) /\ k < Len(s) /\ \A j \in k + 1..q - 1 : s[j] = "ONLY"
    BY <1>1, <1>3, <2>1
  <2> QED
    BY <1>4, <1>7, <2>1, <2>2
<1> QED
  BY <1>2, <1>5, <1>6, <1>7

\* The functions find it.
LEMMA TableWordHere ==
  ASSUME NEW w, NEW b, NEW s, Kept(w, b, s), NEW k \in 1..Len(s), s[k] \in TableWords, NEW n, NEW v, Agrees(v, w, n)
  PROVE  LET q == Behind(s, k, "ONLY") IN
         /\ SkipModifiers(w, b + k) = b + q
         /\ SkipOnly(w, b + k) = b + q
         /\ b + q <= n => TableNameAfter(v, b + k) = Strip(w[b + q])
<1> DEFINE q == Behind(s, k, "ONLY")
<1>1. /\ s \in KnownStatements /\ w \in Seq(AllWords) /\ b \in Nat /\ k \in Nat /\ Len(s) \in Nat /\ Len(w) \in Nat
      /\ b + Len(s) <= Len(w) /\ n \in Nat
  BY FormIsList, KeptPlace DEF Kept, Agrees
<1>2. /\ k < Len(s) /\ q \in k + 1..Len(s) /\ q \in 1..Len(s) /\ s[q] \notin {"ONLY", "TABLE"} /\ s[q] \notin Punctuation
      /\ \A j \in k + 1..q - 1 : s[j] = "ONLY"
  <2> HIDE DEF q
  <2>1. k < Len(s) /\ q \in k + 1..Len(s) /\ s[q] \notin {"ONLY", "TABLE"} /\ s[q] \notin Punctuation
        /\ \A j \in k + 1..q - 1 : s[j] = "ONLY"
    BY <1>1, TableWordForm DEF q
  <2> QED
    BY <1>1, <2>1
<1>3. SkipModifiers(w, b + k) = b + q
  <2> HIDE DEF q
  <2> QED
    BY <1>2, SkipHere
<1>4. k \in 1..Len(s) - 1 /\ b + (k + 1) <= Len(w)
  BY <1>1, <1>2
<1>5. Skip(w, b + k, "ONLY") = b + q
  BY <1>1, <1>4, AgreesWithItself, SkipIs
<1> HIDE DEF q
<1>6. IsWord(w, b + q)
  BY <1>2, WordHere
<1>7. SkipOnly(w, b + k) = b + q
  BY <1>5, <1>6 DEF SkipOnly
<1>8. ASSUME b + q <= n PROVE TableNameAfter(v, b + k) = Strip(w[b + q])
  <2>1. b + (k + 1) <= n
    BY <1>1, <1>2, <1>8
  <2>2. Skip(v, b + k, "ONLY") = b + q
    BY <1>4, <2>1, SkipIs DEF q
  <2>3. ~KeywordAt(v, ((b + q) - 1) + 1, {"TABLE"})
    <3>1. ((b + q) - 1) + 1 = b + q /\ b + q \in Int
      BY <1>1, <1>2
    <3>2. {"TABLE"} \in SUBSET ComparedWords
      BY Compared
    <3>3. ~KeywordAt(w, b + q, {"TABLE"})
      BY <1>2, <3>2, KeywordHere
    <3> QED
      BY <1>1, <1>8, <3>1, <3>3, KeywordBefore
  <2>4. Skip(v, (b + q) - 1, "TABLE") = b + q
    BY <1>1, <1>2, <2>3 DEF Skip
  <2>5. IsWord(v, b + q) /\ v[b + q] = w[b + q]
    BY <1>2, <1>8, WordBefore
  <2> QED
    BY <2>2, <2>4, <2>5 DEF TableNameAfter
<1> QED
  BY <1>3, <1>7, <1>8 DEF q

-----------------------------------------------------------------------------
\* Definitions.

\* The form of a definition.
LEMMA DefinitionForm ==
  ASSUME NEW s \in KnownStatements, NEW i \in 1..Len(s), s[i] = "DEFINE"
  PROVE  /\ i = 1 /\ Len(s) > 3 /\ s[2] \notin Symbols /\ s[3] \notin Punctuation
         /\ s[3] \notin {"P", "FIELD", "INDEX", "EVENT", "DEFINE", "ON"}
         /\ s[2] = "FIELD" <=> s[3] = "F"
         /\ \A j \in 1..Len(s) : s[j] \notin TableWords
         /\ \/ /\ DefinesTable(s) /\ s[2] = "TABLE" /\ s[3] = "T"
               /\ \A j \in 1..Len(s) : s[j] \notin {"F", "ON"}
            \/ /\ DefinesOn(s) /\ s[2] \in {"FIELD", "INDEX", "EVENT"} /\ s[4] = "ON"
               /\ \A j \in 1..Len(s) : s[j] = "ON" => j = 4
<1>1. Len(s) \in Nat /\ DOMAIN s = 1..Len(s) /\ DefinitionsStand(s)
  BY FormIsList
<1>d. Len(s) \in Nat /\ DOMAIN s = 1..Len(s)
  BY <1>1
<1>2. i = 1 /\ StandsAt(s, 1, {"DEFINE"})
  BY <1>1 DEF DefinitionsStand, StandsAt
<1>3. /\ \A j \in 1..Len(s) : s[j] \notin TableWords
      /\ \/ DefinesTable(s) /\ \A j \in 1..Len(s) : s[j] \notin {"F", "ON"}
         \/ DefinesOn(s) /\ \A j \in 1..Len(s) : s[j] = "ON" => j = 4
      /\ s[2] = "FIELD" <=> s[3] = "F"
      /\ s[3] \notin Punctuation \cup {"P", "FIELD", "INDEX", "EVENT"}
  BY <1>1, <1>2 DEF DefinitionsStand
<1>4. CASE DefinesTable(s) /\ \A j \in 1..Len(s) : s[j] \notin {"F", "ON"}
  <2>1. s[2] = "TABLE" /\ s[3] = "T" /\ 3 \in 1..Len(s)
    BY <1>1, <1>4 DEF DefinesTable, StandsAt
  <2>2. "T" # Terminator
    BY Zenon DEF Terminator
  <2>3. 3 # Len(s)
    BY <2>1, <2>2, FormIsList
  <2>4. Len(s) > 3
    BY <1>d, <2>1, <2>3
  <2> QED
    BY <1>2, <1>3, <1>4, <2>1, <2>4 DEF Symbols
<1>5. CASE DefinesOn(s) /\ \A j \in 1..Len(s) : s[j] = "ON" => j = 4
  <2>1. s[2] \in {"FIELD", "INDEX", "EVENT"} /\ s[4] = "ON" /\ 4 \in 1..Len(s) /\ 3 \in 1..Len(s)
    BY <1>d, <1>5 DEF DefinesOn, StandsAt
  <2>2. s[3] # "DEFINE" /\ s[3] # "ON"
    <3>1. s[3] = "DEFINE" => 3 = 1
      BY <1>1, <2>1 DEF DefinitionsStand
    <3>2. s[3] = "ON" => 3 = 4
      BY <1>5, <2>1
    <3> QED
      BY <3>1, <3>2
  <2> QED
    BY <1>2, <1>3, <1>5, <2>1, <2>2 DEF Symbols
<1> QED
  BY <1>3, <1>4, <1>5

\* What stands behind ON.
LEMMA OnForm ==
  ASSUME NEW s \in KnownStatements, NEW j \in 1..Len(s), s[j] = "ON"
  PROVE  j < Len(s) /\ ((DefinesOn(s) /\ j = 4) \/ s[j + 1] \notin Symbols \cup {"ONLY", "TABLE"})
<1>1. Len(s) \in Nat /\ DOMAIN s = 1..Len(s) /\ DefinitionsStand(s) /\ Len(s) \in 1..Len(s)
  BY FormIsList
<1>2. j # Len(s)
  <2>1. "ON" # Terminator
    BY Zenon DEF Terminator
  <2> QED
    BY <1>1, <2>1, FormIsList
<1>a. Len(s) \in Nat /\ DOMAIN s = 1..Len(s) /\ j \in 1..Len(s)
  BY <1>1
<1>b. j < Len(s) /\ j + 1 \in 1..Len(s) /\ 1 \in 1..Len(s)
  <2>1. Len(s) \in Nat /\ j \in 1..Len(s)
    BY <1>a
  <2> QED
    BY <1>2, <2>1
<1>3. j < Len(s) /\ j + 1 \in DOMAIN s /\ 1 \in 1..Len(s) /\ 1 \in DOMAIN s
  BY <1>a, <1>b
<1>4. CASE s[1] = "DEFINE"
  <2>1. DefinesOn(s) /\ j = 4
    BY <1>3, <1>4, DefinitionForm
  <2> QED
    BY <1>3, <2>1
<1>5. CASE s[1] # "DEFINE"
  <2>1. ~StandsAt(s, 1, {"DEFINE"})
    BY <1>5 DEF StandsAt
  <2>2. ~StandsAt(s, j + 1, Symbols \cup {"ONLY", "TABLE"})
    BY <1>1, <2>1 DEF DefinitionsStand
  <2> QED
    BY <1>3, <2>2 DEF StandsAt
<1> QED
  BY <1>4, <1>5

LEMMA DefinesOnForm ==
  ASSUME NEW s \in KnownStatements, DefinesOn(s)
  PROVE  LET q == Behind(s, 4, "TABLE") IN
         /\ Len(s) \in Nat /\ 4 < Len(s) /\ q \in 5..Len(s) /\ q <= 6 /\ s[q] = "T"
         /\ \A j \in 5..q - 1 : s[j] = "TABLE"
         /\ s[1] = "DEFINE" /\ s[2] \in {"FIELD", "INDEX", "EVENT"} /\ s[4] = "ON"
<1> DEFINE q == Behind(s, 4, "TABLE")
<1>1. Len(s) \in Nat /\ DOMAIN s = 1..Len(s)
  BY FormIsList
<1>2. /\ s[1] = "DEFINE" /\ s[2] \in {"FIELD", "INDEX", "EVENT"} /\ s[4] = "ON" /\ 4 \in 1..Len(s)
      /\ q \in 1..Len(s) /\ s[q] = "T"
  BY <1>1 DEF DefinesOn, StandsAt
<1>3. q = IF 5 \in 1..Len(s) /\ s[5] = "TABLE" THEN 6 ELSE 5
  BY <1>1 DEF Behind
<1> HIDE DEF q
<1>4. 4 < Len(s) /\ q \in 5..Len(s) /\ q <= 6 /\ \A j \in 5..q - 1 : s[j] = "TABLE"
  BY <1>1, <1>2, <1>3
<1> QED
  BY <1>1, <1>2, <1>4 DEF q

LEMMA KeywordOn ==
  ASSUME NEW w, NEW b, NEW s, Kept(w, b, s), DefinesOn(s), NEW o \in 2..3
  PROVE  KeywordAfter(w, b + o, "ON") = b + 4
<1> DEFINE I == {k \in (b + o) + 1..(b + Len(s)) - 1 : w[k] = "ON"}
<1>1. s \in KnownStatements /\ b \in Nat /\ Len(s) \in Nat /\ 4 < Len(s) /\ s[1] = "DEFINE" /\ s[4] = "ON"
  BY FormIsList, DefinesOnForm DEF Kept
<1>2. \A k \in 1..Len(s) : s[k] = "ON" <=> k = 4
  <2>1. 1 \in 1..Len(s) /\ 4 \in 1..Len(s)
    BY <1>1
  <2> QED
    BY <1>1, <2>1, DefinitionForm
<1>3. \A k \in 1..Len(s) : w[b + k] = "ON" <=> k = 4
  <2>1. "ON" \in ComparedWords
    BY Compared
  <2> QED
    BY <1>2, <2>1, KeptWord
<1>4. b + 4 \in I /\ I \in SUBSET Nat
  BY <1>1, <1>3
<1>5. ASSUME NEW k \in I PROVE b + 4 <= k
  <2>1. k - b \in 1..Len(s) /\ b + (k - b) = k /\ w[k] = "ON" /\ k \in Nat
    BY <1>1
  <2>2. k - b = 4
    BY <1>3, <2>1
  <2> QED
    BY <1>1, <2>1, <2>2
<1>6. Min(I) = b + 4
  <2> HIDE DEF I
  <2> QED
    BY <1>4, <1>5, LeastHere
<1>7. StatementEnd(w, (b + o) + 1) = b + Len(s)
  <2>1. o + 1 \in 1..Len(s) /\ (b + o) + 1 = b + (o + 1)
    BY <1>1
  <2> QED
    BY <2>1, EndHere
<1>8. KeywordAfter(w, b + o, "ON") = IF I # {} THEN Min(I) ELSE 0
  BY <1>7 DEF KeywordAfter, SelectInSubSeq
<1> QED
  BY <1>4, <1>6, <1>8

LEMMA DefinesOnHere ==
  ASSUME NEW w, NEW b, NEW s, Kept(w, b, s), DefinesOn(s), NEW n, NEW v, Agrees(v, w, n)
  PROVE  LET q == Behind(s, 4, "TABLE") IN
         /\ SkipTable(w, b + 4) = b + q /\ SkipModifiers(w, b + 4) = b + q
         /\ OnTableAfter(w, b + 3) = Strip(w[b + q])
         /\ b + q <= n => TableNameAfter(v, b + 4) = Strip(w[b + q])
<1> DEFINE q == Behind(s, 4, "TABLE")
<1>1. /\ s \in KnownStatements /\ w \in Seq(AllWords) /\ b \in Nat /\ Len(s) \in Nat /\ Len(w) \in Nat
      /\ b + Len(s) <= Len(w) /\ n \in Nat
  BY FormIsList, KeptPlace DEF Kept, Agrees
<1>2. 4 < Len(s) /\ q \in 5..Len(s) /\ q <= 6 /\ s[q] = "T" /\ \A j \in 5..q - 1 : s[j] = "TABLE"
  BY <1>1, DefinesOnForm
<1>a. Skip(w, b + 4, "TABLE") = b + q
  <2>1. 4 \in 1..Len(s) - 1 /\ b + (4 + 1) <= Len(w) /\ Agrees(w, w, Len(w))
    BY <1>1, <1>2, AgreesWithItself
  <2> QED
    BY <2>1, SkipIs
<1>b. ASSUME b + q <= n PROVE Skip(v, b + 4, "TABLE") = b + q
  <2>1. 4 \in 1..Len(s) - 1 /\ b + (4 + 1) <= n
    <3> HIDE DEF q
    <3> QED
      BY <1>1, <1>2, <1>b
  <2> QED
    BY <2>1, SkipIs
<1> HIDE DEF q
<1>3. q \in 1..Len(s) /\ 4 \in 1..Len(s) /\ "T" \notin Punctuation /\ q \in 4 + 1..Len(s) /\ \A j \in 4 + 1..q - 1 : s[j] = "TABLE"
  <2>1. "T" # Terminator
    BY Zenon DEF Terminator
  <2> QED
    BY <1>1, <1>2, <2>1 DEF Punctuation
<1>4. IsWord(w, b + q)
  BY <1>2, <1>3, WordHere
<1>5. SkipTable(w, b + 4) = b + q
  BY <1>4, <1>a DEF SkipTable
<1>6. SkipModifiers(w, b + 4) = b + q
  BY <1>2, <1>3, SkipHere
<1>7. OnTableAfter(w, b + 3) = Strip(w[b + q])
  <2>1. KeywordAfter(w, b + 3, "ON") = b + 4
    BY KeywordOn
  <2>2. b + 4 # 0 /\ b + q # 0
    BY <1>1, <1>2
  <2> QED
    BY <1>5, <2>1, <2>2 DEF OnTableAfter
<1>8. ASSUME b + q <= n PROVE TableNameAfter(v, b + 4) = Strip(w[b + q])
  <2>1. ~KeywordAt(v, (b + 4) + 1, {"ONLY"})
    <3>1. (b + 4) + 1 = b + 5 /\ b + 5 \in Int /\ b + 5 <= n /\ 5 \in 1..Len(s)
      BY <1>1, <1>2, <1>8
    <3>2. {"ONLY"} \in SUBSET ComparedWords
      BY Compared
    <3>3. s[5] # "ONLY"
      BY <1>2
    <3>4. ~KeywordAt(w, b + 5, {"ONLY"})
      BY <3>1, <3>2, <3>3, KeywordHere
    <3> QED
      BY <1>1, <3>1, <3>4, KeywordBefore
  <2>2. Skip(v, b + 4, "ONLY") - 1 = b + 4
    BY <1>1, <2>1 DEF Skip
  <2>3. Skip(v, b + 4, "TABLE") = b + q
    BY <1>8, <1>b
  <2>4. IsWord(v, b + q) /\ v[b + q] = w[b + q]
    BY <1>2, <1>3, <1>8, WordBefore
  <2> QED
    BY <2>2, <2>3, <2>4 DEF TableNameAfter
<1> QED
  BY <1>5, <1>6, <1>7, <1>8 DEF q

-----------------------------------------------------------------------------
\* Occurrences.

\* A field that is taken for a table.
MistakenIn(s, o) == s[o] = "F" /\ (StandsAt(s, o + 1, {":"}) \/ StandsAt(s, o - 1, {"UPDATE"}))

\* The position before one of a statement.
LEMMA JustBefore ==
  ASSUME NEW w, NEW b, NEW s, Kept(w, b, s), NEW o \in 1..Len(s)
  PROVE  \/ o = 1 /\ (b + o) - 1 = b /\ (b = 0 \/ w[b] = Terminator)
         \/ o > 1 /\ o - 1 \in 1..Len(s) /\ (b + o) - 1 = b + (o - 1)
<1>1. b \in Nat /\ o \in Nat /\ o > 0 /\ Len(s) \in Nat /\ o <= Len(s) /\ (b = 0 \/ w[b] = Terminator)
  BY FormIsList DEF Kept
<1> QED
  BY <1>1

LEMMA WordJustBefore ==
  ASSUME NEW w, NEW b, NEW s, Kept(w, b, s), NEW o \in 1..Len(s), NEW x \in ComparedWords, x # Terminator,
         b + o > 1, w[(b + o) - 1] = x
  PROVE  o > 1 /\ s[o - 1] = x
<1>1. CASE o = 1 /\ (b + o) - 1 = b /\ (b = 0 \/ w[b] = Terminator)
  <2>1. b # 0
    BY <1>1
  <2> QED
    BY <1>1, <2>1
<1>2. CASE o > 1 /\ o - 1 \in 1..Len(s) /\ (b + o) - 1 = b + (o - 1)
  BY <1>2, KeptWord
<1> QED
  BY <1>1, <1>2, JustBefore

LEMMA KeywordJustBefore ==
  ASSUME NEW w, NEW b, NEW s, Kept(w, b, s), NEW o \in 1..Len(s), NEW x \in ComparedWords, x # Terminator
  PROVE  KeywordAt(w, (b + o) - 1, {x}) <=> o > 1 /\ s[o - 1] = x
<1>1. CASE o = 1 /\ (b + o) - 1 = b /\ (b = 0 \/ w[b] = Terminator)
  <2>1. ~KeywordAt(w, b, {x})
    BY NoKeywordBefore
  <2> QED
    BY <1>1, <2>1
<1>2. CASE o > 1 /\ o - 1 \in 1..Len(s) /\ (b + o) - 1 = b + (o - 1)
  <2>1. {x} \in SUBSET ComparedWords
    OBVIOUS
  <2>2. KeywordAt(w, b + (o - 1), {x}) <=> s[o - 1] = x
    BY <1>2, <2>1, KeywordHere
  <2> QED
    BY <1>2, <2>2
<1> QED
  BY <1>1, <1>2, JustBefore

\* A keyword of a definition stands there as it is.
LEMMA DefinedHere ==
  ASSUME NEW w, NEW b, NEW s, Kept(w, b, s), s[1] = "DEFINE", NEW X \in SUBSET {"FIELD", "INDEX", "EVENT"}
  PROVE  KeywordAt(w, b + 2, X) <=> s[2] \in X
<1>1. s \in KnownStatements /\ Len(s) \in Nat /\ Len(s) > 0
  BY FormIsList DEF Kept
<1>2. 2 \in 1..Len(s) /\ s[2] \notin Symbols
  <2>1. 1 \in 1..Len(s)
    BY <1>1
  <2> QED
    BY <1>1, <2>1, DefinitionForm
<1>3. w[b + 2] = s[2] /\ b + 2 \in DOMAIN w
  BY <1>2, KeptOther, KeptPlace
<1>4. \A x \in {"FIELD", "INDEX", "EVENT"} : x \notin PlainNames
  BY SearchAssumption, Zenon DEF PlainNames
<1> QED
  BY <1>3, <1>4 DEF KeywordAt

LEMMA TableOccurs ==
  ASSUME NEW w, NEW b, NEW s, Kept(w, b, s), NEW o \in 1..Len(s), s[o] \in {"T", "U"}
  PROVE  Occurs(w, b + o) /\ IsWord(w, b + o)
<1>1. /\ s \in KnownStatements /\ b \in Nat /\ o \in Nat /\ o > 0 /\ o <= Len(s) /\ Len(s) \in Nat
      /\ DOMAIN s = 1..Len(s) /\ DOMAIN w = 1..Len(w) /\ Len(w) \in Nat /\ b + Len(s) <= Len(w)
  BY FormIsList, KeptPlace DEF Kept
<1>2. IsWord(w, b + o)
  <2>1. "T" # Terminator /\ "U" # Terminator
    BY Zenon DEF Terminator
  <2>2. s[o] \notin Punctuation
    BY <2>1 DEF Punctuation
  <2> QED
    BY <2>2, WordHere
<1>3. ASSUME IsLinked(s, o) PROVE Occurs(w, b + o)
  <2>1. CASE StandsAt(s, o - 1, {"<"}) /\ StandsAt(s, o - 2, {"RECORD"})
    <3>1. o - 1 \in 1..Len(s) /\ s[o - 1] = "<" /\ o - 2 \in 1..Len(s) /\ s[o - 2] = "RECORD"
      BY <1>1, <2>1 DEF StandsAt
    <3>2. w[b + (o - 1)] = "<" /\ w[b + (o - 2)] = "RECORD"
      BY <3>1, KeptWord, Compared
    <3>3. (b + o) - 1 = b + (o - 1) /\ (b + o) - 2 = b + (o - 2) /\ b + o > 2
      BY <1>1, <3>1
    <3> QED
      BY <3>2, <3>3 DEF Occurs
  <2>2. CASE StandsAt(s, o + 1, {":"}) /\ o > 2 /\ ~StandsAt(s, o - 1, TableWords \cup {"."})
    <3>1. o + 1 \in 1..Len(s) /\ s[o + 1] = ":" /\ o - 1 \in 1..Len(s) /\ s[o - 1] # "."
      BY <1>1, <2>2 DEF StandsAt
    <3>2. w[b + (o + 1)] = ":" /\ w[b + (o - 1)] # "."
      BY <3>1, KeptWord, Compared
    <3>3. (b + o) - 1 = b + (o - 1) /\ (b + o) + 1 = b + (o + 1) /\ b + o > 2 /\ b + o < Len(w)
      BY <1>1, <2>2, <3>1
    <3> QED
      BY <3>2, <3>3 DEF Occurs
  <2> QED
    BY <1>3, <2>1, <2>2 DEF IsLinked
<1>4. ASSUME o = 3, DefinesTable(s) PROVE Occurs(w, b + o)
  <2>1. s[2] = "TABLE" /\ s[1] = "DEFINE" /\ 2 \in 1..Len(s) /\ 1 \in 1..Len(s)
    BY <1>1, <1>4 DEF DefinesTable, StandsAt
  <2>2. {"TABLE"} \in SUBSET ComparedWords /\ {"DEFINE"} \in SUBSET ComparedWords
    BY Compared
  <2>3. KeywordAt(w, b + 2, {"TABLE"}) /\ KeywordAt(w, b + 1, {"DEFINE"})
    BY <2>1, <2>2, KeywordHere
  <2>4. (b + o) - 1 = b + 2 /\ (b + o) - 2 = b + 1
    BY <1>1, <1>4
  <2> QED
    BY <2>3, <2>4 DEF Occurs
<1>5. ASSUME DefinesOn(s), o = Behind(s, 4, "TABLE") PROVE Occurs(w, b + o)
  <2>1. 4 < Len(s) /\ o \in 5..Len(s) /\ s[1] = "DEFINE" /\ s[2] \in {"FIELD", "INDEX", "EVENT"} /\ s[4] = "ON"
    BY <1>1, <1>5, DefinesOnForm
  <2>2. SkipModifiers(w, b + 4) = b + o
    <3>1. w \in Seq(AllWords)
      BY DEF Kept
    <3> QED
      BY <1>5, <3>1, DefinesOnHere, AgreesWithItself
  <2>3. KeywordAt(w, b + 4, {"ON"})
    <3>1. {"ON"} \in SUBSET ComparedWords /\ 4 \in 1..Len(s)
      BY <1>1, <2>1, Compared
    <3> QED
      BY <2>1, <3>1, KeywordHere
  <2>4. KeywordAt(w, b + 2, {"FIELD", "INDEX", "EVENT"})
    BY <2>1, DefinedHere
  <2>5. b + 2 \in 1..(b + 4) - 1 /\ b + 4 \in 1..(b + o) - 1
    BY <1>1, <2>1
  <2>6. OnTakesTable(w, b + 4)
    BY <2>3, <2>4, <2>5 DEF OnTakesTable
  <2> QED
    BY <2>2, <2>5, <2>6 DEF Occurs
<1>6. ASSUME NEW k \in 1..Len(s), IsAbout(s, k), o = Behind(s, k, "ONLY") PROVE Occurs(w, b + o)
  <2>1. s[k] \in TableWords
    BY <1>6 DEF IsAbout, StandsAt
  <2>2. SkipModifiers(w, b + k) = b + o
    <3>1. w \in Seq(AllWords)
      BY DEF Kept
    <3> QED
      BY <1>6, <2>1, <3>1, TableWordHere, AgreesWithItself
  <2>3. b + k \in 1..(b + o) - 1
    <3>1. o \in k + 1..Len(s)
      BY <1>1, <1>6, <2>1, TableWordForm
    <3> QED
      BY <1>1, <3>1
  <2>4. TakesTable(w, b + k)
    BY <2>1, TakesTableHere
  <2> QED
    BY <2>2, <2>3, <2>4 DEF Occurs
<1>7. TablesStand(s)
  BY <1>1, FormIsList
<1> QED
  BY <1>1, <1>2, <1>3, <1>4, <1>5, <1>6, <1>7 DEF TablesStand

\* The word that takes it stands in the same statement.
LEMMA TakenFrom ==
  ASSUME NEW w, NEW b, NEW s, Kept(w, b, s), NEW o \in 1..Len(s), NEW i \in 1..(b + o) - 1,
         TakesTable(w, i), SkipModifiers(w, i) = b + o
  PROVE  i - b \in 1..o - 1 /\ b + (i - b) = i /\ s[i - b] \in TableWords /\ o = Behind(s, i - b, "ONLY")
<1>1. /\ s \in KnownStatements /\ b \in Nat /\ o \in Nat /\ Len(s) \in Nat /\ Len(w) \in Nat /\ b + o <= Len(w) /\ i \in Nat
      /\ o \in 1..Len(s) /\ w \in Seq(AllWords)
  BY FormIsList, KeptPlace DEF Kept
<1>2. w[i] # Terminator
  <2>1. w[i] \in TableKeywords \cup {"INTO"}
    BY DEF TakesTable, KeywordAt
  <2>2. Terminator \notin TableKeywords \cup {"INTO"}
    BY Zenon DEF Terminator, TableKeywords
  <2> QED
    BY <2>1, <2>2
<1>3. i \in 1..Len(w) /\ i < b + o
  BY <1>1
<1>4. i - b \in 1..o - 1 /\ b + (i - b) = i
  BY <1>2, <1>3, SkipInside
<1>5. i - b \in 1..Len(s)
  BY <1>1, <1>4
<1>6. s[i - b] \in TableWords
  BY <1>4, <1>5, TakesTableHere
<1> DEFINE k == i - b
           q == Behind(s, k, "ONLY")
<1>7. SkipModifiers(w, b + k) = b + q
  <2> HIDE DEF k
  <2> QED
    BY <1>1, <1>5, <1>6, TableWordHere, AgreesWithItself DEF k
<1>8. q \in Nat
  <2> HIDE DEF k
  <2>1. k \in 1..Len(s) /\ s[k] \in TableWords
    BY <1>5, <1>6 DEF k
  <2>2. k \in Nat /\ q \in k + 1..Len(s)
    BY <1>1, <2>1, TableWordForm
  <2> QED
    BY <1>1, <2>2
<1> HIDE DEF q
<1>9. o = q
  BY <1>1, <1>4, <1>7, <1>8
<1> QED
  BY <1>4, <1>6, <1>9 DEF q

LEMMA OnTakenFrom ==
  ASSUME NEW w, NEW b, NEW s, Kept(w, b, s), NEW o \in 1..Len(s), NEW i \in 1..(b + o) - 1,
         OnTakesTable(w, i), SkipModifiers(w, i) = b + o
  PROVE  s[o] = "T" \/ (StandsAt(s, o - 1, {"ON"}) /\ s[o] \notin Symbols)
<1>1. /\ s \in KnownStatements /\ b \in Nat /\ o \in Nat /\ Len(s) \in Nat /\ Len(w) \in Nat /\ b + o <= Len(w) /\ i \in Nat
      /\ o \in 1..Len(s) /\ w \in Seq(AllWords) /\ DOMAIN s = 1..Len(s)
  BY FormIsList, KeptPlace DEF Kept
<1>2. w[i] = "ON"
  BY DEF OnTakesTable, KeywordAt
<1>3. w[i] # Terminator
  <2>1. "ON" # Terminator
    BY Zenon DEF Terminator
  <2> QED
    BY <1>2, <2>1
<1>4. i \in 1..Len(w) /\ i < b + o
  BY <1>1
<1>5. i - b \in 1..o - 1 /\ b + (i - b) = i
  BY <1>3, <1>4, SkipInside
<1> DEFINE k == i - b
<1>6. k \in 1..Len(s) /\ k \in Nat
  BY <1>1, <1>5
<1>7. s[k] = "ON"
  <2> HIDE DEF k
  <2>1. w[b + k] = "ON"
    BY <1>2, <1>5 DEF k
  <2> QED
    BY <1>6, <2>1, KeptWord, Compared
<1>8. b + k = i
  BY <1>5
<1> HIDE DEF k
<1>9. k < Len(s) /\ ((DefinesOn(s) /\ k = 4) \/ s[k + 1] \notin Symbols \cup {"ONLY", "TABLE"})
  BY <1>1, <1>6, <1>7, OnForm
<1>10. CASE DefinesOn(s) /\ k = 4
  <2>1. SkipModifiers(w, b + 4) = b + Behind(s, 4, "TABLE")
    BY <1>1, <1>10, DefinesOnHere, AgreesWithItself
  <2>2. Behind(s, 4, "TABLE") \in Nat /\ s[Behind(s, 4, "TABLE")] = "T"
    <3>1. Behind(s, 4, "TABLE") \in 5..Len(s) /\ s[Behind(s, 4, "TABLE")] = "T"
      BY <1>1, <1>10, DefinesOnForm
    <3> QED
      BY <1>1, <3>1
  <2>3. o = Behind(s, 4, "TABLE")
    BY <1>1, <1>8, <1>10, <2>1, <2>2
  <2> QED
    BY <2>2, <2>3
<1>11. CASE s[k + 1] \notin Symbols \cup {"ONLY", "TABLE"}
  <2>1. k + 1 \in k + 1..Len(s) /\ (\A j \in k + 1..(k + 1) - 1 : FALSE) /\ s[k + 1] \notin {"ONLY", "TABLE"}
    BY <1>1, <1>6, <1>9, <1>11
  <2>2. SkipModifiers(w, b + k) = b + (k + 1)
    BY <1>6, <2>1, SkipHere
  <2>3. o = k + 1 /\ o - 1 = k
    BY <1>1, <1>6, <1>8, <2>2
  <2> QED
    BY <1>1, <1>6, <1>7, <1>11, <2>3 DEF StandsAt
<1> QED
  BY <1>9, <1>10, <1>11

\* Nothing but tables, mistaken fields, FROM behind DELETE and a word behind
\* ON can occur.
LEMMA OccursForm ==
  ASSUME NEW w, NEW b, NEW s, Kept(w, b, s), NEW o \in 1..Len(s), Occurs(w, b + o), IsWord(w, b + o)
  PROVE  \/ s[o] \in {"T", "U"} \/ MistakenIn(s, o) \/ s[o] = "FROM"
         \/ StandsAt(s, o - 1, {"ON"}) /\ s[o] \notin Symbols
<1>1. /\ s \in KnownStatements /\ b \in Nat /\ o \in Nat /\ o > 0 /\ o <= Len(s) /\ Len(s) \in Nat /\ Len(w) \in Nat
      /\ b + o <= Len(w) /\ DOMAIN s = 1..Len(s) /\ w \in Seq(AllWords)
  BY FormIsList, KeptPlace DEF Kept
<1>2. s[o] \notin Punctuation
  BY WordHere
<1>n. b \in Nat /\ o \in Nat /\ o > 0 /\ o <= Len(s) /\ Len(s) \in Nat
  BY <1>1
<1>b. Terminator \notin {"TABLE", "DEFINE", "<", "RECORD"}
  BY Zenon DEF Terminator
<1>a. \A x \in {"TABLE", "DEFINE", "<", "RECORD"} : x \in ComparedWords /\ x # Terminator
  BY <1>b, Compared
<1>3. CASE KeywordAt(w, (b + o) - 1, {"TABLE"}) /\ KeywordAt(w, (b + o) - 2, {"DEFINE"})
  <2>a. o > 1 /\ s[o - 1] = "TABLE"
    BY <1>3, <1>a, KeywordJustBefore
  <2>1. o > 1 /\ s[o - 1] = "TABLE" /\ o - 1 \in 1..Len(s)
    BY <1>n, <2>a
  <2>2. KeywordAt(w, (b + (o - 1)) - 1, {"DEFINE"})
    <3>1. (b + (o - 1)) - 1 = (b + o) - 2
      BY <1>1
    <3> QED
      BY <1>3, <3>1
  <2>3. o - 1 > 1 /\ s[(o - 1) - 1] = "DEFINE"
    BY <1>a, <2>1, <2>2, KeywordJustBefore
  <2>4. o - 2 \in 1..Len(s) /\ (o - 1) - 1 = o - 2 /\ s[o - 2] = "DEFINE"
    BY <1>1, <2>1, <2>3
  <2>5. o - 2 = 1
    BY <1>1, <2>4, DefinitionForm
  <2>6. o = 3
    BY <1>1, <2>5
  <2>7. s[2] = "TABLE"
    BY <2>1, <2>6
  <2>8. 1 \in 1..Len(s) /\ s[1] = "DEFINE"
    BY <1>1, <2>4, <2>6
  <2>9. s[3] = "T"
    BY <1>1, <2>7, <2>8, DefinitionForm
  <2> QED
    BY <2>6, <2>9
<1>4. ASSUME NEW i \in 1..(b + o) - 1, TakesTable(w, i), SkipModifiers(w, i) = b + o
      PROVE  s[o] \in {"T", "FROM"} \/ MistakenIn(s, o)
  <2> DEFINE k == i - b
  <2>1. k \in 1..o - 1 /\ s[k] \in TableWords /\ o = Behind(s, k, "ONLY")
    BY <1>4, TakenFrom
  <2> HIDE DEF k
  <2>2. k \in 1..Len(s) /\ k \in Nat
    BY <1>1, <2>1
  <2>3. s[o] = "T" \/ s[o] = "FROM" \/ (o = k + 1 /\ s[o] = "F" /\ s[k] = "UPDATE")
    BY <1>1, <2>1, <2>2, TableWordForm
  <2>4. o = k + 1 => o - 1 = k
    BY <2>2
  <2> QED
    BY <1>1, <2>2, <2>3, <2>4 DEF MistakenIn, StandsAt
<1>5. ASSUME b + o > 2, w[(b + o) - 1] = "<", w[(b + o) - 2] = "RECORD" PROVE s[o] \in {"T", "U"}
  <2>c. b + o > 1
    BY <1>n, <1>5
  <2>a. o > 1 /\ s[o - 1] = "<"
    <3>1. "<" \in ComparedWords /\ "<" # Terminator
      BY <1>a
    <3> QED
      BY <1>5, <2>c, <3>1, WordJustBefore
  <2>1. o > 1 /\ s[o - 1] = "<" /\ o - 1 \in 1..Len(s)
    BY <1>n, <2>a
  <2>2. b + (o - 1) > 1 /\ w[(b + (o - 1)) - 1] = "RECORD"
    <3>1. (b + (o - 1)) - 1 = (b + o) - 2 /\ b + (o - 1) > 1
      BY <1>1, <1>5
    <3> QED
      BY <1>5, <3>1
  <2>3. o - 1 > 1 /\ s[(o - 1) - 1] = "RECORD"
    <3>1. "RECORD" \in ComparedWords /\ "RECORD" # Terminator
      BY <1>a
    <3> QED
      BY <2>1, <2>2, <3>1, WordJustBefore
  <2>4. o - 2 \in 1..Len(s) /\ s[o - 2] = "RECORD"
    <3>1. (o - 1) - 1 = o - 2 /\ o - 2 \in 1..Len(s)
      BY <1>1, <2>3
    <3> QED
      BY <2>3, <3>1
  <2>5. StandsAt(s, o - 1, {"<"}) /\ StandsAt(s, o - 2, {"RECORD"})
    BY <1>1, <2>1, <2>4 DEF StandsAt
  <2> QED
    BY <1>1, <2>5, FormIsList DEF TablesStand
<1>6. ASSUME b + o < Len(w), w[(b + o) + 1] = ":" PROVE s[o] \in {"T", "U"} \/ MistakenIn(s, o)
  <2>1. o # Len(s)
    <3>1. s[o] # Terminator
      BY <1>2 DEF Punctuation
    <3> QED
      BY <1>1, <3>1, FormIsList
  <2>2. o + 1 \in 1..Len(s) /\ (b + o) + 1 = b + (o + 1)
    BY <1>n, <2>1
  <2>3. s[o + 1] = ":"
    BY <1>6, <2>2, KeptWord, Compared
  <2>4. StandsAt(s, o + 1, {":"})
    BY <1>1, <2>2, <2>3 DEF StandsAt
  <2>5. s[o] \in {"T", "U", "F"}
    BY <1>1, <1>2, <2>4, FormIsList DEF TablesStand
  <2> QED
    BY <2>4, <2>5 DEF MistakenIn
<1>7. ASSUME NEW i \in 1..(b + o) - 1, OnTakesTable(w, i), SkipModifiers(w, i) = b + o
      PROVE  s[o] = "T" \/ (StandsAt(s, o - 1, {"ON"}) /\ s[o] \notin Symbols)
  BY <1>7, OnTakenFrom
<1> QED
  BY <1>3, <1>4, <1>5, <1>6, <1>7 DEF Occurs

-----------------------------------------------------------------------------
\* Texts.

Tables == TableNames \cup {NewName}
TextToken == [word : AllWords, role : {"table", "field", "other"},
          of : {NoSymbol, NewName} \cup {Strip(t) : t \in TableNames}, form : {"known", "other"}]

TableToken(word) == [word |-> word, role |-> "table", of |-> NoSymbol, form |-> "known"]
FieldToken(word, t) == [word |-> word, role |-> "field", of |-> Strip(t), form |-> "known"]
OtherToken(word) == [word |-> word, role |-> "other", of |-> NoSymbol, form |-> "known"]

\* Behind position b of text x stands statement s, typed with these names;
\* table r was renamed since, or none was.
Block(x, r, b, s, t, u, p, f) ==
  /\ s \in KnownStatements
  /\ b \in Nat /\ b + Len(s) <= Len(x) /\ (b = 0 \/ x[b].word = Terminator)
  /\ t \in Tables /\ u \in Tables /\ p \in TableNames /\ f \in FieldNames
  /\ \A o \in 1..Len(s) :
       /\ s[o] = "T" => x[b + o] = TableToken(t)
       /\ s[o] = "U" => x[b + o] = TableToken(u)
       /\ s[o] = "P" => x[b + o] = OtherToken(p)
       /\ s[o] = "F" => \/ x[b + o] = FieldToken(f, t)
                        \/ r # NoSymbol /\ MistakenIn(s, o) /\ x[b + o] = FieldToken(NewName, t)
       /\ s[o] \notin Symbols => x[b + o] = OtherToken(s[o])
  /\ Strip(p) = Strip(t) \/ (t = NewName /\ Strip(p) = r)
  /\ r = NoSymbol => t # NewName /\ u # NewName
  /\ r # NoSymbol => Strip(t) # r /\ Strip(u) # r

\* Every token of a statement of a known form stands in such a statement.
TextInv(x, r) ==
  /\ x \in Seq(TextToken)
  /\ Len(x) = 0 \/ x[Len(x)].word = Terminator
  /\ r \in {NoSymbol} \cup {Strip(t) : t \in TableNames}
  /\ r = NoSymbol => \A i \in 1..Len(x) : x[i].role = "table" => x[i].word \in TableNames
  /\ \A i \in 1..Len(x) : x[i].form = "known" => \E b, s, t, u, p, f : Block(x, r, b, s, t, u, p, f) /\ i \in b + 1..b + Len(s)

SearchInv == TextInv(searched, renamed)

LEMMA NamesStrip ==
  /\ \A t \in TableNames : /\ Strip(t) # NoSymbol /\ Strip(t) # NewName /\ t # NewName /\ Strip(t) \notin ComparedWords
                           /\ Strip(t) \notin BuiltinTables
  /\ Strip(NewName) = NewName /\ NewName # NoSymbol /\ NewName \notin BuiltinTables /\ NewName \notin ComparedWords
  /\ \A f \in FieldNames : f # NewName
  /\ \A x \in ComparedWords : Strip(x) = x
<1> DEFINE Old == "^t"
<1>1. /\ \A t \in TableNames : t \notin ComparedWords /\ Strip(t) # NoSymbol /\ Strip(t) # NewName /\ Strip(t) \notin BuiltinTables
      /\ NewName # Old /\ NewName # NoSymbol /\ NewName \notin BuiltinTables /\ NewName \notin ComparedWords
      /\ \A f \in FieldNames : f # NewName
  <2> HIDE DEF Old
  <2>1. /\ \A t \in TableNames : t \notin ComparedWords /\ Strip(t) \notin BuiltinTables \cup {NoSymbol, NewName}
        /\ NewName \notin ComparedWords \cup BuiltinTables \cup {NoSymbol, "FIELD", "INDEX", "EVENT", "INSERT", Old}
        /\ \A f \in FieldNames : f \notin ComparedWords \cup {"FIELD", "INDEX", "EVENT", NewName}
    BY SearchAssumption DEF Old
  <2> QED
    BY <2>1
<1>2. \A x : Strip(x) = IF x = Old THEN "t" ELSE x
  BY DEF Strip
<1>3. "t" \notin ComparedWords /\ Old \notin ComparedWords
  BY NamesDiffer DEF PlainNames
<1> HIDE DEF Old
<1> QED
  BY <1>1, <1>2, <1>3

LEMMA WordsAreWords ==
  ASSUME NEW x \in Seq(TextToken)
  PROVE  /\ Words(x) \in Seq(AllWords) /\ Len(Words(x)) = Len(x) /\ Len(x) \in Nat
         /\ DOMAIN x = 1..Len(x) /\ DOMAIN Words(x) = 1..Len(x)
         /\ \A i \in 1..Len(x) : Words(x)[i] = x[i].word /\ x[i] \in TextToken
<1>1. Len(x) \in Nat /\ DOMAIN x = 1..Len(x) /\ \A i \in 1..Len(x) : x[i] \in TextToken
  BY SMT
<1>2. \A i \in 1..Len(x) : x[i].word \in AllWords
  BY <1>1 DEF TextToken
<1>3. Words(x) = [i \in 1..Len(x) |-> x[i].word]
  BY <1>1 DEF Words
<1>4. Words(x) \in [1..Len(x) -> AllWords]
  BY <1>2, <1>3
<1>5. Words(x) \in Seq(AllWords) /\ Len(Words(x)) = Len(x)
  BY <1>1, <1>4
<1> QED
  BY <1>1, <1>3, <1>4, <1>5

\* Such a statement is kept in the words of its text.
LEMMA BlockKept ==
  ASSUME NEW x \in Seq(TextToken), NEW r, NEW b, NEW s, NEW t, NEW u, NEW p, NEW f, Block(x, r, b, s, t, u, p, f)
  PROVE  Kept(Words(x), b, s)
<1>1. /\ Words(x) \in Seq(AllWords) /\ Len(Words(x)) = Len(x) /\ Len(x) \in Nat
      /\ \A i \in 1..Len(x) : Words(x)[i] = x[i].word
  BY WordsAreWords
<1>2. /\ s \in KnownStatements /\ Len(s) \in Nat /\ b \in Nat /\ b + Len(s) <= Len(x) /\ (b = 0 \/ x[b].word = Terminator)
      /\ t \in Names /\ u \in Names /\ p \in Names /\ f \in Names /\ NewName \in Names
  BY FormIsList DEF Block, Tables, Names
<1>3. b = 0 \/ Words(x)[b] = Terminator
  <2>1. b # 0 => b \in 1..Len(x)
    BY <1>1, <1>2
  <2> QED
    BY <1>1, <1>2, <2>1
<1>4. ASSUME NEW o \in 1..Len(s)
      PROVE  IF s[o] \in Symbols THEN Words(x)[b + o] \in Names ELSE Words(x)[b + o] = s[o]
  <2>1. b + o \in 1..Len(x)
    BY <1>1, <1>2
  <2>2. /\ s[o] = "T" => x[b + o] = TableToken(t)
        /\ s[o] = "U" => x[b + o] = TableToken(u)
        /\ s[o] = "P" => x[b + o] = OtherToken(p)
        /\ s[o] = "F" => x[b + o] = FieldToken(f, t) \/ x[b + o] = FieldToken(NewName, t)
        /\ s[o] \notin Symbols => x[b + o] = OtherToken(s[o])
    BY DEF Block
  <2>3. /\ s[o] \in Symbols => x[b + o].word \in Names
        /\ s[o] \notin Symbols => x[b + o].word = s[o]
    BY <1>2, <2>2 DEF Symbols, TableToken, OtherToken, FieldToken
  <2> QED
    BY <1>1, <2>1, <2>3
<1> QED
  BY <1>1, <1>2, <1>3, <1>4 DEF Kept

\* The roles of its tokens.
LEMMA BlockTokens ==
  ASSUME NEW x \in Seq(TextToken), NEW r, NEW b, NEW s, NEW t, NEW u, NEW p, NEW f, Block(x, r, b, s, t, u, p, f),
         NEW o \in 1..Len(s)
  PROVE  /\ b + o \in 1..Len(x) /\ Words(x)[b + o] = x[b + o].word /\ x[b + o].form = "known"
         /\ x[b + o].role = "table" <=> s[o] \in {"T", "U"}
         /\ x[b + o].role = "field" <=> s[o] = "F"
         /\ s[o] = "T" => x[b + o].word = t
         /\ s[o] = "U" => x[b + o].word = u
         /\ s[o] = "P" => x[b + o].word = p
         /\ s[o] = "F" => x[b + o].of = Strip(t) /\ x[b + o].word \in {f, NewName}
         /\ s[o] \notin Symbols => x[b + o].word = s[o]
<1>1. b + o \in 1..Len(x) /\ Words(x)[b + o] = x[b + o].word
  BY BlockKept, KeptPlace, WordsAreWords
<1>2. /\ s[o] = "T" => x[b + o] = TableToken(t)
      /\ s[o] = "U" => x[b + o] = TableToken(u)
      /\ s[o] = "P" => x[b + o] = OtherToken(p)
      /\ s[o] = "F" => x[b + o] = FieldToken(f, t) \/ x[b + o] = FieldToken(NewName, t)
      /\ s[o] \notin Symbols => x[b + o] = OtherToken(s[o])
  BY DEF Block
<1>a. \A y, z : TableToken(y).form = "known" /\ FieldToken(y, z).form = "known" /\ OtherToken(y).form = "known"
  BY DEF TableToken, FieldToken, OtherToken
<1>3. /\ TableToken(t).role = "table" /\ TableToken(t).word = t /\ TableToken(u).role = "table" /\ TableToken(u).word = u
      /\ OtherToken(p).role = "other" /\ OtherToken(p).word = p
      /\ OtherToken(s[o]).role = "other" /\ OtherToken(s[o]).word = s[o]
      /\ FieldToken(f, t).role = "field" /\ FieldToken(f, t).word = f /\ FieldToken(f, t).of = Strip(t)
      /\ FieldToken(NewName, t).role = "field" /\ FieldToken(NewName, t).word = NewName /\ FieldToken(NewName, t).of = Strip(t)
  BY DEF TableToken, OtherToken, FieldToken
<1>4. CASE s[o] \in Symbols
  BY <1>1, <1>2, <1>3, <1>4, <1>a DEF Symbols
<1>5. CASE s[o] \notin Symbols
  <2>1. s[o] \notin {"T", "U", "P", "F"}
    BY <1>5 DEF Symbols
  <2> QED
    BY <1>1, <1>2, <1>3, <1>5, <1>a, <2>1
<1> QED
  BY <1>4, <1>5

LEMMA TypedToken ==
  ASSUME NEW s \in SearchedStatements, NEW o \in 1..Len(s), NEW t \in TableNames, NEW u \in TableNames, NEW f \in FieldNames
  PROVE  LET new == Typed(s[o], t, u, f, FormOf(s))
         IN  /\ new \in TextToken
             /\ new.role = "table" => new.word \in TableNames
             /\ s[o] \notin Symbols => new.word = s[o]
             /\ new.form = "known" => s \in KnownStatements
             /\ s \in KnownStatements =>
                  /\ s[o] = "T" => new = TableToken(t)
                  /\ s[o] = "U" => new = TableToken(u)
                  /\ s[o] = "P" => new = OtherToken(t)
                  /\ s[o] = "F" => new = FieldToken(f, t)
                  /\ s[o] \notin Symbols => new = OtherToken(s[o])
<1> DEFINE form == FormOf(s)
           Entry(word, role, of) == [word |-> word, role |-> role, of |-> of, form |-> form]
           new == Typed(s[o], t, u, f, form)
<1>1. new = IF s[o] = "T" THEN Entry(t, "table", NoSymbol) ELSE IF s[o] = "U" THEN Entry(u, "table", NoSymbol)
            ELSE IF s[o] = "F" THEN Entry(f, "field", Strip(t)) ELSE IF s[o] = "P" THEN Entry(t, "other", NoSymbol)
            ELSE Entry(s[o], "other", NoSymbol)
  BY DEF Typed
<1>2. s[o] \in Symbols \/ s[o] \in AllWords
  <2>1. o \in DOMAIN s
    BY StatementIsList
  <2>2. s[o] \in Range(s)
    BY <2>1 DEF Range
  <2>3. s[o] \in UNION {Range(q) : q \in SearchedStatements}
    BY <2>2
  <2>4. s[o] \notin Symbols => s[o] \in OtherWords
    BY <2>3, Zenon DEF OtherWords
  <2> QED
    BY <2>4 DEF AllWords
<1>3. {t, u, f} \subseteq AllWords
  BY DEF AllWords, Names
<1>4. form \in {"known", "other"} /\ (form = "known" <=> s \in KnownStatements)
  BY DEF FormOf, KnownStatements
<1> HIDE DEF form
<1>5. \A y \in AllWords : Entry(y, "table", NoSymbol) \in TextToken /\ Entry(y, "other", NoSymbol) \in TextToken
                          /\ Entry(y, "field", Strip(t)) \in TextToken
  BY <1>4 DEF TextToken
<1>6. \A y, role, of : LET k == Entry(y, role, of) IN k.word = y /\ k.role = role /\ k.form = form
  OBVIOUS
<1>7. form = "known" => \A y : /\ Entry(y, "table", NoSymbol) = TableToken(y) /\ Entry(y, "other", NoSymbol) = OtherToken(y)
                               /\ Entry(y, "field", Strip(t)) = FieldToken(y, t)
  BY DEF TableToken, FieldToken, OtherToken
<1>8. \A y : y \in Symbols <=> y \in {"T", "U", "F", "P"}
  BY DEF Symbols
<1>9. new.form = form
  BY <1>1, <1>6
<1>10. new \in TextToken
  BY <1>1, <1>2, <1>3, <1>5, <1>8
<1>11. (new.role = "table" => new.word \in TableNames) /\ (s[o] \notin Symbols => new.word = s[o])
  BY <1>1, <1>6, <1>8
<1>12. form = "known" =>
         /\ s[o] = "T" => new = TableToken(t)
         /\ s[o] = "U" => new = TableToken(u)
         /\ s[o] = "P" => new = OtherToken(t)
         /\ s[o] = "F" => new = FieldToken(f, t)
         /\ s[o] \notin Symbols => new = OtherToken(s[o])
  BY <1>1, <1>7, <1>8
<1> HIDE DEF new
<1>13. /\ new \in TextToken
       /\ new.role = "table" => new.word \in TableNames
       /\ s[o] \notin Symbols => new.word = s[o]
       /\ new.form = "known" => s \in KnownStatements
       /\ s \in KnownStatements =>
            /\ s[o] = "T" => new = TableToken(t)
            /\ s[o] = "U" => new = TableToken(u)
            /\ s[o] = "P" => new = OtherToken(t)
            /\ s[o] = "F" => new = FieldToken(f, t)
            /\ s[o] \notin Symbols => new = OtherToken(s[o])
  BY <1>4, <1>9, <1>10, <1>11, <1>12
<1> QED
  BY <1>13 DEF new, form

LEMMA TypingKeeps ==
  ASSUME SearchInv, TypeStatement
  PROVE  SearchInv'
<1>1. renamed = NoSymbol /\ renamed' = NoSymbol
  BY DEF TypeStatement
<1>2. PICK s \in SearchedStatements, t \in TableNames, u \in TableNames, f \in FieldNames :
        searched' = searched \o [i \in DOMAIN s |-> Typed(s[i], t, u, f, FormOf(s))]
  BY DEF TypeStatement
<1> DEFINE new == [i \in DOMAIN s |-> Typed(s[i], t, u, f, FormOf(s))]
           n == Len(searched)
<1>3. Len(s) \in Nat /\ Len(s) > 0 /\ DOMAIN s = 1..Len(s)
  BY StatementIsList
<1>4. new \in [1..Len(s) -> TextToken]
  <2>1. \A i \in 1..Len(s) : Typed(s[i], t, u, f, FormOf(s)) \in TextToken
    BY TypedToken
  <2> QED
    BY <1>3, <2>1
<1>5. new \in Seq(TextToken) /\ Len(new) = Len(s) /\ DOMAIN new = 1..Len(s)
  <2> HIDE DEF new
  <2>1. DOMAIN new = 1..Len(s)
    BY <1>4
  <2> QED
    BY <1>3, <1>4, <2>1
<1>6. searched \in Seq(TextToken) /\ n \in Nat
  BY DEF SearchInv, TextInv
<1>7. /\ searched' \in Seq(TextToken) /\ Len(searched') = n + Len(s)
      /\ \A i \in 1..n : searched'[i] = searched[i]
      /\ \A o \in 1..Len(s) : searched'[n + o] = Typed(s[o], t, u, f, FormOf(s))
  <2>1. \A o \in 1..Len(s) : new[o] = Typed(s[o], t, u, f, FormOf(s))
    BY <1>3
  <2> HIDE DEF new
  <2>2. searched' = searched \o new
    BY <1>2 DEF new
  <2>a. searched' \in Seq(TextToken)
    BY <1>5, <1>6, <2>2
  <2>c. new \in Seq(TextToken) /\ searched \in Seq(TextToken)
    BY <1>5, <1>6
  <2>d. Len(searched \o new) = Len(searched) + Len(new)
    BY <2>c
  <2>b. Len(searched') = Len(searched) + Len(new)
    BY <2>2, <2>d
  <2>3. searched' \in Seq(TextToken) /\ Len(searched') = n + Len(s)
    BY <1>5, <2>a, <2>b
  <2>4. \A i \in 1..n : searched'[i] = searched[i]
    BY <1>3, <1>5, <1>6, <2>2
  <2>5. \A o \in 1..Len(s) : searched'[n + o] = new[o]
    BY <1>3, <1>5, <1>6, <2>2
  <2> QED
    BY <2>1, <2>3, <2>4, <2>5
<1> HIDE DEF new
<1>8. ASSUME NEW i \in 1..n, searched'[i].form = "known"
      PROVE  \E c, q, t1, u1, p1, f1 : Block(searched', NoSymbol, c, q, t1, u1, p1, f1) /\ i \in c + 1..c + Len(q)
  <2>1. PICK c, q, t1, u1, p1, f1 : Block(searched, NoSymbol, c, q, t1, u1, p1, f1) /\ i \in c + 1..c + Len(q)
    BY <1>1, <1>7, <1>8 DEF SearchInv, TextInv
  <2>2. q \in KnownStatements /\ c \in Nat /\ c + Len(q) <= n /\ Len(q) \in Nat
    BY <2>1, FormIsList DEF Block
  <2>3. c + Len(q) <= Len(searched')
    BY <1>3, <1>6, <1>7, <2>2
  <2>4. c # 0 => c \in 1..n
    BY <1>6, <2>2
  <2>5. \A o \in 1..Len(q) : c + o \in 1..n
    BY <1>6, <2>2
  <2>6. (c # 0 => searched'[c] = searched[c]) /\ \A o \in 1..Len(q) : searched'[c + o] = searched[c + o]
    BY <1>7, <2>4, <2>5
  <2>7. Block(searched', NoSymbol, c, q, t1, u1, p1, f1)
    BY <2>1, <2>3, <2>6 DEF Block
  <2> QED
    BY <2>1, <2>7
<1>9. n = 0 \/ searched[n].word = Terminator
  BY DEF SearchInv, TextInv
<1>10. ASSUME s \in KnownStatements PROVE Block(searched', NoSymbol, n, s, t, u, t, f)
  <2>1. n = 0 \/ searched'[n].word = Terminator
    <3>1. n # 0 => n \in 1..n
      BY <1>6
    <3> QED
      BY <1>7, <1>9, <3>1
  <2>2. t \in Tables /\ u \in Tables /\ t # NewName /\ u # NewName
    BY NamesStrip DEF Tables
  <2>3. \A o \in 1..Len(s) :
          /\ s[o] = "T" => searched'[n + o] = TableToken(t)
          /\ s[o] = "U" => searched'[n + o] = TableToken(u)
          /\ s[o] = "P" => searched'[n + o] = OtherToken(t)
          /\ s[o] = "F" => searched'[n + o] = FieldToken(f, t)
          /\ s[o] \notin Symbols => searched'[n + o] = OtherToken(s[o])
    BY <1>7, <1>10, TypedToken
  <2>4. n + Len(s) <= Len(searched')
    BY <1>3, <1>6, <1>7
  <2> QED
    BY <1>6, <1>10, <2>1, <2>2, <2>3, <2>4 DEF Block
<1>11. ASSUME NEW i \in 1..Len(searched'), searched'[i].form = "known"
       PROVE  \E c, q, t1, u1, p1, f1 : Block(searched', NoSymbol, c, q, t1, u1, p1, f1) /\ i \in c + 1..c + Len(q)
  <2>1. CASE i \in 1..n
    BY <1>8, <1>11, <2>1
  <2>2. CASE i \notin 1..n
    <3>1. i \in n + 1..n + Len(s)
      BY <1>3, <1>6, <1>7, <2>2
    <3>2. PICK o \in 1..Len(s) : i = n + o
      <4>1. i - n \in 1..Len(s) /\ i = n + (i - n)
        BY <1>3, <1>6, <3>1
      <4> QED
        BY <4>1
    <3>3. s \in KnownStatements
      BY <1>7, <1>11, <3>2, TypedToken
    <3> QED
      BY <1>10, <3>1, <3>3
  <2> QED
    BY <2>1, <2>2
<1>12. ASSUME NEW i \in 1..Len(searched'), searched'[i].role = "table" PROVE searched'[i].word \in TableNames
  <2>1. CASE i \in 1..n
    BY <1>1, <1>7, <1>12, <2>1 DEF SearchInv, TextInv
  <2>2. CASE i \notin 1..n
    <3>1. PICK o \in 1..Len(s) : i = n + o
      <4>1. i - n \in 1..Len(s) /\ i = n + (i - n)
        BY <1>3, <1>6, <1>7, <2>2
      <4> QED
        BY <4>1
    <3> QED
      BY <1>7, <1>12, <3>1, TypedToken
  <2> QED
    BY <2>1, <2>2
<1>13. searched'[Len(searched')].word = Terminator
  <2>1. Len(s) \in 1..Len(s) /\ s[Len(s)] = Terminator
    BY <1>3, StatementIsList
  <2>2. s[Len(s)] \notin Symbols
    BY <2>1, NamesDiffer, Compared
  <2> QED
    BY <1>7, <2>1, <2>2, TypedToken
<1> QED
  BY <1>1, <1>7, <1>11, <1>12, <1>13 DEF SearchInv, TextInv

\* The tables of a text.
LEMMA TextTables ==
  ASSUME SearchInv, NEW i \in HasRole("table")
  PROVE  \E t \in Tables : NameOf(i) = Strip(t) /\ (renamed = NoSymbol => t # NewName) /\ (renamed # NoSymbol => Strip(t) # renamed)
<1>1. searched \in Seq(TextToken) /\ i \in 1..Len(searched) /\ searched[i].role = "table" /\ searched[i].form = "known"
  BY WordsAreWords DEF SearchInv, TextInv, HasRole, Standing
<1>2. PICK b, s, t, u, p, f : Block(searched, renamed, b, s, t, u, p, f) /\ i \in b + 1..b + Len(s)
  BY <1>1 DEF SearchInv, TextInv
<1>3. b \in Nat /\ Len(s) \in Nat /\ s \in KnownStatements
  BY <1>2, FormIsList DEF Block
<1>4. i - b \in 1..Len(s) /\ b + (i - b) = i
  BY <1>1, <1>2, <1>3
<1>5. \/ s[i - b] = "T" /\ searched[i].word = t
      \/ s[i - b] = "U" /\ searched[i].word = u
  BY <1>1, <1>2, <1>4, BlockTokens
<1> QED
  BY <1>2, <1>5 DEF Block, NameOf

\* What a renaming changes in a statement.
LEMMA RenamedBlock ==
  ASSUME NEW x \in Seq(TextToken), NEW b, NEW s, NEW t, NEW u, NEW p, NEW f, Block(x, NoSymbol, b, s, t, u, p, f),
         NEW t0 \in TableNames, NEW y, Len(y) = Len(x),
         \A i \in 1..Len(x) :
           y[i] = [word |-> IF i \in Occurrences(Words(x), Strip(t0)) THEN NewName ELSE Words(x)[i],
                   role |-> x[i].role, form |-> x[i].form, of |-> IF x[i].of = Strip(t0) THEN NewName ELSE x[i].of]
  PROVE  Block(y, Strip(t0), b, s, IF Strip(t) = Strip(t0) THEN NewName ELSE t,
               IF Strip(u) = Strip(t0) THEN NewName ELSE u, p, f)
<1> DEFINE r == Strip(t0)
           t1 == IF Strip(t) = r THEN NewName ELSE t
           u1 == IF Strip(u) = r THEN NewName ELSE u
           w == Words(x)
           new(i, k) == [word |-> IF i \in Occurrences(w, r) THEN NewName ELSE k.word,
                         role |-> k.role, form |-> k.form, of |-> IF k.of = r THEN NewName ELSE k.of]
<1>1. Kept(w, b, s) /\ w \in Seq(AllWords) /\ DOMAIN w = 1..Len(x)
  BY BlockKept, WordsAreWords
<1>2. /\ s \in KnownStatements /\ b \in Nat /\ b + Len(s) <= Len(x) /\ (b = 0 \/ x[b].word = Terminator)
      /\ t \in TableNames /\ u \in TableNames /\ p \in TableNames /\ f \in FieldNames /\ Strip(p) = Strip(t)
      /\ Len(s) \in Nat /\ Len(x) \in Nat
  BY FormIsList, WordsAreWords DEF Block, Tables
<1>3. /\ r # NoSymbol /\ r # NewName /\ r \notin ComparedWords
      /\ t1 \in Tables /\ u1 \in Tables /\ Strip(t1) # r /\ Strip(u1) # r
      /\ Strip(t) = r => Strip(t1) = NewName
      /\ Strip(t) # r => t1 = t
  <2>1. r # NoSymbol /\ r # NewName /\ r \notin ComparedWords
    BY NamesStrip
  <2>2. Strip(NewName) = NewName
    BY NamesStrip
  <2> HIDE DEF r
  <2> QED
    BY <1>2, <2>1, <2>2 DEF Tables
<1>4. ASSUME NEW o \in 1..Len(s)
      PROVE  /\ b + o \in 1..Len(x)
             /\ b + o \in Occurrences(w, r) <=> IsWord(w, b + o) /\ Strip(x[b + o].word) = r /\ Occurs(w, b + o)
             /\ y[b + o] = new(b + o, x[b + o])
  <2>1. b + o \in 1..Len(x) /\ w[b + o] = x[b + o].word
    BY BlockTokens
  <2>2. y[b + o] = new(b + o, x[b + o])
    BY <2>1
  <2>3. b + o \in Occurrences(w, r) <=> IsWord(w, b + o) /\ Strip(x[b + o].word) = r /\ Occurs(w, b + o)
    <3> HIDE DEF w, r
    <3> QED
      BY <1>1, <2>1 DEF Occurrences
  <2> QED
    BY <2>1, <2>2, <2>3
<1>5. \A i, z, role, of, form :
        LET k == [word |-> z, role |-> role, of |-> of, form |-> form]
        IN  new(i, k) = [word |-> IF i \in Occurrences(w, r) THEN NewName ELSE z, role |-> role, form |-> form,
                         of |-> IF of = r THEN NewName ELSE of]
  OBVIOUS
<1> HIDE DEF r, w, new
<1>6. ASSUME NEW o \in 1..Len(s), s[o] \in {"T", "U"}
      PROVE  (s[o] = "T" => y[b + o] = TableToken(t1)) /\ (s[o] = "U" => y[b + o] = TableToken(u1))
  <2>1. Occurs(w, b + o) /\ IsWord(w, b + o)
    BY <1>1, <1>6, TableOccurs
  <2>2. (s[o] = "T" => x[b + o] = TableToken(t)) /\ (s[o] = "U" => x[b + o] = TableToken(u))
    BY DEF Block
  <2>3. CASE s[o] = "T"
    <3>1. b + o \in Occurrences(w, r) <=> Strip(t) = r
      BY <1>4, <2>1, <2>2, <2>3 DEF TableToken
    <3>2. y[b + o] = [word |-> IF b + o \in Occurrences(w, r) THEN NewName ELSE t, role |-> "table", form |-> "known",
                      of |-> IF NoSymbol = r THEN NewName ELSE NoSymbol]
      BY <1>4, <1>5, <2>2, <2>3 DEF TableToken
    <3> QED
      BY <1>3, <2>3, <3>1, <3>2 DEF TableToken
  <2>4. CASE s[o] = "U"
    <3>1. b + o \in Occurrences(w, r) <=> Strip(u) = r
      BY <1>4, <2>1, <2>2, <2>4 DEF TableToken
    <3>2. y[b + o] = [word |-> IF b + o \in Occurrences(w, r) THEN NewName ELSE u, role |-> "table", form |-> "known",
                      of |-> IF NoSymbol = r THEN NewName ELSE NoSymbol]
      BY <1>4, <1>5, <2>2, <2>4 DEF TableToken
    <3> QED
      BY <1>3, <2>4, <3>1, <3>2 DEF TableToken
  <2> QED
    BY <1>6, <2>3, <2>4
<1>7. ASSUME NEW o \in 1..Len(s), s[o] = "P" PROVE y[b + o] = OtherToken(p)
  <2>1. x[b + o] = OtherToken(p)
    BY <1>7 DEF Block
  <2>2. b + o \notin Occurrences(w, r)
    <3> SUFFICES ASSUME Occurs(w, b + o), IsWord(w, b + o) PROVE FALSE
      BY <1>4
    <3>1. \/ s[o] \in {"T", "U"} \/ MistakenIn(s, o) \/ s[o] = "FROM" \/ s[o] \notin Symbols
      BY <1>1, OccursForm
    <3> QED
      BY <1>7, <3>1 DEF MistakenIn, Symbols
  <2>3. y[b + o] = [word |-> p, role |-> "other", form |-> "known", of |-> IF NoSymbol = r THEN NewName ELSE NoSymbol]
    BY <1>4, <1>5, <2>1, <2>2 DEF OtherToken
  <2> QED
    BY <1>3, <2>3 DEF OtherToken
<1>8. ASSUME NEW o \in 1..Len(s), s[o] = "F"
      PROVE  y[b + o] = FieldToken(f, t1) \/ (MistakenIn(s, o) /\ y[b + o] = FieldToken(NewName, t1))
  <2>1. x[b + o] = FieldToken(f, t)
    BY <1>8 DEF Block
  <2>2. b + o \in Occurrences(w, r) => MistakenIn(s, o)
    <3> SUFFICES ASSUME Occurs(w, b + o), IsWord(w, b + o) PROVE MistakenIn(s, o)
      BY <1>4
    <3>1. \/ s[o] \in {"T", "U"} \/ MistakenIn(s, o) \/ s[o] = "FROM" \/ s[o] \notin Symbols
      BY <1>1, OccursForm
    <3> QED
      BY <1>8, <3>1 DEF Symbols
  <2>3. y[b + o] = [word |-> IF b + o \in Occurrences(w, r) THEN NewName ELSE f, role |-> "field", form |-> "known",
                    of |-> IF Strip(t) = r THEN NewName ELSE Strip(t)]
    BY <1>4, <1>5, <2>1 DEF FieldToken
  <2>4. (IF Strip(t) = r THEN NewName ELSE Strip(t)) = Strip(t1)
    BY <1>3
  <2> QED
    BY <2>2, <2>3, <2>4 DEF FieldToken
<1>9. ASSUME NEW o \in 1..Len(s), s[o] \notin Symbols PROVE y[b + o] = OtherToken(s[o])
  <2>1. x[b + o] = OtherToken(s[o])
    BY <1>9 DEF Block
  <2>2. b + o \notin Occurrences(w, r)
    <3> SUFFICES ASSUME Occurs(w, b + o), IsWord(w, b + o), Strip(s[o]) = r PROVE FALSE
      BY <1>4, <2>1 DEF OtherToken
    <3>1. s[o] = "FROM" \/ StandsAt(s, o - 1, {"ON"})
      <4>1. \/ s[o] \in {"T", "U"} \/ MistakenIn(s, o) \/ s[o] = "FROM" \/ StandsAt(s, o - 1, {"ON"})
        BY <1>1, OccursForm
      <4> QED
        BY <1>9, <4>1 DEF MistakenIn, Symbols
    <3>2. s[o] # "FROM"
      <4>1. "FROM" \in ComparedWords
        BY Compared
      <4> QED
        BY <1>3, <4>1, NamesStrip
    <3>3. o \in DOMAIN s
      BY <1>2, FormIsList
    <3>4. Strip(s[o]) # Strip(t0)
      BY <1>2, <1>9, <3>1, <3>2, <3>3, FormIsList DEF OthersStand
    <3> QED
      BY <3>4 DEF r
  <2>3. y[b + o] = [word |-> s[o], role |-> "other", form |-> "known", of |-> IF NoSymbol = r THEN NewName ELSE NoSymbol]
    BY <1>4, <1>5, <2>1, <2>2 DEF OtherToken
  <2> QED
    BY <1>3, <2>3 DEF OtherToken
<1>10. b = 0 \/ y[b].word = Terminator
  <2> SUFFICES ASSUME b # 0 PROVE y[b].word = Terminator
    OBVIOUS
  <2>1. b \in 1..Len(x) /\ x[b].word = Terminator /\ x[b] \in TextToken
    BY <1>2, WordsAreWords
  <2>2. w[b] = Terminator
    BY <2>1, WordsAreWords DEF w
  <2>3. b \notin Occurrences(w, r)
    BY <2>2 DEF Occurrences, IsWord, Punctuation
  <2>4. y[b] = new(b, x[b])
    <3>1. b \in 1..Len(x) /\ Words(x)[b] = x[b].word
      BY <2>1, WordsAreWords
    <3> QED
      BY <3>1 DEF new, w, r
  <2>5. new(b, x[b]).word = x[b].word
    BY <2>1, <2>3 DEF new, TextToken
  <2> QED
    BY <2>1, <2>4, <2>5
<1>11. Strip(p) = Strip(t1) \/ (t1 = NewName /\ Strip(p) = r)
  BY <1>2, <1>3
<1>12. r # NoSymbol => Strip(t1) # r /\ Strip(u1) # r
  BY <1>3
<1>13. r = NoSymbol => t1 # NewName /\ u1 # NewName
  BY <1>3
<1> HIDE DEF t1, u1
<1>14. Block(y, r, b, s, t1, u1, p, f)
  BY <1>2, <1>3, <1>6, <1>7, <1>8, <1>9, <1>10, <1>11, <1>12, <1>13 DEF Block
<1> QED
  BY <1>14 DEF r, t1, u1

LEMMA RenamingKeeps ==
  ASSUME SearchInv, RenameTable
  PROVE  SearchInv'
<1> DEFINE x == searched
           n == Len(searched)
<1>1. renamed = NoSymbol /\ x \in Seq(TextToken)
  BY DEF RenameTable, SearchInv, TextInv
<1>2. PICK c \in DOMAIN x :
        /\ WordAt(Words(x), c) \in SchemaTables /\ renamed' = WordAt(Words(x), c)
        /\ searched' = [i \in DOMAIN Words(x) |->
             [word |-> IF i \in Occurrences(Words(x), WordAt(Words(x), c)) THEN NewName ELSE Words(x)[i],
              role |-> x[i].role, form |-> x[i].form,
              of |-> IF x[i].of = WordAt(Words(x), c) THEN NewName ELSE x[i].of]]
  BY DEF RenameTable
<1>3. PICK t0 \in TableNames : WordAt(Words(x), c) = Strip(t0)
  <2>1. PICK i \in AllTables : WordAt(Words(x), c) = NameOf(i)
    BY <1>2 DEF SchemaTables
  <2>2. i \in 1..Len(x) /\ x[i].role = "table"
    BY <1>1, WordsAreWords DEF AllTables
  <2>3. x[i].word \in TableNames
    BY <1>1, <2>2 DEF SearchInv, TextInv
  <2> QED
    BY <2>1, <2>3 DEF NameOf
<1>4. n \in Nat /\ DOMAIN Words(x) = 1..n /\ \A i \in 1..n : Words(x)[i] = x[i].word /\ x[i] \in TextToken
  BY <1>1, WordsAreWords
<1>5. /\ renamed' = Strip(t0)
      /\ searched' = [i \in 1..n |->
             [word |-> IF i \in Occurrences(Words(x), Strip(t0)) THEN NewName ELSE Words(x)[i],
              role |-> x[i].role, form |-> x[i].form, of |-> IF x[i].of = Strip(t0) THEN NewName ELSE x[i].of]]
  BY <1>2, <1>3, <1>4
<1>6. \A i \in 1..n : searched'[i] = [word |-> IF i \in Occurrences(Words(x), Strip(t0)) THEN NewName ELSE Words(x)[i],
                                      role |-> x[i].role, form |-> x[i].form, of |-> IF x[i].of = Strip(t0) THEN NewName ELSE x[i].of]
  BY <1>5
<1>7. \A i \in 1..n : searched'[i] \in TextToken
  <2> SUFFICES ASSUME NEW i \in 1..n PROVE searched'[i] \in TextToken
    OBVIOUS
  <2>1. x[i] \in TextToken /\ Words(x)[i] = x[i].word
    BY <1>4
  <2>2. NewName \in AllWords
    BY DEF AllWords, Names
  <2> DEFINE Owners == {NoSymbol, NewName} \cup {Strip(t) : t \in TableNames}
             Spelling == IF i \in Occurrences(Words(x), Strip(t0)) THEN NewName ELSE Words(x)[i]
             Owner == IF x[i].of = Strip(t0) THEN NewName ELSE x[i].of
  <2>3. x[i].word \in AllWords /\ x[i].role \in {"table", "field", "other"} /\ x[i].of \in Owners
      /\ x[i].form \in {"known", "other"}
    BY <2>1 DEF TextToken
  <2>4. Spelling \in AllWords /\ Owner \in Owners
    BY <2>1, <2>2, <2>3
  <2>5. searched'[i] = [word |-> Spelling, role |-> x[i].role, form |-> x[i].form, of |-> Owner]
    BY <1>6
  <2> HIDE DEF Owners, Spelling, Owner
  <2>6. searched'[i] \in [word : AllWords, role : {"table", "field", "other"}, form : {"known", "other"}, of : Owners]
    BY <2>3, <2>4, <2>5
  <2> QED
    BY <2>6 DEF TextToken, Owners
<1>8. DOMAIN searched' = 1..n
  BY <1>5
<1>9. searched' \in [1..n -> TextToken]
  BY <1>5, <1>7, <1>8
<1>10. searched' \in Seq(TextToken) /\ Len(searched') = n
  BY <1>4, <1>9
<1>11. ASSUME NEW i \in 1..n, searched'[i].form = "known"
       PROVE  \E b, s, t, u, p, f : Block(searched', Strip(t0), b, s, t, u, p, f) /\ i \in b + 1..b + Len(s)
  <2>1. PICK b, s, t, u, p, f : Block(x, NoSymbol, b, s, t, u, p, f) /\ i \in b + 1..b + Len(s)
    <3>1. x[i].form = "known"
      <4>1. searched'[i] = [word |-> IF i \in Occurrences(Words(x), Strip(t0)) THEN NewName ELSE Words(x)[i],
                            role |-> x[i].role, form |-> x[i].form, of |-> IF x[i].of = Strip(t0) THEN NewName ELSE x[i].of]
        BY <1>6
      <4>2. searched'[i].form = x[i].form
        BY <4>1
      <4> QED
        BY <1>11, <4>2
    <3> QED
      BY <1>1, <3>1 DEF SearchInv, TextInv
  <2>2. Block(searched', Strip(t0), b, s, IF Strip(t) = Strip(t0) THEN NewName ELSE t,
              IF Strip(u) = Strip(t0) THEN NewName ELSE u, p, f)
    BY <1>1, <1>6, <1>10, <2>1, RenamedBlock
  <2> QED
    BY <2>1, <2>2
<1>12. Len(searched') = 0 \/ searched'[Len(searched')].word = Terminator
  <2> SUFFICES ASSUME n # 0 PROVE searched'[n].word = Terminator
    BY <1>10
  <2>1. n \in 1..n
    BY <1>4
  <2>2. Words(x)[n] = Terminator
    BY <1>4, <2>1 DEF SearchInv, TextInv
  <2>3. n \notin Occurrences(Words(x), Strip(t0))
    BY <2>2 DEF Occurrences, IsWord, Punctuation
  <2>4. searched'[n] = [word |-> IF n \in Occurrences(Words(x), Strip(t0)) THEN NewName ELSE Words(x)[n],
                        role |-> x[n].role, form |-> x[n].form, of |-> IF x[n].of = Strip(t0) THEN NewName ELSE x[n].of]
    BY <1>6, <2>1
  <2>5. searched'[n].word = IF n \in Occurrences(Words(x), Strip(t0)) THEN NewName ELSE Words(x)[n]
    BY <2>4
  <2> QED
    BY <2>2, <2>3, <2>5
<1>13. Strip(t0) # NoSymbol
  BY NamesStrip
<1> QED
  BY <1>5, <1>10, <1>11, <1>12, <1>13 DEF SearchInv, TextInv

\* Every token of a statement of a known form stands in it, whatever else is
\* typed and whatever table is renamed.
THEOREM TextsStaySound == SearchSpec => []SearchInv
<1>1. SearchInit => SearchInv
  BY DEF SearchInit, SearchInv, TextInv
<1>2. ASSUME SearchInv, [SearchNext]_searchVars PROVE SearchInv'
  <2>1. CASE TypeStatement
    BY <1>2, <2>1, TypingKeeps
  <2>2. CASE RenameTable
    BY <1>2, <2>2, RenamingKeeps
  <2>3. CASE UNCHANGED searchVars
    BY <1>2, <2>3 DEF SearchInv, searchVars
  <2> QED
    BY <1>2, <2>1, <2>2, <2>3 DEF SearchNext
<1> QED
  BY <1>1, <1>2, PTL DEF SearchSpec

-----------------------------------------------------------------------------
\* What the functions find in a text.

LEMMA TokenPlace ==
  ASSUME SearchInv, NEW i \in Standing
  PROVE  \E b, s, t, u, p, f, o :
           /\ Block(searched, renamed, b, s, t, u, p, f) /\ Kept(Words(searched), b, s)
           /\ o \in 1..Len(s) /\ i = b + o /\ s \in KnownStatements
<1>1. searched \in Seq(TextToken) /\ i \in 1..Len(searched) /\ searched[i].form = "known"
  BY WordsAreWords DEF SearchInv, TextInv, Standing
<1>2. PICK b, s, t, u, p, f : Block(searched, renamed, b, s, t, u, p, f) /\ i \in b + 1..b + Len(s)
  BY <1>1 DEF SearchInv, TextInv
<1>3. b \in Nat /\ Len(s) \in Nat /\ s \in KnownStatements
  BY <1>2, FormIsList DEF Block
<1>4. i - b \in 1..Len(s) /\ i = b + (i - b)
  BY <1>1, <1>2, <1>3
<1> QED
  BY <1>1, <1>2, <1>3, <1>4, BlockKept

\* The position behind one of a statement, but its last.
LEMMA WordJustBehind ==
  ASSUME NEW w, NEW b, NEW s, Kept(w, b, s), NEW o \in 1..Len(s), s[o] \notin Punctuation
  PROVE  /\ o + 1 \in 1..Len(s) /\ (b + o) + 1 = b + (o + 1) /\ b + o < Len(w)
         /\ w[(b + o) + 1] = ":" <=> StandsAt(s, o + 1, {":"})
<1>1. s \in KnownStatements /\ b \in Nat /\ o \in Nat /\ Len(s) \in Nat /\ o <= Len(s) /\ b + Len(s) <= Len(w) /\ Len(w) \in Nat
  BY FormIsList, KeptPlace DEF Kept
<1>2. o # Len(s)
  <2>1. s[o] # Terminator
    BY DEF Punctuation
  <2> QED
    BY <1>1, <2>1, FormIsList
<1>3. o + 1 \in 1..Len(s) /\ (b + o) + 1 = b + (o + 1) /\ b + o < Len(w)
  BY <1>1, <1>2
<1>4. w[b + (o + 1)] = ":" <=> s[o + 1] = ":"
  BY <1>3, KeptWord, Compared
<1>5. DOMAIN s = 1..Len(s)
  BY <1>1, FormIsList
<1> QED
  BY <1>3, <1>4, <1>5 DEF StandsAt

LEMMA SymbolsAreWords ==
  \A x \in Symbols : x \notin Punctuation
<1>1. \A x \in Punctuation : x \in ComparedWords
  BY NamesDiffer
<1> QED
  BY <1>1, NamesDiffer

LEMMA MistakenHere ==
  ASSUME searched \in Seq(TextToken), NEW b, NEW s, NEW t, NEW u, NEW p, NEW f,
         Block(searched, renamed, b, s, t, u, p, f), NEW o \in 1..Len(s), s[o] = "F"
  PROVE  b + o \in Mistaken <=> MistakenIn(s, o)
<1> DEFINE w == Words(searched)
<1>1. Kept(w, b, s)
  BY BlockKept
<1>2. s \in KnownStatements /\ DOMAIN s = 1..Len(s) /\ o > 1 /\ b \in Nat /\ o \in Nat
  BY FormIsList DEF Block, FieldsStand
<1>3. b + o \in HasRole("field")
  BY BlockTokens, WordsAreWords DEF HasRole, Standing
<1>4. s[o] \notin Punctuation
  BY SymbolsAreWords DEF Symbols
<1> HIDE DEF w
<1>5. b + o < Len(w) /\ (w[(b + o) + 1] = ":" <=> StandsAt(s, o + 1, {":"}))
  BY <1>1, <1>4, WordJustBehind
<1>6. w[(b + o) - 1] = "UPDATE" <=> StandsAt(s, o - 1, {"UPDATE"})
  <2>1. (b + o) - 1 = b + (o - 1) /\ o - 1 \in 1..Len(s)
    <3>1. o <= Len(s) /\ Len(s) \in Nat
      BY <1>2, FormIsList
    <3> QED
      BY <1>2, <3>1
  <2>2. w[b + (o - 1)] = "UPDATE" <=> s[o - 1] = "UPDATE"
    BY <1>1, <2>1, KeptWord, Compared
  <2> QED
    BY <1>2, <2>1, <2>2 DEF StandsAt
<1>7. b + o \in Mistaken <=> (b + o < Len(w) /\ w[(b + o) + 1] = ":") \/ w[(b + o) - 1] = "UPDATE"
  BY <1>3 DEF Mistaken, w
<1> QED
  BY <1>5, <1>6, <1>7 DEF MistakenIn

\* A table that is not linked stands in a definition or behind a keyword.
LEMMA NotLinkedHere ==
  ASSUME searched \in Seq(TextToken), NEW b, NEW s, NEW t, NEW u, NEW p, NEW f,
         Block(searched, renamed, b, s, t, u, p, f), NEW o \in 1..Len(s), b + o \in HasRole("table") \ Linked
  PROVE  /\ s[o] = "T"
         /\ \/ o = 3 /\ DefinesTable(s) /\ ~StandsAt(s, 4, {":"})
            \/ o = Behind(s, 4, "TABLE") /\ DefinesOn(s)
            \/ \E k \in 1..Len(s) : IsAbout(s, k) /\ o = Behind(s, k, "ONLY")
<1> DEFINE w == Words(searched)
<1>1. Kept(w, b, s) /\ w \in Seq(AllWords)
  BY BlockKept, WordsAreWords
<1>2. s \in KnownStatements /\ DOMAIN s = 1..Len(s) /\ b \in Nat /\ o \in Nat /\ Len(s) \in Nat /\ TablesStand(s)
  BY FormIsList DEF Block
<1>3. s[o] \in {"T", "U"}
  BY BlockTokens DEF HasRole
<1>4. s[o] \notin Punctuation
  BY <1>3, SymbolsAreWords DEF Symbols
<1> HIDE DEF w
<1>5. ~(w[(b + o) - 1] = "<") /\ ~(b + o < Len(w) /\ w[(b + o) + 1] = ":" /\ ~TakesTable(w, (b + o) - 1))
  BY DEF Linked, w
<1>6. ASSUME IsLinked(s, o) PROVE FALSE
  <2>1. CASE StandsAt(s, o - 1, {"<"})
    <3>1. o - 1 \in 1..Len(s) /\ s[o - 1] = "<" /\ (b + o) - 1 = b + (o - 1)
      BY <1>2, <2>1 DEF StandsAt
    <3>2. w[b + (o - 1)] = "<"
      BY <1>1, <3>1, KeptWord, Compared
    <3> QED
      BY <1>5, <3>1, <3>2
  <2>2. CASE StandsAt(s, o + 1, {":"}) /\ o > 2 /\ ~StandsAt(s, o - 1, TableWords \cup {"."})
    <3>1. b + o < Len(w) /\ w[(b + o) + 1] = ":"
      BY <1>1, <1>4, <2>2, WordJustBehind
    <3>2. o - 1 \in 1..Len(s) /\ (b + o) - 1 = b + (o - 1)
      <4>1. o > 2 /\ o <= Len(s) /\ o \in Nat /\ Len(s) \in Nat /\ b \in Nat
        BY <1>2, <2>2
      <4> QED
        BY <4>1
    <3>3. s[o - 1] \notin TableWords
      BY <1>2, <2>2, <3>2 DEF StandsAt
    <3>4. ~TakesTable(w, b + (o - 1))
      BY <1>1, <3>2, <3>3, TakesTableHere
    <3> QED
      BY <1>5, <3>1, <3>2, <3>4
  <2> QED
    BY <1>6, <2>1, <2>2 DEF IsLinked
<1>7. s[o] = "T"
  BY <1>2, <1>3, <1>6 DEF TablesStand
<1> QED
  BY <1>2, <1>6, <1>7 DEF TablesStand

LEMMA OccurrencesFound ==
  ASSUME SearchInv
  PROVE  OccurrencesAreTables
<1> DEFINE w == Words(searched)
<1>1. /\ searched \in Seq(TextToken) /\ w \in Seq(AllWords) /\ DOMAIN w = 1..Len(searched) /\ DOMAIN searched = 1..Len(searched)
      /\ \A i \in 1..Len(searched) : w[i] = searched[i].word
  BY WordsAreWords DEF SearchInv, TextInv
<1>2. ASSUME NEW i \in HasRole("table") PROVE i \in Occurrences(w, NameOf(i))
  <2>1. i \in Standing /\ i \in DOMAIN searched /\ searched[i].role = "table"
    BY DEF HasRole, Standing
  <2>2. PICK b, s, t, u, p, f, o : /\ Block(searched, renamed, b, s, t, u, p, f) /\ Kept(w, b, s)
                                   /\ o \in 1..Len(s) /\ i = b + o
    BY <2>1, TokenPlace
  <2>3. s[o] \in {"T", "U"}
    BY <1>1, <2>1, <2>2, BlockTokens
  <2> HIDE DEF w
  <2>4. Occurs(w, i) /\ IsWord(w, i)
    BY <2>2, <2>3, TableOccurs
  <2> QED
    BY <1>1, <2>1, <2>4 DEF Occurrences, NameOf
<1>3. ASSUME NEW h \in HasRole("table"), NEW i \in Standing, i \in Occurrences(w, NameOf(h))
      PROVE  (i \in HasRole("table") /\ NameOf(i) = NameOf(h)) \/ i \in Mistaken
  <2> DEFINE name == NameOf(h)
  <2>1. i \in DOMAIN searched
    BY DEF Standing
  <2>2. PICK b, s, t, u, p, f, o : /\ Block(searched, renamed, b, s, t, u, p, f) /\ Kept(w, b, s)
                                   /\ o \in 1..Len(s) /\ i = b + o /\ s \in KnownStatements
    BY TokenPlace
  <2>3. /\ s[o] \in {"T", "U"} => searched[i].role = "table"
        /\ s[o] \notin Symbols => searched[i].word = s[o]
    BY <1>1, <2>2, BlockTokens
  <2>4. MistakenIn(s, o) => i \in Mistaken
    BY <1>1, <2>2, MistakenHere DEF MistakenIn
  <2>5. PICK y \in Tables : name = Strip(y)
    BY TextTables
  <2> HIDE DEF w, name
  <2>6. Occurs(w, b + o) /\ IsWord(w, b + o) /\ Strip(w[i]) = name
    BY <1>3, <2>2 DEF Occurrences, name
  <2>7. \/ s[o] \in {"T", "U"} \/ MistakenIn(s, o) \/ s[o] = "FROM"
        \/ StandsAt(s, o - 1, {"ON"}) /\ s[o] \notin Symbols
    BY <2>2, <2>6, OccursForm
  <2>8. w[i] = searched[i].word
    BY <1>1, <2>1
  <2>9. s[o] # "FROM"
    <3> SUFFICES ASSUME s[o] = "FROM" PROVE FALSE
      OBVIOUS
    <3>1. "FROM" \in ComparedWords
      BY Compared
    <3>2. Strip(w[i]) = "FROM"
      BY <2>3, <2>8, <3>1, NamesDiffer, NamesStrip
    <3>3. name \notin ComparedWords
      BY <2>5, NamesStrip DEF Tables
    <3> QED
      BY <2>6, <3>1, <3>2, <3>3
  <2>10. ~(StandsAt(s, o - 1, {"ON"}) /\ s[o] \notin Symbols)
    <3> SUFFICES ASSUME StandsAt(s, o - 1, {"ON"}), s[o] \notin Symbols PROVE FALSE
      OBVIOUS
    <3>1. o \in DOMAIN s
      BY <2>2, FormIsList
    <3>2. \A x \in Tables : Strip(s[o]) # Strip(x)
      BY <2>2, <3>1, FormIsList DEF OthersStand, Tables
    <3> QED
      BY <2>3, <2>5, <2>6, <2>8, <3>2
  <2> QED
    BY <1>1, <2>1, <2>3, <2>4, <2>6, <2>7, <2>8, <2>9, <2>10 DEF HasRole, NameOf, name
<1> HIDE DEF w
<1> QED
  BY <1>2, <1>3 DEF OccurrencesAreTables, w, HasRole

LEMMA RenamedGone ==
  ASSUME SearchInv
  PROVE  RenamedIsGone
  BY TextTables DEF RenamedIsGone

LEMMA InDefinitionHere ==
  ASSUME NEW w, NEW b, NEW s, Kept(w, b, s), NEW o \in 1..Len(s)
  PROVE  InDefinition(w, b + o) <=> o > 1 /\ s[1] = "DEFINE"
<1>1. s \in KnownStatements /\ b \in Nat /\ o \in Nat /\ o > 0 /\ o <= Len(s) /\ Len(s) \in Nat
  BY FormIsList DEF Kept
<1>2. InDefinition(w, b + o) <=> \E j \in b + 1..(b + o) - 1 : KeywordAt(w, j, {"DEFINE"})
  BY StartHere DEF InDefinition
<1>3. \A k \in 1..Len(s) : KeywordAt(w, b + k, {"DEFINE"}) <=> s[k] = "DEFINE"
  <2>1. {"DEFINE"} \in SUBSET ComparedWords
    BY Compared
  <2> QED
    BY <2>1, KeywordHere
<1>4. ASSUME NEW j \in b + 1..(b + o) - 1, KeywordAt(w, j, {"DEFINE"}) PROVE o > 1 /\ s[1] = "DEFINE"
  <2>1. j - b \in 1..Len(s) /\ b + (j - b) = j /\ j - b < o
    BY <1>1
  <2>2. s[j - b] = "DEFINE"
    BY <1>3, <1>4, <2>1
  <2>3. j - b = 1
    BY <1>1, <2>1, <2>2, DefinitionForm
  <2> QED
    BY <2>1, <2>2, <2>3
<1>5. ASSUME o > 1, s[1] = "DEFINE" PROVE \E j \in b + 1..(b + o) - 1 : KeywordAt(w, j, {"DEFINE"})
  <2>1. 1 \in 1..Len(s) /\ b + 1 \in b + 1..(b + o) - 1
    BY <1>1, <1>5
  <2>2. KeywordAt(w, b + 1, {"DEFINE"})
    BY <1>3, <1>5, <2>1
  <2> QED
    BY <2>1, <2>2
<1> QED
  BY <1>2, <1>4, <1>5

LEMMA ReferencesFound ==
  ASSUME SearchInv
  PROVE  ReferencesAreOccurrences
<1> DEFINE w == Words(searched)
<1>1. /\ searched \in Seq(TextToken) /\ w \in Seq(AllWords) /\ DOMAIN w = 1..Len(searched) /\ DOMAIN searched = 1..Len(searched)
      /\ Len(searched) \in Nat /\ \A i \in 1..Len(searched) : w[i] = searched[i].word
  BY WordsAreWords DEF SearchInv, TextInv
<1>2. ASSUME NEW i \in TableReferences(w) PROVE i \in Occurrences(w, NameOf(i))
  <2>1. i \in DOMAIN searched /\ w[i] = searched[i].word
    BY <1>1 DEF TableReferences
  <2> HIDE DEF w
  <2> QED
    BY <2>1 DEF TableReferences, Occurrences, Occurs, NameOf
<1>3. ASSUME NEW i \in (TableReferences(w) \cap Standing) \ Mistaken
      PROVE  i \in HasRole("table") \/ (w[i] = "FROM" /\ w[i - 1] = "DELETE")
  <2>1. i \in DOMAIN searched
    BY <1>1 DEF TableReferences
  <2>2. PICK b, s, t, u, p, f, o : /\ Block(searched, renamed, b, s, t, u, p, f) /\ Kept(w, b, s)
                                   /\ o \in 1..Len(s) /\ i = b + o /\ s \in KnownStatements
    BY <2>1, TokenPlace
  <2>3. s[o] \in {"T", "U"} => searched[i].role = "table"
    BY <1>1, <2>2, BlockTokens
  <2>4. ~MistakenIn(s, o)
    BY <1>1, <2>2, MistakenHere DEF MistakenIn
  <2>5. PICK h \in 1..i - 1 : TakesTable(w, h) /\ SkipModifiers(w, h) = i
    BY DEF TableReferences
  <2> DEFINE k == h - b
  <2> HIDE DEF w
  <2>6. k \in 1..o - 1 /\ s[k] \in TableWords /\ o = Behind(s, k, "ONLY")
    BY <2>2, <2>5, TakenFrom
  <2>a. o \in Nat /\ Len(s) \in Nat /\ o <= Len(s)
    BY <2>2, FormIsList
  <2> HIDE DEF k
  <2>7. k \in 1..Len(s) /\ k \in Nat
    BY <2>6, <2>a
  <2>8. \/ s[o] = "T" \/ (o = k + 1 /\ s[o] = "FROM" /\ s[k] = "DELETE") \/ (o = k + 1 /\ s[o] = "F" /\ s[k] = "UPDATE")
    BY <2>2, <2>6, <2>7, TableWordForm
  <2>9. o = k + 1 => o - 1 = k
    BY <2>7
  <2>10. CASE s[o] = "T"
    BY <2>1, <2>3, <2>10 DEF HasRole
  <2>11. CASE o = k + 1 /\ s[o] = "FROM" /\ s[k] = "DELETE"
    <3>1. i - 1 = b + k
      BY <2>2, <2>7, <2>11 DEF Kept
    <3>2. w[b + o] = "FROM" /\ w[b + k] = "DELETE"
      BY <2>2, <2>7, <2>11, KeptWord, Compared
    <3> QED
      BY <2>2, <3>1, <3>2
  <2>12. CASE o = k + 1 /\ s[o] = "F" /\ s[k] = "UPDATE"
    <3>1. k \in DOMAIN s
      BY <2>2, <2>7, FormIsList
    <3> QED
      BY <2>4, <2>9, <2>12, <3>1 DEF MistakenIn, StandsAt
  <2> QED
    BY <2>8, <2>10, <2>11, <2>12
<1>4. ASSUME NEW i \in HasRole("table") \ Linked PROVE InDefinition(w, i) \/ i \in TableReferences(w)
  <2>1. i \in Standing /\ i \in DOMAIN searched /\ i \in HasRole("table")
    BY DEF HasRole, Standing
  <2>2. PICK b, s, t, u, p, f, o : /\ Block(searched, renamed, b, s, t, u, p, f) /\ Kept(w, b, s)
                                   /\ o \in 1..Len(s) /\ i = b + o /\ s \in KnownStatements
    BY <2>1, TokenPlace
  <2>3. /\ s[o] = "T"
        /\ \/ o = 3 /\ DefinesTable(s)
           \/ o = Behind(s, 4, "TABLE") /\ DefinesOn(s)
           \/ \E k \in 1..Len(s) : IsAbout(s, k) /\ o = Behind(s, k, "ONLY")
    BY <1>1, <2>2, NotLinkedHere
  <2>4. Strip(w[i]) \notin BuiltinTables
    <3>1. \E y \in Tables : NameOf(i) = Strip(y)
      BY <2>1, TextTables
    <3>2. \A y \in Tables : Strip(y) \notin BuiltinTables
      BY NamesStrip DEF Tables
    <3> QED
      BY <1>1, <2>1, <3>1, <3>2 DEF NameOf
  <2>n. b \in Nat /\ o \in Nat /\ Len(s) \in Nat /\ DOMAIN s = 1..Len(s)
    BY <2>2, FormIsList DEF Kept
  <2> HIDE DEF w
  <2>5. CASE o = 3 /\ DefinesTable(s)
    <3>1. s[1] = "DEFINE" /\ o > 1
      BY <2>5 DEF DefinesTable, StandsAt
    <3> QED
      BY <2>2, <3>1, InDefinitionHere
  <2>6. CASE o = Behind(s, 4, "TABLE") /\ DefinesOn(s)
    <3>1. s[1] = "DEFINE" /\ o \in 5..Len(s)
      BY <2>2, <2>6, DefinesOnForm
    <3>2. o > 1
      BY <2>n, <3>1
    <3> QED
      BY <2>2, <3>1, <3>2, InDefinitionHere
  <2>7. ASSUME NEW k \in 1..Len(s), IsAbout(s, k), o = Behind(s, k, "ONLY") PROVE i \in TableReferences(w)
    <3>1. s[k] \in TableWords
      BY <2>7 DEF IsAbout, StandsAt
    <3>2. SkipModifiers(w, b + k) = i /\ o \in k + 1..Len(s)
      BY <1>1, <2>2, <2>7, <3>1, TableWordHere, TableWordForm, AgreesWithItself
    <3>3. TakesTable(w, b + k)
      BY <2>2, <3>1, TakesTableHere
    <3>4. ~InDefinition(w, b + k)
      <4> SUFFICES ASSUME s[1] = "DEFINE" PROVE FALSE
        BY <2>2, InDefinitionHere
      <4>1. 1 \in 1..Len(s)
        BY <2>n, <2>2
      <4> QED
        BY <2>2, <3>1, <4>1, DefinitionForm
    <3>5. b + k \in 1..i - 1
      BY <2>2, <2>n, <3>2
    <3>6. IsWord(w, i)
      BY <2>2, <2>3, TableOccurs
    <3> QED
      BY <1>1, <2>1, <2>4, <3>2, <3>3, <3>4, <3>5, <3>6 DEF TableReferences
  <2> QED
    BY <2>3, <2>5, <2>6, <2>7
<1> HIDE DEF w
<1> QED
  BY <1>2, <1>3, <1>4 DEF ReferencesAreOccurrences, w

-----------------------------------------------------------------------------
\* The symbol under a cursor.

\* What a word of the statement makes of the cursor.
LEMMA SymbolHere ==
  ASSUME NEW w, NEW b, NEW s, Kept(w, b, s), NEW m \in 1..Len(s), NEW c
  PROVE  SymbolFrom(w, b + m, c) =
           IF m = 2 /\ s[1] = "DEFINE" /\ s[2] = "FIELD" THEN FieldDefined(w, b + 2, c)
           ELSE IF m = 2 /\ s[1] = "DEFINE" /\ s[2] = "TABLE" THEN IsTable(WordAt(w, c))
           ELSE IF s[m] \in TableWords THEN TableNamed(w, b + m, c)
           ELSE IF s[m] = "ON" /\ SkipTable(w, b + m) = c THEN IsTable(Strip(w[c]))
           ELSE UnknownSymbol
<1> DEFINE field == KeywordAt(w, b + m, {"FIELD"}) /\ KeywordAt(w, (b + m) - 1, {"DEFINE"})
           table == KeywordAt(w, b + m, {"TABLE"}) /\ KeywordAt(w, (b + m) - 1, {"DEFINE"})
           takes == TakesTable(w, b + m)
           on == KeywordAt(w, b + m, {"ON"}) /\ SkipTable(w, b + m) = c
           named == m = 2 /\ s[1] = "DEFINE"
<1>1. s \in KnownStatements /\ m \in Nat /\ Len(s) \in Nat
  BY FormIsList DEF Kept
<1>2. KeywordAt(w, (b + m) - 1, {"DEFINE"}) <=> named
  <2>1. "DEFINE" \in ComparedWords /\ "DEFINE" # Terminator
    <3>1. "DEFINE" # Terminator
      BY Zenon DEF Terminator
    <3> QED
      BY <3>1, Compared
  <2>2. KeywordAt(w, (b + m) - 1, {"DEFINE"}) <=> m > 1 /\ s[m - 1] = "DEFINE"
    BY <2>1, KeywordJustBefore
  <2>3. ASSUME m > 1, s[m - 1] = "DEFINE" PROVE m = 2
    <3>1. m - 1 \in 1..Len(s)
      BY <1>1, <2>3
    <3>2. m - 1 = 1
      BY <1>1, <2>3, <3>1, DefinitionForm
    <3> QED
      BY <1>1, <3>2
  <2> QED
    BY <2>2, <2>3
<1>3. field <=> named /\ s[2] = "FIELD"
  <2>1. named => (KeywordAt(w, b + 2, {"FIELD"}) <=> s[2] \in {"FIELD"})
    BY DefinedHere
  <2> QED
    BY <1>2, <2>1
<1>4. table <=> named /\ s[2] = "TABLE"
  <2>1. {"TABLE"} \in SUBSET ComparedWords
    BY Compared
  <2>2. KeywordAt(w, b + m, {"TABLE"}) <=> s[m] = "TABLE"
    BY <2>1, KeywordHere
  <2> QED
    BY <1>2, <2>2
<1>5. takes <=> s[m] \in TableWords
  BY TakesTableHere
<1>6. on <=> s[m] = "ON" /\ SkipTable(w, b + m) = c
  <2>1. {"ON"} \in SUBSET ComparedWords
    BY Compared
  <2> QED
    BY <2>1, KeywordHere
<1>7. ~(field /\ table) /\ (takes => ~field /\ ~table) /\ (on => ~takes /\ ~field /\ ~table)
  <2>1. named => s[2] \notin TableWords
    BY <1>1, DefinitionForm
  <2>2. "ON" \notin TableWords
    BY DEF TableWords, TableKeywords
  <2>3. "FIELD" # "TABLE" /\ "ON" # "FIELD" /\ "ON" # "TABLE"
    OBVIOUS
  <2> HIDE DEF field, table, takes, on
  <2> QED
    BY <1>3, <1>4, <1>5, <1>6, <2>1, <2>2, <2>3
<1>8. SymbolFrom(w, b + m, c) =
        CASE field -> FieldDefined(w, b + m, c)
          [] table -> IsTable(WordAt(w, c))
          [] takes -> TableNamed(w, b + m, c)
          [] on -> IsTable(Strip(w[c]))
          [] OTHER -> UnknownSymbol
  BY DEF SymbolFrom
<1> HIDE DEF field, table, takes, on
<1>9. CASE field
  BY <1>3, <1>7, <1>8, <1>9
<1>10. CASE table
  <2>1. s[2] # "FIELD"
    BY <1>4, <1>10
  <2> QED
    BY <1>4, <1>7, <1>8, <1>10, <2>1
<1>11. CASE takes
  BY <1>3, <1>4, <1>5, <1>7, <1>8, <1>11
<1>12. CASE on
  BY <1>3, <1>4, <1>5, <1>6, <1>7, <1>8, <1>12
<1>13. CASE ~field /\ ~table /\ ~takes /\ ~on
  BY <1>3, <1>4, <1>5, <1>6, <1>8, <1>13
<1> QED
  BY <1>9, <1>10, <1>11, <1>12, <1>13

\* The last word of the statement, up to the cursor, that tells.
LEMMA Classified ==
  ASSUME NEW w, NEW b, NEW s, Kept(w, b, s), NEW o \in 1..Len(s)
  PROVE  \/ Classify(w, b + o) = UnknownSymbol /\ \A m \in 1..o : SymbolFrom(w, b + m, b + o) = UnknownSymbol
         \/ \E m \in 1..o : /\ Classify(w, b + o) = SymbolFrom(w, b + m, b + o)
                            /\ SymbolFrom(w, b + m, b + o) # UnknownSymbol
                            /\ \A j \in m + 1..o : SymbolFrom(w, b + j, b + o) = UnknownSymbol
<1> DEFINE c == b + o
           tells == {i \in b + 1..c : SymbolFrom(w, i, c) # UnknownSymbol}
<1>1. b \in Nat /\ o \in Nat /\ o > 0 /\ c \in Nat
  BY FormIsList DEF Kept
<1>2. Classify(w, c) = IF tells = {} THEN UnknownSymbol ELSE SymbolFrom(w, Max(tells), c)
  BY StartHere DEF Classify
<1>3. \A m \in 1..o : b + m \in b + 1..c
  BY <1>1
<1>4. CASE tells = {}
  BY <1>2, <1>3, <1>4
<1>5. CASE tells # {}
  <2>1. tells \in SUBSET (1..c)
    BY <1>1
  <2>2. Max(tells) \in tells /\ \A i \in tells : i <= Max(tells)
    <3> HIDE DEF tells, c
    <3> QED
      BY <1>1, <1>5, <2>1, LastPosition
  <2> DEFINE m == Max(tells) - b
  <2>3. m \in 1..o /\ b + m = Max(tells)
    BY <1>1, <2>2
  <2>4. SymbolFrom(w, b + m, c) # UnknownSymbol /\ Classify(w, c) = SymbolFrom(w, b + m, c)
    BY <1>2, <1>5, <2>2, <2>3
  <2>5. ASSUME NEW j \in m + 1..o PROVE SymbolFrom(w, b + j, c) = UnknownSymbol
    <3>1. b + j \in b + 1..c /\ b + j > Max(tells) /\ b + j \in Nat /\ Max(tells) \in Nat
      BY <1>1, <2>2, <2>3
    <3>2. b + j \notin tells
      BY <2>2, <3>1
    <3> QED
      BY <3>1, <3>2
  <2> HIDE DEF m
  <2> QED
    BY <2>3, <2>4, <2>5
<1> QED
  BY <1>4, <1>5

LEMMA SymbolsDiffer ==
  \A t, n : IsTable(n) # UnknownSymbol /\ IsField(t, n) # UnknownSymbol
<1>1. \A t, n : IsTable(n).kind = "table" /\ IsField(t, n).kind = "field" /\ UnknownSymbol.kind = "unknown"
  BY DEF IsTable, IsField, UnknownSymbol
<1> QED
  BY <1>1

\* When all words behind word m say nothing, word m tells.
LEMMA ClassifiedBy ==
  ASSUME NEW w, NEW b, NEW s, Kept(w, b, s), NEW o \in 1..Len(s), NEW m \in 1..o,
         SymbolFrom(w, b + m, b + o) # UnknownSymbol, \A j \in m + 1..o : SymbolFrom(w, b + j, b + o) = UnknownSymbol
  PROVE  Classify(w, b + o) = SymbolFrom(w, b + m, b + o)
<1>1. o \in Nat /\ m \in Nat
  BY FormIsList DEF Kept
<1>2. PICK k \in 1..o : /\ Classify(w, b + o) = SymbolFrom(w, b + k, b + o)
                        /\ SymbolFrom(w, b + k, b + o) # UnknownSymbol
                        /\ \A j \in k + 1..o : SymbolFrom(w, b + j, b + o) = UnknownSymbol
  BY Classified
<1>3. ~(k > m)
  <2>1. k > m => k \in m + 1..o
    BY <1>1
  <2> QED
    BY <1>2, <2>1
<1>4. ~(m > k)
  <2>1. m > k => m \in k + 1..o
    BY <1>1
  <2> QED
    BY <1>2, <2>1
<1>5. k = m
  BY <1>1, <1>3, <1>4
<1> QED
  BY <1>2, <1>5

\* What the word under the cursor is, where no colon is beside it.
LEMMA WordAtHere ==
  ASSUME NEW w, NEW b, NEW s, Kept(w, b, s), NEW o \in 1..Len(s), s[o] \notin Punctuation,
         ~StandsAt(s, o + 1, {":"}), ~StandsAt(s, o - 1, {":"})
  PROVE  WordAt(w, b + o) = Strip(w[b + o])
<1>1. w[(b + o) + 1] # ":"
  BY WordJustBehind
<1>2. b + o > 1 => w[(b + o) - 1] # ":"
  <2> SUFFICES ASSUME b + o > 1, w[(b + o) - 1] = ":" PROVE FALSE
    OBVIOUS
  <2>1. ":" \in ComparedWords /\ ":" # Terminator
    <3>1. ":" # Terminator
      BY Zenon DEF Terminator
    <3> QED
      BY <3>1, Compared
  <2>2. o > 1 /\ s[o - 1] = ":"
    BY <2>1, WordJustBefore
  <2>3. o - 1 \in DOMAIN s
    <3>1. o - 1 \in 1..Len(s)
      BY <2>2, JustBefore DEF Kept
    <3> QED
      BY <3>1, FormIsList DEF Kept
  <2> QED
    BY <2>2, <2>3 DEF StandsAt
<1> QED
  BY <1>1, <1>2 DEF WordAt

LEMMA TableNamedHere ==
  ASSUME NEW w, NEW b, NEW s, Kept(w, b, s), NEW k \in 1..Len(s), s[k] \in TableWords, NEW c \in Int
  PROVE  LET q == Behind(s, k, "ONLY") IN
         TableNamed(w, b + k, c) =
           IF c = b + q THEN IsTable(Strip(w[c]))
           ELSE IF Strip(w[b + q]) # NoSymbol /\ c > b + q THEN IsField(Strip(w[b + q]), WordAt(w, c)) ELSE UnknownSymbol
<1> DEFINE q == Behind(s, k, "ONLY")
<1>1. s \in KnownStatements /\ b \in Nat /\ q \in k + 1..Len(s) /\ w \in Seq(AllWords) /\ k \in Nat
      /\ b + Len(s) <= Len(w) /\ Len(s) \in Nat /\ Len(w) \in Nat
  BY TableWordForm, FormIsList, KeptPlace DEF Kept
<1>2. b + q <= Len(w) /\ b + q # 0 /\ b + q \in Nat
  BY <1>1
<1>3. SkipOnly(w, b + k) = b + q /\ TableNameAfter(w, b + k) = Strip(w[b + q])
  BY <1>1, <1>2, TableWordHere, AgreesWithItself
<1> HIDE DEF q
<1> QED
  BY <1>2, <1>3 DEF TableNamed, q

LEMMA TableCursor ==
  ASSUME SearchInv, NEW c \in HasRole("table") \ Linked
  PROVE  Classify(Words(searched), c) = IsTable(NameOf(c))
<1> DEFINE w == Words(searched)
<1>1. /\ searched \in Seq(TextToken) /\ w \in Seq(AllWords) /\ DOMAIN w = 1..Len(searched) /\ DOMAIN searched = 1..Len(searched)
      /\ \A i \in 1..Len(searched) : w[i] = searched[i].word
  BY WordsAreWords DEF SearchInv, TextInv
<1>2. c \in Standing /\ c \in DOMAIN searched /\ c \in HasRole("table") \ Linked
  BY DEF HasRole, Standing
<1>3. PICK b, s, t, u, p, f, o : /\ Block(searched, renamed, b, s, t, u, p, f) /\ Kept(w, b, s)
                                 /\ o \in 1..Len(s) /\ c = b + o /\ s \in KnownStatements
  BY <1>2, TokenPlace
<1>4. /\ s[o] = "T"
      /\ \/ o = 3 /\ DefinesTable(s) /\ ~StandsAt(s, 4, {":"})
         \/ o = Behind(s, 4, "TABLE") /\ DefinesOn(s)
         \/ \E k \in 1..Len(s) : IsAbout(s, k) /\ o = Behind(s, k, "ONLY")
  BY <1>1, <1>2, <1>3, NotLinkedHere
<1>5. NameOf(c) = Strip(w[c])
  BY <1>1, <1>2 DEF NameOf
<1>6. b \in Nat /\ o \in Nat /\ Len(s) \in Nat /\ DOMAIN s = 1..Len(s) /\ c \in Int
  BY <1>3, FormIsList DEF Kept
<1>7. {"T", "ONLY", "TABLE"} \cap (TableWords \cup {"ON"}) = {}
  BY DEF TableWords, TableKeywords
<1> HIDE DEF w
<1>8. CASE o = 3 /\ DefinesTable(s) /\ ~StandsAt(s, 4, {":"})
  <2>1. s[1] = "DEFINE" /\ s[2] = "TABLE" /\ 2 \in 1..Len(s) /\ s[2] # "FIELD"
    BY <1>6, <1>8 DEF DefinesTable, StandsAt
  <2>2. WordAt(w, b + o) = Strip(w[b + o])
    <3>1. ~StandsAt(s, o + 1, {":"}) /\ ~StandsAt(s, o - 1, {":"})
      BY <1>8, <2>1 DEF StandsAt
    <3>2. s[o] \notin Punctuation
      BY <1>4, SymbolsAreWords DEF Symbols
    <3> QED
      BY <1>3, <3>1, <3>2, WordAtHere
  <2>3. SymbolFrom(w, b + 2, b + o) = IsTable(Strip(w[b + o]))
    BY <1>3, <2>1, <2>2, SymbolHere
  <2>4. \A j \in 3..o : SymbolFrom(w, b + j, b + o) = UnknownSymbol
    <3>1. s[3] \notin TableWords /\ s[3] # "ON" /\ 3 # 2 /\ 3 \in 1..Len(s)
      BY <1>3, <1>4, <1>7, <1>8
    <3>2. SymbolFrom(w, b + 3, b + o) = UnknownSymbol
      BY <1>3, <3>1, SymbolHere
    <3> QED
      BY <1>8, <3>2
  <2>5. 2 \in 1..o
    BY <1>8
  <2>6. Classify(w, b + o) = SymbolFrom(w, b + 2, b + o)
    BY <1>3, <2>3, <2>4, <2>5, ClassifiedBy, SymbolsDiffer
  <2> QED
    BY <1>3, <1>5, <2>3, <2>6 DEF w
<1>9. CASE o = Behind(s, 4, "TABLE") /\ DefinesOn(s)
  <2>1. /\ 4 < Len(s) /\ o \in 5..Len(s) /\ s[4] = "ON" /\ 4 \in 1..Len(s)
        /\ \A j \in 5..o - 1 : s[j] = "TABLE"
    BY <1>3, <1>6, <1>9, DefinesOnForm
  <2>2. SkipTable(w, b + 4) = b + o
    BY <1>1, <1>3, <1>9, DefinesOnHere, AgreesWithItself DEF w
  <2>3. SymbolFrom(w, b + 4, b + o) = IsTable(Strip(w[b + o]))
    <3>1. s[4] \notin TableWords /\ 4 # 2
      BY <2>1 DEF TableWords, TableKeywords
    <3> QED
      BY <1>3, <2>1, <2>2, <3>1, SymbolHere
  <2>4. ASSUME NEW j \in 4 + 1..o PROVE SymbolFrom(w, b + j, b + o) = UnknownSymbol
    <3>1. j \in 1..Len(s) /\ j # 2 /\ s[j] \in {"T", "TABLE"}
      BY <1>4, <1>6, <2>1
    <3> QED
      BY <1>3, <1>7, <3>1, SymbolHere
  <2>5. 4 \in 1..o
    BY <1>6, <2>1
  <2>6. Classify(w, b + o) = SymbolFrom(w, b + 4, b + o)
    BY <1>3, <2>3, <2>4, <2>5, ClassifiedBy, SymbolsDiffer
  <2> QED
    BY <1>3, <1>5, <2>3, <2>6 DEF w
<1>10. ASSUME NEW k \in 1..Len(s), IsAbout(s, k), o = Behind(s, k, "ONLY") PROVE Classify(w, c) = IsTable(Strip(w[c]))
  <2>1. s[k] \in TableWords
    BY <1>10 DEF IsAbout, StandsAt
  <2>2. o \in k + 1..Len(s) /\ \A j \in k + 1..o - 1 : s[j] = "ONLY"
    BY <1>3, <1>10, <2>1, TableWordForm
  <2>3. s[1] # "DEFINE"
    <3>1. 1 \in 1..Len(s)
      BY <1>3, <1>6
    <3> QED
      BY <1>3, <2>1, <3>1, DefinitionForm
  <2>4. SymbolFrom(w, b + k, b + o) = TableNamed(w, b + k, b + o)
    BY <1>3, <2>1, <2>3, SymbolHere
  <2>5. TableNamed(w, b + k, b + o) = IsTable(Strip(w[b + o]))
    BY <1>3, <1>6, <1>10, <2>1, TableNamedHere
  <2>6. ASSUME NEW j \in k + 1..o PROVE SymbolFrom(w, b + j, b + o) = UnknownSymbol
    <3>1. j \in 1..Len(s) /\ s[j] \in {"T", "ONLY"}
      BY <1>4, <1>6, <2>2
    <3> QED
      BY <1>3, <1>7, <2>3, <3>1, SymbolHere
  <2>7. k \in 1..o
    BY <1>6, <2>2
  <2>8. Classify(w, b + o) = SymbolFrom(w, b + k, b + o)
    BY <1>3, <2>4, <2>5, <2>6, <2>7, ClassifiedBy, SymbolsDiffer
  <2> QED
    BY <1>3, <2>4, <2>5, <2>8
<1> QED
  BY <1>4, <1>5, <1>8, <1>9, <1>10 DEF w

\* A field that is not mistaken keeps its name.
LEMMA FieldWord ==
  ASSUME searched \in Seq(TextToken), NEW b, NEW s, NEW t, NEW u, NEW p, NEW f,
         Block(searched, renamed, b, s, t, u, p, f), NEW o \in 1..Len(s), s[o] = "F", ~MistakenIn(s, o)
  PROVE  Words(searched)[b + o] = f
<1>1. searched[b + o] = FieldToken(f, t)
  BY DEF Block
<1> QED
  BY <1>1, BlockTokens DEF FieldToken

LEMMA FieldCursor ==
  ASSUME SearchInv, NEW c \in HasRole("field") \ Mistaken
  PROVE  Classify(Words(searched), c) \in {IsField(searched[c].of, NameOf(c)), UnknownSymbol}
<1> DEFINE w == Words(searched)
<1>1. /\ searched \in Seq(TextToken) /\ w \in Seq(AllWords) /\ DOMAIN w = 1..Len(searched) /\ DOMAIN searched = 1..Len(searched)
      /\ \A i \in 1..Len(searched) : w[i] = searched[i].word
  BY WordsAreWords DEF SearchInv, TextInv
<1>2. c \in Standing /\ c \in DOMAIN searched /\ searched[c].role = "field" /\ c \notin Mistaken
  BY DEF HasRole, Standing
<1>3. PICK b, s, t, u, p, f, o : /\ Block(searched, renamed, b, s, t, u, p, f) /\ Kept(w, b, s)
                                 /\ o \in 1..Len(s) /\ c = b + o /\ s \in KnownStatements
  BY <1>2, TokenPlace
<1>4. s[o] = "F" /\ searched[c].of = Strip(t)
  BY <1>1, <1>2, <1>3, BlockTokens
<1>5. ~MistakenIn(s, o)
  BY <1>1, <1>2, <1>3, <1>4, MistakenHere
<1>6. NameOf(c) = Strip(f) /\ Strip(w[c]) = Strip(f)
  BY <1>1, <1>2, <1>3, <1>4, <1>5, FieldWord DEF NameOf
<1>7. \A q \in 1..Len(s) : s[q] = "T" => w[b + q] = t
  BY <1>1, <1>3, BlockTokens
<1>8. b \in Nat /\ o \in Nat /\ Len(s) \in Nat /\ DOMAIN s = 1..Len(s) /\ c \in Int /\ o <= Len(s) /\ o > 0
  BY <1>3, FormIsList DEF Kept
<1>9. WordAt(w, b + o) = Strip(f)
  <2>1. ~StandsAt(s, o + 1, {":"}) /\ ~StandsAt(s, o - 1, {":"})
    <3>1. s[o - 1] # ":"
      BY <1>3, <1>4, <1>8, FormIsList DEF FieldsStand
    <3> QED
      BY <1>4, <1>5, <3>1 DEF MistakenIn, StandsAt
  <2>2. s[o] \notin Punctuation
    BY <1>4, SymbolsAreWords DEF Symbols
  <2>3. WordAt(w, b + o) = Strip(w[b + o])
    BY <1>3, <2>1, <2>2, WordAtHere
  <2> QED
    BY <1>3, <1>6, <2>3
<1>10. Strip(t) # NoSymbol
  BY <1>3, NamesStrip DEF Block, Tables
<1>11. ASSUME NEW m \in 1..o, Classify(w, c) = SymbolFrom(w, b + m, c), SymbolFrom(w, b + m, c) # UnknownSymbol,
              \A j \in m + 1..o : SymbolFrom(w, b + j, c) = UnknownSymbol
       PROVE  SymbolFrom(w, b + m, c) = IsField(Strip(t), Strip(f))
  <2>n. m \in 1..Len(s) /\ m \in Nat
    BY <1>8
  <2>1. CASE m = 2 /\ s[1] = "DEFINE" /\ s[2] = "FIELD"
    <3>1. 1 \in 1..Len(s)
      BY <1>8
    <3>2. DefinesOn(s) /\ s[3] = "F"
      BY <1>3, <2>1, <3>1, DefinitionForm
    <3> DEFINE q == Behind(s, 4, "TABLE")
    <3>3. q \in 5..Len(s) /\ s[q] = "T" /\ s[4] = "ON" /\ 3 \in 1..Len(s) /\ q \in 1..Len(s)
      BY <1>3, <1>8, <3>2, DefinesOnForm
    <3>4. SkipTable(w, b + 4) = b + q /\ OnTableAfter(w, b + 3) = Strip(w[b + q])
      BY <1>1, <1>3, <3>2, DefinesOnHere, AgreesWithItself
    <3>5. KeywordAfter(w, b + 2, "ON") = b + 4
      BY <1>3, <3>2, KeywordOn
    <3> HIDE DEF q, w
    <3>6. Strip(w[b + q]) = Strip(t) /\ b + q # c
      <4>1. q # o
        BY <1>4, <3>3
      <4> QED
        BY <1>3, <1>7, <1>8, <3>3, <4>1
    <3>7. w[b + 3] = f
      <4>1. ~MistakenIn(s, 3)
        BY <2>1, <3>3 DEF MistakenIn, StandsAt
      <4> QED
        BY <1>1, <1>3, <3>2, <3>3, <4>1, FieldWord DEF w
    <3>8. (b + 2) + 1 = b + 3 /\ b + 4 # 0
      BY <1>8
    <3>9. FieldDefined(w, b + 2, c) \in {IsField(Strip(t), Strip(f)), UnknownSymbol}
      BY <3>4, <3>5, <3>6, <3>7, <3>8 DEF FieldDefined
    <3>10. SymbolFrom(w, b + m, c) = FieldDefined(w, b + 2, c)
      BY <1>3, <2>1, <2>n, SymbolHere
    <3> QED
      BY <1>11, <3>9, <3>10
  <2>2. CASE m = 2 /\ s[1] = "DEFINE" /\ s[2] = "TABLE"
    <3>1. 1 \in 1..Len(s)
      BY <1>8
    <3>2. s[o] # "F"
      BY <1>3, <2>2, <3>1, DefinitionForm
    <3> QED
      BY <1>4, <3>2
  <2>3. CASE s[m] \in TableWords
    <3> DEFINE q == Behind(s, m, "ONLY")
    <3>0. ~(s[1] = "DEFINE")
      <4>1. 1 \in 1..Len(s)
        BY <1>8
      <4> QED
        BY <1>3, <2>3, <2>n, <4>1, DefinitionForm
    <3>1. /\ q \in m + 1..Len(s) /\ q \in Nat
          /\ \/ s[q] = "T"
             \/ q = m + 1 /\ s[q] = "FROM" /\ IsAbout(s, q)
             \/ EndsInField(s, m) /\ q = m + 1 /\ s[q] = "F" /\ s[m] = "UPDATE"
      BY <1>3, <1>8, <2>3, <2>n, TableWordForm
    <3>2. SymbolFrom(w, b + m, c) = TableNamed(w, b + m, c)
      BY <1>3, <2>3, <2>n, <3>0, SymbolHere
    <3>3. TableNamed(w, b + m, c) =
           IF c = b + q THEN IsTable(Strip(w[c]))
           ELSE IF Strip(w[b + q]) # NoSymbol /\ c > b + q THEN IsField(Strip(w[b + q]), WordAt(w, c)) ELSE UnknownSymbol
      BY <1>3, <1>8, <2>3, <2>n, TableNamedHere
    <3> HIDE DEF q, w
    <3>4. CASE s[q] = "T"
      <4>1. c # b + q /\ Strip(w[b + q]) = Strip(t)
        <5>1. q # o /\ q \in 1..Len(s)
          BY <1>4, <1>8, <2>n, <3>1, <3>4
        <5> QED
          BY <1>3, <1>7, <1>8, <3>1, <3>4, <5>1
      <4> QED
        BY <1>3, <1>9, <1>11, <3>2, <3>3, <4>1
    <3>5. CASE q = m + 1 /\ s[q] = "FROM" /\ IsAbout(s, q)
      <4>1. q # o /\ c # b + q
        <5>1. q # o
          BY <1>4, <3>5
        <5> QED
          BY <1>3, <1>8, <3>1, <5>1
      <4>2. c > b + q
        BY <1>11, <3>2, <3>3, <4>1
      <4>3. q \in m + 1..o /\ q \in 1..Len(s) /\ o > q
        BY <1>3, <1>8, <2>n, <3>1, <3>5, <4>2
      <4> DEFINE z == Behind(s, q, "ONLY")
      <4>4. s[q] \in TableWords
        BY <3>5 DEF TableWords, TableKeywords
      <4>5. z \in q + 1..Len(s) /\ \A j \in q + 1..z - 1 : s[j] = "ONLY"
        BY <1>3, <4>3, <4>4, TableWordForm
      <4>6. s[z] = "T"
        BY <3>5 DEF IsAbout, StandsAt
      <4>7. SymbolFrom(w, b + q, c) = TableNamed(w, b + q, c)
        BY <1>3, <3>0, <4>3, <4>4, SymbolHere
      <4>8. TableNamed(w, b + q, c) =
           IF c = b + z THEN IsTable(Strip(w[c]))
           ELSE IF Strip(w[b + z]) # NoSymbol /\ c > b + z THEN IsField(Strip(w[b + z]), WordAt(w, c)) ELSE UnknownSymbol
        BY <1>3, <1>8, <4>3, <4>4, TableNamedHere
      <4> HIDE DEF z
      <4>9. o > z
        <5>1. z # o
          BY <1>4, <4>6
        <5>2. ~(o < z)
          <6>1. o < z => o \in q + 1..z - 1
            BY <1>8, <3>1, <4>3, <4>5
          <6> QED
            BY <1>4, <4>5, <6>1
        <5> QED
          BY <1>8, <3>1, <4>5, <5>1, <5>2
      <4>10. z \in 1..Len(s) /\ c > b + z /\ c # b + z
        BY <1>3, <1>8, <3>1, <4>5, <4>9
      <4>11. Strip(w[b + z]) # NoSymbol
        BY <1>7, <1>10, <4>6, <4>10
      <4>12. SymbolFrom(w, b + q, c) # UnknownSymbol
        BY <4>7, <4>8, <4>10, <4>11, SymbolsDiffer
      <4> QED
        BY <1>11, <4>3, <4>12
    <3>6. CASE EndsInField(s, m) /\ q = m + 1 /\ s[q] = "F" /\ s[m] = "UPDATE"
      <4>1. q # o
        <5> SUFFICES ASSUME q = o PROVE FALSE
          OBVIOUS
        <5>1. o - 1 = m /\ m \in DOMAIN s
          BY <1>8, <2>n, <3>6
        <5> QED
          BY <1>4, <1>5, <3>6, <5>1 DEF MistakenIn, StandsAt
      <4>2. c # b + q
        BY <1>3, <1>8, <3>1, <4>1
      <4>3. c > b + q
        BY <1>11, <3>2, <3>3, <4>2
      <4>4. o > m + 1 /\ o \in DOMAIN s
        BY <1>3, <1>8, <3>6, <4>3
      <4>5. s[o] \notin Symbols
        BY <3>6, <4>4 DEF EndsInField
      <4> QED
        BY <1>4, <4>5 DEF Symbols
    <3> QED
      BY <3>1, <3>4, <3>5, <3>6
  <2>4. CASE s[m] = "ON" /\ SkipTable(w, b + m) = c
    <3>1. m < Len(s) /\ ((DefinesOn(s) /\ m = 4) \/ s[m + 1] \notin Symbols \cup {"ONLY", "TABLE"})
      BY <1>3, <2>4, <2>n, OnForm
    <3>2. CASE DefinesOn(s) /\ m = 4
      <4> DEFINE q == Behind(s, 4, "TABLE")
      <4>1. q \in 5..Len(s) /\ s[q] = "T"
        BY <1>3, <3>2, DefinesOnForm
      <4>2. c = b + q
        BY <1>1, <1>3, <2>4, <3>2, DefinesOnHere, AgreesWithItself
      <4> HIDE DEF q
      <4>3. q = o
        BY <1>3, <1>8, <4>1, <4>2
      <4> QED
        BY <1>4, <4>1, <4>3
    <3>3. CASE s[m + 1] \notin Symbols \cup {"ONLY", "TABLE"}
      <4>1. m \in 1..Len(s) - 1 /\ b + (m + 1) <= Len(w) /\ m + 1 \in DOMAIN s
        <5>1. b + Len(s) <= Len(w) /\ Len(w) \in Nat
          BY <1>3, KeptPlace DEF Kept
        <5> HIDE DEF w
        <5> QED
          BY <1>8, <2>n, <3>1, <5>1
      <4>2. Skip(w, b + m, "TABLE") = b + Behind(s, m, "TABLE")
        BY <1>1, <1>3, <4>1, SkipIs, AgreesWithItself
      <4>3. Behind(s, m, "TABLE") = m + 1
        BY <3>3 DEF Behind
      <4> HIDE DEF w
      <4>4. c = b + (m + 1)
        <5>1. c # 0
          BY <1>3, <1>8
        <5> QED
          BY <2>4, <4>2, <4>3, <5>1 DEF SkipTable
      <4>5. o = m + 1
        BY <1>3, <1>8, <2>n, <4>4
      <4> QED
        BY <1>4, <3>3, <4>5 DEF Symbols
    <3> QED
      BY <3>1, <3>2, <3>3
  <2>5. CASE /\ ~(m = 2 /\ s[1] = "DEFINE" /\ s[2] \in {"FIELD", "TABLE"}) /\ s[m] \notin TableWords
             /\ ~(s[m] = "ON" /\ SkipTable(w, b + m) = c)
    <3>1. SymbolFrom(w, b + m, c) = UnknownSymbol
      BY <1>3, <2>5, <2>n, SymbolHere
    <3> QED
      BY <1>11, <3>1
  <2> QED
    BY <2>1, <2>2, <2>3, <2>4, <2>5
<1>12. Classify(w, c) \in {IsField(Strip(t), Strip(f)), UnknownSymbol}
  <2> HIDE DEF w
  <2> QED
    BY <1>3, <1>11, Classified
<1> QED
  BY <1>4, <1>6, <1>12

LEMMA CursorsFound ==
  ASSUME SearchInv
  PROVE  CursorsAreRight
  BY TableCursor, FieldCursor DEF CursorsAreRight

-----------------------------------------------------------------------------
\* The table that a cursor is about.

LEMMA UpToAgrees ==
  ASSUME NEW w \in Seq(AllWords), NEW n \in 1..Len(w)
  PROVE  Agrees(SubSeq(w, 1, n), w, n)
<1>1. Len(w) \in Nat /\ n \in Nat /\ n <= Len(w) /\ 1 <= n
  OBVIOUS
<1>2. SubSeq(w, 1, n) = [i \in 1..n |-> w[i]]
  BY <1>1
<1> QED
  BY <1>1, <1>2 DEF Agrees

\* ON tells of the statement that defines something on a table, and of none
\* before it.
LEMMA OnDefinesHere ==
  ASSUME NEW w \in Seq(AllWords), NEW b, NEW s, Kept(w, b, s), NEW n, NEW v, Agrees(v, w, n),
         NEW m \in 1..Len(s), b + m <= n, OnDefines(v, b + m)
  PROVE  m = 4 /\ DefinesOn(s)
<1>1. b \in Nat /\ m \in Nat /\ m > 0 /\ Len(s) \in Nat /\ m <= Len(s) /\ s \in KnownStatements /\ n \in Nat /\ n <= Len(w)
  BY FormIsList DEF Kept, Agrees
<1>2. PICK j \in 2..(b + m) - 1 :
        /\ KeywordAt(v, j, {"FIELD", "INDEX", "EVENT"}) /\ KeywordAt(v, j - 1, {"DEFINE"})
        /\ \A k \in j + 1..(b + m) - 1 : IsWord(v, k) \/ v[k] \in {"<", ">", "."}
  BY <1>1 DEF OnDefines
<1>3. j \in Nat /\ j <= n /\ j - 1 \in Int /\ j - 1 <= n /\ j > 1 /\ j < b + m
  BY <1>1, <1>2
<1>4. KeywordAt(w, j, {"FIELD", "INDEX", "EVENT"}) /\ KeywordAt(w, j - 1, {"DEFINE"})
  BY <1>2, <1>3, KeywordBefore
<1>5. j # b
  <2>1. Terminator \notin {"FIELD", "INDEX", "EVENT"}
    BY Zenon DEF Terminator
  <2>2. ~KeywordAt(w, b, {"FIELD", "INDEX", "EVENT"})
    BY <2>1, NoKeywordBefore
  <2> QED
    BY <1>4, <2>2
<1>6. ~(j < b)
  <2> SUFFICES ASSUME j < b PROVE FALSE
    OBVIOUS
  <2>1. b \in j + 1..(b + m) - 1 /\ b \in 1..n /\ b # 0
    BY <1>1, <1>3
  <2>2. v[b] = w[b] /\ w[b] = Terminator
    BY <2>1 DEF Agrees, Kept
  <2>3. IsWord(v, b) \/ v[b] \in {"<", ">", "."}
    BY <1>2, <2>1
  <2>4. Terminator \in Punctuation
    BY DEF Punctuation
  <2>5. Terminator \notin {"<", ">", "."}
    BY Zenon DEF Terminator
  <2> QED
    BY <2>2, <2>3, <2>4, <2>5 DEF IsWord
<1> DEFINE q == j - b
<1>7. q \in 1..m - 1 /\ q \in 1..Len(s) /\ b + q = j /\ (b + q) - 1 = j - 1
  BY <1>1, <1>3, <1>5, <1>6
<1> HIDE DEF q
<1>8. q > 1 /\ s[q - 1] = "DEFINE"
  <2>1. "DEFINE" # Terminator
    BY Zenon DEF Terminator
  <2> QED
    BY <1>4, <1>7, <2>1, KeywordJustBefore, Compared
<1>9. q - 1 \in 1..Len(s)
  BY <1>1, <1>7, <1>8
<1>10. s[1] = "DEFINE" /\ 1 \in 1..Len(s)
  BY <1>1, <1>8, <1>9, DefinitionForm
<1>11. s[m] = "ON"
  <2>1. KeywordAt(w, b + m, {"ON"})
    BY <1>1, KeywordBefore DEF OnDefines
  <2>2. {"ON"} \in SUBSET ComparedWords
    BY Compared
  <2> QED
    BY <2>1, <2>2, KeywordHere
<1> QED
  BY <1>1, <1>10, <1>11, DefinitionForm

LEMMA DefinesOnTells ==
  ASSUME NEW x \in Seq(TextToken), NEW r, NEW b, NEW s, NEW t, NEW u, NEW p, NEW f, Block(x, r, b, s, t, u, p, f), DefinesOn(s),
         NEW n, NEW v, Agrees(v, Words(x), n), b + 4 <= n
  PROVE  OnDefines(v, b + 4)
<1> DEFINE w == Words(x)
<1>1. w \in Seq(AllWords) /\ Kept(w, b, s) /\ s \in KnownStatements
  <2>1. Kept(w, b, s)
    BY BlockKept
  <2> QED
    BY <2>1, WordsAreWords DEF Kept
<1>2. b \in Nat /\ Len(s) \in Nat /\ 4 < Len(s) /\ s[1] = "DEFINE" /\ s[2] \in {"FIELD", "INDEX", "EVENT"} /\ s[4] = "ON"
  BY <1>1, DefinesOnForm DEF Kept
<1>3. /\ 1 \in 1..Len(s) /\ 2 \in 1..Len(s) /\ 3 \in 1..Len(s) /\ 4 \in 1..Len(s)
      /\ b + 1 \in Int /\ b + 2 \in Int /\ b + 3 \in Int /\ b + 4 \in Int /\ n \in Nat
      /\ b + 1 <= n /\ b + 2 <= n /\ b + 3 <= n /\ (b + 2) - 1 = b + 1 /\ b + 2 \in 2..(b + 4) - 1
      /\ (b + 2) + 1..(b + 4) - 1 = {b + 3}
  BY <1>2 DEF Agrees
<1>4. s[3] \notin Punctuation /\ s[3] \notin {"P", "FIELD", "INDEX", "EVENT", "DEFINE", "ON"}
  BY <1>1, <1>2, <1>3, DefinitionForm
<1>5. s[3] \notin {"T", "U"}
  <2>1. ~IsLinked(s, 3)
    <3>1. ~StandsAt(s, 2, {"<"}) /\ ~StandsAt(s, 4, {":"})
      BY <1>2 DEF StandsAt
    <3> QED
      BY <3>1 DEF IsLinked
  <2>2. ~DefinesTable(s) /\ Behind(s, 4, "TABLE") # 3
    BY <1>1, <1>2, DefinesOnForm DEF DefinesTable, StandsAt
  <2>3. \A k \in DOMAIN s : ~IsAbout(s, k)
    BY <1>1, <1>2, <1>3, FormIsList, DefinitionForm DEF IsAbout, StandsAt
  <2> QED
    BY <1>1, <1>3, <2>1, <2>2, <2>3, FormIsList DEF TablesStand
<1>6. w[b + 3] \notin {"FIELD", "INDEX", "EVENT", "DEFINE"}
  <2>1. CASE s[3] = "F"
    <3>1. w[b + 3] \in {f, NewName}
      <4>1. 3 \in 1..Len(s) /\ s[3] = "F"
        BY <1>3, <2>1
      <4>2. Words(x)[b + 3] = x[b + 3].word /\ x[b + 3].word \in {f, NewName}
        BY <4>1, BlockTokens
      <4> QED
        BY <4>2
    <3>2. f \in FieldNames
      BY DEF Block
    <3> QED
      BY <3>1, <3>2, SearchAssumption, Zenon DEF ComparedWords
  <2>2. CASE s[3] \notin Symbols
    BY <1>1, <1>3, <1>4, <2>2, KeptOther
  <2> QED
    BY <1>4, <1>5, <2>1, <2>2 DEF Symbols
<1>7. ~KeywordAt(v, b + 3, {"FIELD", "INDEX", "EVENT", "DEFINE"}) /\ IsWord(v, b + 3)
  <2>1. IsWord(w, b + 3)
    BY <1>1, <1>3, <1>4, WordHere
  <2>2. ~KeywordAt(w, b + 3, {"FIELD", "INDEX", "EVENT", "DEFINE"})
    BY <1>6 DEF KeywordAt
  <2> QED
    BY <1>1, <1>3, <2>1, <2>2, KeywordBefore
<1>8. KeywordAt(v, b + 2, {"FIELD", "INDEX", "EVENT"})
  <2>1. KeywordAt(w, b + 2, {"FIELD", "INDEX", "EVENT"})
    BY <1>1, <1>2, DefinedHere
  <2> QED
    BY <1>1, <1>3, <2>1, KeywordBefore
<1>9. KeywordAt(v, b + 1, {"DEFINE"}) /\ KeywordAt(v, b + 4, {"ON"})
  <2>1. {"DEFINE"} \in SUBSET ComparedWords /\ {"ON"} \in SUBSET ComparedWords
    BY Compared
  <2>2. KeywordAt(w, b + 1, {"DEFINE"})
    BY <1>1, <1>2, <1>3, <2>1, KeywordHere
  <2>3. KeywordAt(w, b + 4, {"ON"})
    BY <1>1, <1>2, <1>3, <2>1, KeywordHere
  <2> QED
    BY <1>1, <1>3, <2>2, <2>3, KeywordBefore
<1> HIDE DEF w
<1> QED
  BY <1>3, <1>7, <1>8, <1>9 DEF OnDefines

\* The last word of the statement that tells.
UpTo(w, n) == SubSeq(w, 1, n)
Tells(v, i) == TakesTable(v, i) \/ OnDefines(v, i)

LEMMA ContextBy ==
  ASSUME NEW w \in Seq(AllWords), NEW b, NEW s, Kept(w, b, s), NEW e \in 1..Len(s) - 1, NEW n, n = b + e,
         NEW v, v = UpTo(w, n), NEW m \in 1..e, NEW i, i = b + m, Tells(v, i), \A j \in m + 1..e : ~Tells(v, b + j)
  PROVE  TableContext(w, n) = TableNameAfter(v, i)
<1> DEFINE tells == {k \in b + 1..n : Tells(v, k)}
<1>1. b \in Nat /\ e \in Nat /\ e > 0 /\ n \in Nat /\ m \in Nat /\ m > 0 /\ m <= e /\ e + 1 \in 1..Len(s) /\ n + 1 = b + (e + 1)
  <2>1. s \in KnownStatements /\ b \in Nat
    BY DEF Kept
  <2>2. Len(s) \in Nat
    BY <2>1, FormIsList
  <2> QED
    BY <2>1, <2>2
<1>2. StatementStart(w, n + 1) = b + 1
  BY <1>1, StartHere
<1>3. TableContext(w, n) = IF tells = {} THEN NoSymbol ELSE TableNameAfter(v, Max(tells))
  BY <1>2 DEF TableContext, Tells, UpTo
<1>4. tells \in SUBSET (1..n) /\ i \in tells
  BY <1>1
<1>5. Max(tells) \in tells /\ \A k \in tells : k <= Max(tells)
  <2> HIDE DEF tells
  <2> QED
    BY <1>1, <1>4, LastPosition
<1>6. Max(tells) = i
  <2> DEFINE j == Max(tells) - b
  <2>a. i <= Max(tells)
    BY <1>4, <1>5
  <2>b. Max(tells) \in b + 1..n
    BY <1>5
  <2>1. j \in m..e /\ b + j = Max(tells)
    BY <1>1, <2>a, <2>b
  <2>2. Tells(v, b + j)
    BY <1>5, <2>1
  <2> HIDE DEF j
  <2>3. j \notin m + 1..e
    BY <2>2
  <2>4. j = m
    BY <1>1, <2>1, <2>3
  <2> QED
    BY <2>1, <2>4
<1> HIDE DEF tells
<1>7. tells # {}
  BY <1>4
<1> QED
  BY <1>3, <1>6, <1>7

LEMMA ContextFound ==
  ASSUME SearchInv
  PROVE  ContextIsTheTable
<1> DEFINE w == Words(searched)
           newTables == {i \in HasRole("table") : KeywordAt(w, i - 1, {"TABLE"}) /\ KeywordAt(w, i - 2, {"DEFINE"})}
<1>1. /\ searched \in Seq(TextToken) /\ w \in Seq(AllWords) /\ DOMAIN w = 1..Len(searched) /\ DOMAIN searched = 1..Len(searched)
      /\ Len(searched) \in Nat /\ \A i \in 1..Len(searched) : w[i] = searched[i].word
  BY WordsAreWords DEF SearchInv, TextInv
<1>2. ASSUME NEW i \in HasRole("table") \ (Linked \cup newTables), NEW n \in i..StatementEnd(w, i) - 1,
             \A k \in Mistaken : ~(i < k /\ k <= n + 1)
      PROVE  TableContext(w, n) = NameOf(i)
  <2>1. i \in Standing /\ i \in DOMAIN searched /\ i \in HasRole("table") \ Linked
    BY DEF HasRole, Standing
  <2>2. PICK b, s, t, u, p, f, o : /\ Block(searched, renamed, b, s, t, u, p, f) /\ Kept(w, b, s)
                                   /\ o \in 1..Len(s) /\ i = b + o /\ s \in KnownStatements
    BY <2>1, TokenPlace
  <2>3. /\ s[o] = "T"
        /\ \/ o = 3 /\ DefinesTable(s)
           \/ o = Behind(s, 4, "TABLE") /\ DefinesOn(s)
           \/ \E k \in 1..Len(s) : IsAbout(s, k) /\ o = Behind(s, k, "ONLY")
    BY <1>1, <2>1, <2>2, NotLinkedHere
  <2>4. b \in Nat /\ o \in Nat /\ Len(s) \in Nat /\ DOMAIN s = 1..Len(s) /\ b + Len(s) <= Len(w) /\ Len(w) \in Nat
    <3>1. b \in Nat /\ b + Len(s) <= Len(w) /\ o \in Nat
      BY <2>2 DEF Kept
    <3> QED
      BY <1>1, <2>2, <3>1, FormIsList
  <2>5. NameOf(i) = Strip(w[b + o])
    BY <1>1, <2>1, <2>2 DEF NameOf
  <2>6. StatementEnd(w, i) = b + Len(s)
    BY <2>2, EndHere
  <2> DEFINE e == n - b
             v == SubSeq(w, 1, b + e)
  <2>7. e \in o..Len(s) - 1 /\ e \in 1..Len(s) - 1 /\ b + e = n /\ e \in Nat /\ n + 1 = b + (e + 1)
    BY <2>2, <2>4, <2>6
  <2>v. v = UpTo(w, b + e)
    BY DEF UpTo
  <2>8. Agrees(v, w, b + e)
    <3>1. b + e \in 1..Len(w)
      BY <2>4, <2>7
    <3> QED
      BY <1>1, <3>1, UpToAgrees
  <2> HIDE DEF w, e, v
  <2>9. ~(o = 3 /\ DefinesTable(s))
    <3> SUFFICES ASSUME o = 3, DefinesTable(s) PROVE i \in newTables
      OBVIOUS
    <3>1. s[1] = "DEFINE" /\ s[2] = "TABLE" /\ 1 \in 1..Len(s) /\ 2 \in 1..Len(s)
      BY <2>4 DEF DefinesTable, StandsAt
    <3>2. KeywordAt(w, b + 1, {"DEFINE"}) /\ KeywordAt(w, b + 2, {"TABLE"})
      <4>1. {"DEFINE"} \in SUBSET ComparedWords /\ {"TABLE"} \in SUBSET ComparedWords
        BY Compared
      <4> QED
        BY <2>2, <3>1, <4>1, KeywordHere
    <3>3. i - 1 = b + 2 /\ i - 2 = b + 1
      BY <2>2, <2>4
    <3> QED
      BY <2>1, <3>2, <3>3
  <2>10. CASE o = Behind(s, 4, "TABLE") /\ DefinesOn(s)
    <3>1. 4 < o /\ 4 \in 1..e /\ s[1] = "DEFINE" /\ 1 \in 1..Len(s)
      <4>1. o \in 5..Len(s) /\ s[1] = "DEFINE"
        BY <2>2, <2>10, DefinesOnForm
      <4> QED
        BY <2>4, <2>7, <4>1
    <3>2. OnDefines(v, b + 4)
      <4>1. b + 4 <= b + e
        BY <2>4, <2>7, <3>1
      <4> QED
        BY <1>1, <2>2, <2>8, <2>10, <4>1, DefinesOnTells DEF w
    <3>3. ASSUME NEW j \in 4 + 1..e PROVE ~TakesTable(v, b + j) /\ ~OnDefines(v, b + j)
      <4>1. j \in 1..Len(s) /\ b + j <= b + e /\ b + j \in Int /\ j # 4
        BY <2>4, <2>7
      <4>2. s[j] \notin TableWords
        BY <2>2, <3>1, <4>1, DefinitionForm
      <4>3. ~TakesTable(v, b + j)
        BY <1>1, <2>2, <2>8, <4>1, <4>2, TakesTableBefore, TakesTableHere
      <4> QED
        BY <1>1, <2>2, <2>8, <4>1, <4>3, OnDefinesHere
    <3>4. TableContext(w, b + e) = TableNameAfter(v, b + 4)
      <4>1. w \in Seq(AllWords) /\ Kept(w, b, s) /\ e \in 1..Len(s) - 1
        BY <1>1, <2>2, <2>7
      <4>2. 4 \in 1..e
        BY <3>1
      <4>3. Tells(v, b + 4) /\ \A j \in 4 + 1..e : ~Tells(v, b + j)
        BY <3>2, <3>3 DEF Tells
      <4> QED
        BY <2>v, <4>1, <4>2, <4>3, ContextBy
    <3>5. TableNameAfter(v, b + 4) = Strip(w[b + o])
      <4>1. b + o <= b + e
        BY <2>4, <2>7
      <4> QED
        BY <2>2, <2>8, <2>10, <4>1, DefinesOnHere
    <3> QED
      BY <2>5, <2>7, <3>4, <3>5
  <2>11. ASSUME NEW k \in 1..Len(s), IsAbout(s, k), o = Behind(s, k, "ONLY") PROVE TableContext(w, n) = NameOf(i)
    <3>1. s[k] \in TableWords
      BY <2>11 DEF IsAbout, StandsAt
    <3>2. o \in k + 1..Len(s) /\ o <= k + 2
      BY <2>2, <2>11, <3>1, TableWordForm
    <3>3. s[1] # "DEFINE"
      <4>1. 1 \in 1..Len(s)
        BY <2>2, <2>4
      <4> QED
        BY <2>2, <3>1, <4>1, DefinitionForm
    <3>4. ~DefinesOn(s)
      BY <3>3 DEF DefinesOn, StandsAt
    <3>5. k \in 1..e /\ b + k <= b + e /\ b + k \in Int /\ b + o <= b + e
      BY <2>4, <2>7, <3>2
    <3>6. TakesTable(v, b + k)
      BY <1>1, <2>2, <2>8, <3>1, <3>5, TakesTableBefore, TakesTableHere
    <3>7. ASSUME NEW j \in k + 1..e, s[j] \in TableWords PROVE FALSE
      <4>1. j \in 1..Len(s) /\ k < j /\ {s[k], s[j]} \subseteq TableWords /\ j \in Nat
        BY <2>4, <2>7, <3>1, <3>7
      <4>2. (j = k + 1 /\ DeletesFrom(s, k)) \/ EndsInField(s, j)
        BY <2>2, <2>4, <4>1, FormIsList DEF TableWordsStand
      <4>3. ~DeletesFrom(s, k)
        <5> SUFFICES ASSUME s[k + 1] = "FROM" PROVE FALSE
          BY DEF DeletesFrom, StandsAt
        <5>1. o = k + 1
          BY <2>11 DEF Behind
        <5> QED
          BY <2>3, <5>1
      <4>4. s[j] = "UPDATE" /\ s[j + 1] = "F" /\ j + 1 \in 1..Len(s)
        BY <2>4, <4>2, <4>3 DEF EndsInField, StandsAt
      <4>5. (j + 1) - 1 = j
        BY <4>1
      <4>6. MistakenIn(s, j + 1)
        BY <2>4, <4>1, <4>4, <4>5 DEF MistakenIn, StandsAt
      <4>7. b + (j + 1) \in Mistaken
        BY <1>1, <2>2, <4>4, <4>6, MistakenHere
      <4>8. o # j + 1
        BY <2>3, <4>4
      <4>9. i < b + (j + 1) /\ b + (j + 1) <= n + 1
        BY <2>2, <2>4, <2>7, <3>2, <4>1, <4>8
      <4> QED
        BY <1>2, <4>7, <4>9
    <3>8. ASSUME NEW j \in k + 1..e PROVE ~TakesTable(v, b + j) /\ ~OnDefines(v, b + j)
      <4>1. j \in 1..Len(s) /\ b + j <= b + e /\ b + j \in Int
        BY <2>4, <2>7
      <4>2. ~TakesTable(v, b + j)
        BY <1>1, <2>2, <2>8, <3>7, <4>1, TakesTableBefore, TakesTableHere
      <4> QED
        BY <1>1, <2>2, <2>8, <3>4, <4>1, <4>2, OnDefinesHere
    <3>9. TableContext(w, b + e) = TableNameAfter(v, b + k)
      <4>1. w \in Seq(AllWords) /\ Kept(w, b, s) /\ e \in 1..Len(s) - 1 /\ k \in 1..e
        BY <1>1, <2>2, <2>7, <3>5
      <4>2. Tells(v, b + k) /\ \A j \in k + 1..e : ~Tells(v, b + j)
        BY <3>6, <3>8 DEF Tells
      <4> QED
        BY <2>v, <4>1, <4>2, ContextBy
    <3>10. TableNameAfter(v, b + k) = Strip(w[b + o])
      BY <2>2, <2>8, <2>11, <3>1, <3>5, TableWordHere
    <3> QED
      BY <2>5, <2>7, <3>9, <3>10
  <2> QED
    BY <2>3, <2>9, <2>10, <2>11
<1> HIDE DEF w
<1> QED
  BY <1>2 DEF ContextIsTheTable, w

-----------------------------------------------------------------------------
\* The references of a field.

FieldsOf(t, f) == {i \in HasRole("field") : NameOf(i) = f /\ searched[i].of = t}

LEMMA TableName ==
  ASSUME SearchInv, NEW t0 \in {NameOf(i) : i \in HasRole("table")}
  PROVE  t0 \notin ComparedWords /\ (renamed # NoSymbol => t0 # renamed)
<1>1. PICK i \in HasRole("table") : t0 = NameOf(i)
  OBVIOUS
<1>2. PICK t \in Tables : NameOf(i) = Strip(t) /\ (renamed # NoSymbol => Strip(t) # renamed)
  BY TextTables
<1>3. Strip(t) \notin ComparedWords
  BY NamesStrip DEF Tables
<1> QED
  BY <1>1, <1>2, <1>3

\* A token that stands for a field, with the name and the table.
LEMMA FieldIsOf ==
  ASSUME searched \in Seq(TextToken), NEW b, NEW s, NEW t, NEW u, NEW p, NEW f,
         Block(searched, renamed, b, s, t, u, p, f), NEW o \in 1..Len(s), s[o] = "F",
         NEW j, j = b + o, NEW f0, Strip(Words(searched)[j]) = f0
  PROVE  j \in FieldsOf(Strip(t), f0)
<1>1. /\ j \in 1..Len(searched) /\ Words(searched)[j] = searched[j].word
      /\ searched[j].role = "field" /\ searched[j].of = Strip(t) /\ searched[j].form = "known"
  BY BlockTokens
<1>2. j \in DOMAIN searched
  BY <1>1, WordsAreWords
<1> QED
  BY <1>1, <1>2 DEF FieldsOf, HasRole, Standing, NameOf

\* Behind a path from its table.
LEMMA PathsFound ==
  ASSUME SearchInv, NEW t0 \in {NameOf(i) : i \in HasRole("table")}, NEW f0,
         NEW j \in 3..Len(Words(searched)), j \in Standing, Strip(Words(searched)[j]) = f0, Words(searched)[j - 1] = ".",
         Strip(Words(searched)[j - 2]) = t0
  PROVE  j \in FieldsOf(t0, f0)
<1> DEFINE w == Words(searched)
<1>1. /\ searched \in Seq(TextToken) /\ w \in Seq(AllWords) /\ DOMAIN searched = 1..Len(searched) /\ Len(w) = Len(searched)
      /\ Len(searched) \in Nat /\ \A i \in 1..Len(searched) : w[i] = searched[i].word
  BY WordsAreWords DEF SearchInv, TextInv
<1>2. j \in Standing /\ j \in DOMAIN searched
  BY DEF Standing
<1>3. PICK b, s, t, u, p, f, o : /\ Block(searched, renamed, b, s, t, u, p, f) /\ Kept(w, b, s)
                                 /\ o \in 1..Len(s) /\ j = b + o /\ s \in KnownStatements
  BY <1>2, TokenPlace
<1> HIDE DEF w
<1>4. o > 1 /\ s[o - 1] = "."
  <2>1. "." # Terminator
    BY Zenon DEF Terminator
  <2>2. b + o > 1 /\ w[(b + o) - 1] = "."
    BY <1>3 DEF w
  <2> QED
    BY <1>3, <2>1, <2>2, WordJustBefore, Compared
<1>5. b \in Nat /\ o \in Nat /\ Len(s) \in Nat /\ o <= Len(s) /\ DOMAIN s = 1..Len(s) /\ FieldsStand(s)
  BY <1>3, FormIsList DEF Kept
<1>6. o - 1 \in 1..Len(s) /\ (o - 1) - 1 = o - 2 /\ (o - 1) + 1 = o
  BY <1>4, <1>5
<1>7. s[o - 2] = "P" /\ o - 2 \in 1..Len(s) /\ s[o] = "F"
  <2>1. StandsAt(s, (o - 1) - 1, {"P"}) /\ StandsAt(s, (o - 1) + 1, {"F"})
    BY <1>4, <1>5, <1>6 DEF FieldsStand
  <2> QED
    BY <1>5, <1>6, <2>1 DEF StandsAt
<1>8. w[b + (o - 2)] = p /\ b + (o - 2) = j - 2
  <2>1. PICK h : h = o - 2
    OBVIOUS
  <2>2. h \in 1..Len(s) /\ s[h] = "P" /\ b + h = j - 2
    BY <1>3, <1>5, <1>7, <2>1
  <2>3. Words(searched)[b + h] = searched[b + h].word /\ searched[b + h].word = p
    BY <1>1, <1>3, <2>2, BlockTokens
  <2> QED
    BY <2>1, <2>2, <2>3 DEF w
<1>9. Strip(p) = t0
  BY <1>8 DEF w
<1>10. Strip(t) = t0
  <2>1. p \in TableNames /\ (Strip(p) = Strip(t) \/ Strip(p) = renamed)
    BY <1>3 DEF Block
  <2>2. Strip(p) # NoSymbol
    BY <2>1, NamesStrip
  <2> QED
    BY <1>9, <2>1, <2>2, TableName
<1> QED
  BY <1>1, <1>3, <1>7, <1>10, FieldIsOf

\* Where it is defined.
LEMMA DefinedFound ==
  ASSUME SearchInv, NEW t0, NEW f0,
         NEW j \in 3..Len(Words(searched)), j \in Standing, Strip(Words(searched)[j]) = f0,
         KeywordAt(Words(searched), j - 1, {"FIELD"}), KeywordAt(Words(searched), j - 2, {"DEFINE"}),
         OnTableAfter(Words(searched), j) = t0
  PROVE  j \in FieldsOf(t0, f0)
<1> DEFINE w == Words(searched)
<1>1. /\ searched \in Seq(TextToken) /\ w \in Seq(AllWords) /\ DOMAIN searched = 1..Len(searched) /\ Len(w) = Len(searched)
      /\ Len(searched) \in Nat /\ \A i \in 1..Len(searched) : w[i] = searched[i].word
  BY WordsAreWords DEF SearchInv, TextInv
<1>2. j \in Standing /\ j \in DOMAIN searched
  BY DEF Standing
<1>3. PICK b, s, t, u, p, f, o : /\ Block(searched, renamed, b, s, t, u, p, f) /\ Kept(w, b, s)
                                 /\ o \in 1..Len(s) /\ j = b + o /\ s \in KnownStatements
  BY <1>2, TokenPlace
<1> HIDE DEF w
<1>4. KeywordAt(w, j - 1, {"FIELD"}) /\ KeywordAt(w, j - 2, {"DEFINE"}) /\ OnTableAfter(w, j) = t0
  BY DEF w
<1>5. b \in Nat /\ o \in Nat /\ o > 0 /\ Len(s) \in Nat /\ o <= Len(s) /\ DOMAIN s = 1..Len(s)
  BY <1>3, FormIsList DEF Kept
<1>6. o > 1
  <2> SUFFICES ASSUME o = 1 PROVE FALSE
    BY <1>5
  <2>1. Terminator \notin {"FIELD"}
    BY Zenon DEF Terminator
  <2>2. j - 1 = b
    BY <1>3, <1>5
  <2> QED
    BY <1>3, <1>4, <2>1, <2>2, NoKeywordBefore
<1>7. o - 1 \in 1..Len(s) /\ (b + (o - 1)) - 1 = j - 2 /\ b + (o - 1) = j - 1
  BY <1>3, <1>5, <1>6
<1>8. o - 1 > 1 /\ s[(o - 1) - 1] = "DEFINE"
  <2>1. "DEFINE" # Terminator
    BY Zenon DEF Terminator
  <2>2. PICK h : h = o - 1
    OBVIOUS
  <2>3. h \in 1..Len(s) /\ KeywordAt(w, (b + h) - 1, {"DEFINE"})
    BY <1>4, <1>7, <2>2
  <2>4. h > 1 /\ s[h - 1] = "DEFINE"
    BY <1>3, <2>1, <2>3, KeywordJustBefore, Compared
  <2> QED
    BY <2>2, <2>4
<1>9. (o - 1) - 1 \in 1..Len(s)
  BY <1>5, <1>7, <1>8
<1>10. (o - 1) - 1 = 1 /\ s[1] = "DEFINE" /\ 1 \in 1..Len(s)
  BY <1>3, <1>8, <1>9, DefinitionForm
<1>11. o = 3 /\ b + 2 = j - 1
  BY <1>3, <1>5, <1>10
<1>12. s[2] = "FIELD"
  BY <1>3, <1>4, <1>10, <1>11, DefinedHere
<1>13. s[3] = "F" /\ DefinesOn(s)
  BY <1>3, <1>10, <1>12, DefinitionForm
<1>14. t0 = Strip(t)
  <2> DEFINE q == Behind(s, 4, "TABLE")
  <2>1. q \in 5..Len(s) /\ s[q] = "T" /\ OnTableAfter(w, b + 3) = Strip(w[b + q])
    BY <1>1, <1>3, <1>13, DefinesOnForm, DefinesOnHere, AgreesWithItself
  <2>2. q \in 1..Len(s)
    BY <1>5, <2>1
  <2> HIDE DEF q
  <2>3. w[b + q] = t
    <3>1. Words(searched)[b + q] = searched[b + q].word /\ searched[b + q].word = t
      BY <1>1, <1>3, <2>1, <2>2, BlockTokens
    <3> QED
      BY <3>1 DEF w
  <2> QED
    BY <1>3, <1>4, <1>11, <2>1, <2>3
<1> QED
  BY <1>1, <1>3, <1>11, <1>13, <1>14, FieldIsOf

\* Only one table is what a statement is about.
LEMMA AboutOne ==
  ASSUME NEW s \in KnownStatements, NEW k \in 1..Len(s), IsAbout(s, k), NEW o \in 1..Len(s),
         s[o] \in {"T", "U"}, Behind(s, k, "ONLY") < o
  PROVE  IsLinked(s, o)
<1>1. Len(s) \in Nat /\ DOMAIN s = 1..Len(s) /\ TablesStand(s) /\ TableWordsStand(s) /\ s[k] \in TableWords /\ k \in Nat
  BY FormIsList DEF IsAbout, StandsAt
<1>2. s[1] # "DEFINE"
  <2>1. 1 \in 1..Len(s)
    BY <1>1
  <2> QED
    BY <1>1, <2>1, DefinitionForm
<1>3. ~DefinesTable(s) /\ ~DefinesOn(s)
  BY <1>2 DEF DefinesTable, DefinesOn, StandsAt
<1>4. CASE s[o] = "U"
  BY <1>1, <1>4 DEF TablesStand
<1>5. ASSUME NEW h \in 1..Len(s), IsAbout(s, h), o = Behind(s, h, "ONLY") PROVE FALSE
  <2>1. h \in Nat /\ h # k /\ s[h] \in TableWords
    BY <1>1, <1>5 DEF IsAbout, StandsAt
  <2>2. ~DeletesFrom(s, h) /\ ~DeletesFrom(s, k) /\ ~EndsInField(s, h) /\ ~EndsInField(s, k)
    BY <1>5 DEF IsAbout, DeletesFrom, EndsInField, StandsAt, Behind
  <2>3. {s[h], s[k]} \subseteq TableWords /\ {s[k], s[h]} \subseteq TableWords
    BY <1>1, <2>1
  <2>4. ~(h < k) /\ ~(k < h)
    BY <1>1, <2>2, <2>3 DEF TableWordsStand
  <2> QED
    BY <1>1, <2>1, <2>4
<1> QED
  BY <1>1, <1>3, <1>4, <1>5 DEF TablesStand

\* A table in a link or a record id.
LEMMA LinkedHere ==
  ASSUME searched \in Seq(TextToken), NEW b, NEW s, NEW t, NEW u, NEW p, NEW f,
         Block(searched, renamed, b, s, t, u, p, f), NEW o \in 1..Len(s), s[o] \in {"T", "U"}, IsLinked(s, o)
  PROVE  b + o \in Linked
<1> DEFINE w == Words(searched)
<1>1. Kept(w, b, s) /\ w \in Seq(AllWords) /\ Len(w) = Len(searched) /\ DOMAIN searched = 1..Len(searched)
  BY BlockKept, WordsAreWords
<1>2. b \in Nat /\ o \in Nat /\ o > 0 /\ Len(s) \in Nat /\ o <= Len(s) /\ DOMAIN s = 1..Len(s) /\ s \in KnownStatements
  BY <1>1, FormIsList DEF Kept
<1>3. b + o \in HasRole("table")
  <2>1. b + o \in 1..Len(searched) /\ searched[b + o].role = "table" /\ searched[b + o].form = "known"
    BY BlockTokens
  <2> QED
    BY <1>1, <2>1 DEF HasRole, Standing
<1> HIDE DEF w
<1>4. o - 1 \in 1..Len(s) => (b + o) - 1 = b + (o - 1)
  BY <1>2
<1>5. CASE StandsAt(s, o - 1, {"<"}) /\ StandsAt(s, o - 2, {"RECORD"})
  <2>1. o - 1 \in 1..Len(s) /\ s[o - 1] = "<"
    BY <1>2, <1>5 DEF StandsAt
  <2>2. w[(b + o) - 1] = "<"
    BY <1>1, <1>4, <2>1, KeptWord, Compared
  <2> QED
    BY <1>3, <2>2 DEF Linked, w
<1>6. CASE StandsAt(s, o + 1, {":"}) /\ o > 2 /\ ~StandsAt(s, o - 1, TableWords \cup {"."})
  <2>1. s[o] \notin Punctuation
    BY SymbolsAreWords DEF Symbols
  <2>2. b + o < Len(w) /\ w[(b + o) + 1] = ":"
    BY <1>1, <1>6, <2>1, WordJustBehind
  <2>3. o - 1 \in 1..Len(s) /\ s[o - 1] \notin TableWords
    BY <1>2, <1>6 DEF StandsAt
  <2>4. ~TakesTable(w, (b + o) - 1)
    BY <1>1, <1>4, <2>3, TakesTableHere
  <2> QED
    BY <1>3, <2>2, <2>4 DEF Linked, w
<1> QED
  BY <1>5, <1>6 DEF IsLinked

\* What is found in the statement of a word stands in it.
LEMMA BareInside ==
  ASSUME NEW w, NEW b, NEW s, Kept(w, b, s), NEW o \in 1..Len(s), NEW i \in 1..Len(w), TakesTable(w, i),
         NEW f, b + o \in BareFields(w, i, f)
  PROVE  \E k \in 1..Len(s) : i = b + k
<1> DEFINE I == {k \in i..Len(w) : w[k] = Terminator} \cup {Len(w) + 1}
           J == {k \in i + 1..Len(w) : w[k] \notin {"ONLY", "TABLE"}}
<1>1. /\ b \in Nat /\ o \in Nat /\ o > 0 /\ o <= Len(s) /\ Len(s) \in Nat /\ i \in Nat /\ i > 0 /\ Len(w) \in Nat
      /\ (b = 0 \/ w[b] = Terminator) /\ b + Len(s) <= Len(w)
  BY KeptPlace, FormIsList DEF Kept
<1>2. w[i] # Terminator
  <2>1. Terminator \notin TableKeywords \cup {"INTO"}
    BY Zenon DEF Terminator, TableKeywords
  <2> QED
    BY <2>1 DEF TakesTable, KeywordAt
<1>3. SkipModifiers(w, i) = IF J # {} THEN Min(J) ELSE 0
  BY DEF SkipModifiers, SelectInSubSeq
<1>4. SkipModifiers(w, i) = 0 \/ (SkipModifiers(w, i) \in Nat /\ SkipModifiers(w, i) > i)
  <2>1. J \in SUBSET Nat /\ \A k \in J : k > i
    BY <1>1
  <2> HIDE DEF J
  <2>2. J # {} => Min(J) \in J
    BY <2>1, MinIsLeast
  <2> QED
    BY <1>3, <2>1, <2>2
<1>5. StatementEnd(w, i) = Min(I)
  BY DEF StatementEnd
<1>6. I \in SUBSET Nat /\ I # {}
  BY <1>1
<1>7. Min(I) \in Nat /\ \A k \in I : Min(I) <= k
  <2> HIDE DEF I
  <2> QED
    BY <1>6, MinIsLeast
<1>8. b + o < StatementEnd(w, i) /\ b + o > i
  <2> DEFINE table == SkipModifiers(w, i)
             first == (IF table = 0 THEN i + 1 ELSE table) + 1
  <2>1. b + o \in first..StatementEnd(w, i) - 1
    BY DEF BareFields
  <2>2. table = 0 \/ (table \in Nat /\ table > i)
    BY <1>4
  <2> HIDE DEF table
  <2>3. first \in Nat /\ first > i
    BY <1>1, <2>2
  <2> HIDE DEF first
  <2> QED
    BY <1>1, <1>5, <1>7, <2>1, <2>3
<1>9. ASSUME i <= b PROVE FALSE
  <2>1. b \in I
    BY <1>1, <1>9
  <2> QED
    BY <1>1, <1>5, <1>7, <1>8, <2>1
<1>10. i - b \in 1..Len(s) /\ i = b + (i - b)
  BY <1>1, <1>8, <1>9
<1> QED
  BY <1>10

\* In a statement that is about its table.
LEMMA BareFound ==
  ASSUME SearchInv, NEW t0 \in {NameOf(i) : i \in HasRole("table")}, NEW f0 \in FieldNames,
         NEW i \in DOMAIN Words(searched), TakesTable(Words(searched), i), TableNameAfter(Words(searched), i) = t0,
         NEW j \in BareFields(Words(searched), i, f0), j \in Standing
  PROVE  j \in FieldsOf(t0, f0) \cup Linked
<1> DEFINE w == Words(searched)
<1>1. /\ searched \in Seq(TextToken) /\ w \in Seq(AllWords) /\ DOMAIN searched = 1..Len(searched) /\ Len(w) = Len(searched)
      /\ DOMAIN w = 1..Len(searched) /\ Len(searched) \in Nat
  BY WordsAreWords DEF SearchInv, TextInv
<1>2. PICK b, s, t, u, p, f, k : /\ Block(searched, renamed, b, s, t, u, p, f) /\ Kept(w, b, s)
                                 /\ k \in 1..Len(s) /\ i = b + k /\ s \in KnownStatements
  <2>1. PICK b, s, t, u, p, f, o : /\ Block(searched, renamed, b, s, t, u, p, f) /\ Kept(w, b, s)
                                   /\ o \in 1..Len(s) /\ j = b + o /\ s \in KnownStatements
    BY TokenPlace
  <2>2. i \in 1..Len(w)
    BY <1>1
  <2> HIDE DEF w
  <2>3. TakesTable(w, i) /\ j \in BareFields(w, i, f0)
    BY DEF w
  <2>4. \E k \in 1..Len(s) : i = b + k
    BY <2>1, <2>2, <2>3, BareInside
  <2> QED
    BY <2>1, <2>4
<1> DEFINE q == Behind(s, k, "ONLY")
           o == j - b
<1> HIDE DEF w
<1>3. TakesTable(w, b + k) /\ TableNameAfter(w, b + k) = t0 /\ j \in BareFields(w, b + k, f0)
  BY <1>2 DEF w
<1>4. s[k] \in TableWords
  BY <1>2, <1>3, TakesTableHere
<1>5. b \in Nat /\ k \in Nat /\ Len(s) \in Nat /\ DOMAIN s = 1..Len(s) /\ b + Len(s) <= Len(w)
  BY <1>2, FormIsList DEF Kept
<1>6. /\ q \in k + 1..Len(s) /\ q <= k + 2
      /\ \/ IsAbout(s, k) /\ s[q] = "T"
         \/ q = k + 1 /\ s[q] = "FROM"
         \/ EndsInField(s, k) /\ q = k + 1 /\ s[q] = "F"
  BY <1>2, <1>4, TableWordForm
<1>7. SkipModifiers(w, b + k) = b + q /\ TableNameAfter(w, b + k) = Strip(w[b + q])
  <2>1. b + q <= Len(w)
    BY <1>5, <1>6
  <2> HIDE DEF q
  <2> QED
    BY <1>1, <1>2, <1>4, <2>1, TableWordHere, AgreesWithItself DEF q
<1> HIDE DEF q
<1>8. StatementEnd(w, b + k) = b + Len(s)
  BY <1>2, EndHere
<1>9. b + q # 0 /\ q \in 1..Len(s)
  BY <1>5, <1>6
<1>10. /\ j \in (b + q) + 1..(b + Len(s)) - 1 /\ IsWord(w, j) /\ Strip(w[j]) = f0 /\ f0 \notin DmlKeywords
  BY <1>3, <1>7, <1>8, <1>9 DEF BareFields
<1>11. o \in q + 1..Len(s) /\ o \in 1..Len(s) /\ j = b + o /\ q < o /\ k < o /\ k + 1 < o /\ o \in Nat
  BY <1>5, <1>6, <1>9, <1>10
<1> HIDE DEF o
<1>12. s[o] \in Symbols
  <2> SUFFICES ASSUME s[o] \notin Symbols PROVE FALSE
    OBVIOUS
  <2>1. w[b + o] = s[o]
    BY <1>2, <1>11, KeptOther
  <2>2. Strip(s[o]) = f0
    BY <1>10, <1>11, <2>1
  <2>3. Strip(s[o]) \in FieldNames => Strip(s[o]) \in DmlKeywords
    BY <1>2, <1>5, <1>11, FormIsList DEF OthersStand
  <2> QED
    BY <1>10, <2>2, <2>3
<1>13. s[o] # "P"
  <2>1. FieldsStand(s) /\ k \in DOMAIN s /\ o \in DOMAIN s
    BY <1>2, <1>5, <1>11, FormIsList
  <2> QED
    BY <1>4, <1>11, <2>1 DEF FieldsStand
<1>14. IsAbout(s, k) /\ s[q] = "T"
  <2>1. s[q] # "FROM"
    <3> SUFFICES ASSUME s[q] = "FROM" PROVE FALSE
      OBVIOUS
    <3>1. w[b + q] = "FROM"
      BY <1>2, <1>9, KeptWord, Compared
    <3>2. t0 = "FROM"
      BY <1>3, <1>7, <3>1 DEF Strip
    <3> QED
      BY <3>2, TableName, Compared
  <2>2. ~EndsInField(s, k)
    BY <1>5, <1>11, <1>12 DEF EndsInField
  <2> QED
    BY <1>6, <2>1, <2>2
<1>15. Strip(t) = t0
  <2>1. Words(searched)[b + q] = searched[b + q].word /\ searched[b + q].word = t
    BY <1>1, <1>2, <1>9, <1>14, BlockTokens
  <2> QED
    BY <1>3, <1>7, <2>1 DEF w
<1>16. CASE s[o] = "F"
  <2>1. Strip(Words(searched)[j]) = f0
    BY <1>10 DEF w
  <2> QED
    BY <1>1, <1>2, <1>11, <1>15, <1>16, <2>1, FieldIsOf
<1>17. CASE s[o] \in {"T", "U"}
  <2>1. IsLinked(s, o)
    BY <1>2, <1>11, <1>14, <1>17, AboutOne DEF q
  <2> QED
    BY <1>1, <1>2, <1>11, <1>17, <2>1, LinkedHere
<1> QED
  BY <1>12, <1>13, <1>16, <1>17 DEF Symbols

\* None is missed.
LEMMA FieldMissed ==
  ASSUME SearchInv, NEW t0, NEW f0 \in FieldNames, f0 \notin DmlKeywords, NEW i \in FieldsOf(t0, f0)
  PROVE  LET w == Words(searched) IN
         \/ i \in FieldReferences(w, t0, f0) \/ w[i - 1] \in {"FIELDS", "SELECT"}
         \/ w[i - 1] = "." /\ renamed # NoSymbol
<1> DEFINE w == Words(searched)
<1>1. /\ searched \in Seq(TextToken) /\ w \in Seq(AllWords) /\ DOMAIN searched = 1..Len(searched) /\ Len(w) = Len(searched)
      /\ DOMAIN w = 1..Len(searched) /\ Len(searched) \in Nat /\ \A h \in 1..Len(searched) : w[h] = searched[h].word
  BY WordsAreWords DEF SearchInv, TextInv
<1>2. /\ i \in Standing /\ i \in DOMAIN searched /\ searched[i].role = "field"
      /\ Strip(searched[i].word) = f0 /\ searched[i].of = t0
  BY DEF FieldsOf, HasRole, Standing, NameOf
<1>3. PICK b, s, t, u, p, f, o : /\ Block(searched, renamed, b, s, t, u, p, f) /\ Kept(w, b, s)
                                 /\ o \in 1..Len(s) /\ i = b + o /\ s \in KnownStatements
  BY <1>2, TokenPlace
<1>4. s[o] = "F" /\ Strip(t) = t0 /\ Strip(w[i]) = f0
  <2>1. s[o] = "F" /\ searched[b + o].of = Strip(t)
    BY <1>1, <1>2, <1>3, BlockTokens
  <2>2. w[i] = searched[i].word
    BY <1>1, <1>2
  <2> QED
    BY <1>2, <1>3, <2>1, <2>2
<1>5. /\ b \in Nat /\ o \in Nat /\ o > 0 /\ Len(s) \in Nat /\ o <= Len(s) /\ DOMAIN s = 1..Len(s)
      /\ FieldsStand(s) /\ b + Len(s) <= Len(w)
  BY <1>3, FormIsList DEF Kept
<1>6. IsWord(w, i) /\ o + 1 \in 1..Len(s)
  <2>1. s[o] \notin Punctuation
    BY <1>4, SymbolsAreWords DEF Symbols
  <2> HIDE DEF w
  <2> QED
    BY <1>3, <2>1, WordHere, WordJustBehind
<1>7. /\ o > 1
      /\ \/ s[o - 1] \in {".", "FIELDS", "SELECT"}
         \/ o = 3 /\ DefinesOn(s)
         \/ \E k \in DOMAIN s : IsAbout(s, k) /\ Behind(s, k, "ONLY") < o
  BY <1>4, <1>5, <1>3 DEF FieldsStand
<1>8. o - 1 \in 1..Len(s) /\ i - 1 = b + (o - 1) /\ i \in 1..Len(w)
  BY <1>1, <1>2, <1>3, <1>5, <1>7
<1> HIDE DEF w
<1>9. CASE s[o - 1] \in {"FIELDS", "SELECT"}
  <2>1. s[o - 1] \notin Symbols
    BY <1>9 DEF Symbols
  <2>2. w[i - 1] = s[o - 1]
    BY <1>3, <1>8, <2>1, KeptOther
  <2> QED
    BY <1>9, <2>2 DEF w
<1>10. CASE s[o - 1] = "."
  <2>1. w[i - 1] = "."
    BY <1>3, <1>8, <1>10, KeptWord, Compared
  <2>2. CASE renamed # NoSymbol
    BY <2>1, <2>2 DEF w
  <2>3. CASE renamed = NoSymbol
    <3>1. StandsAt(s, (o - 1) - 1, {"P"})
      BY <1>5, <1>8, <1>10 DEF FieldsStand
    <3> DEFINE h == (o - 1) - 1
    <3>2. h \in 1..Len(s) /\ s[h] = "P"
      BY <1>5, <3>1 DEF StandsAt
    <3>3. b + h = i - 2 /\ i \in 3..Len(w)
      BY <1>3, <1>5, <1>8, <3>2
    <3> HIDE DEF h
    <3>4. w[i - 2] = p /\ IsWord(w, i - 2)
      <4>1. Words(searched)[b + h] = searched[b + h].word /\ searched[b + h].word = p
        BY <1>1, <1>3, <3>2, BlockTokens
      <4>2. IsWord(w, b + h)
        BY <1>3, <3>2, SymbolsAreWords, WordHere DEF Symbols
      <4> QED
        BY <3>3, <4>1, <4>2 DEF w
    <3>5. Strip(p) = t0
      BY <1>3, <1>4, <2>3 DEF Block
    <3>6. i \in FieldReferences(w, t0, f0)
      BY <1>4, <1>6, <2>1, <3>3, <3>4, <3>5 DEF FieldReferences
    <3> QED
      BY <3>6 DEF w
  <2> QED
    BY <2>2, <2>3
<1>11. CASE o = 3 /\ DefinesOn(s)
  <2> DEFINE q == Behind(s, 4, "TABLE")
  <2>1. /\ q \in 5..Len(s) /\ s[q] = "T" /\ OnTableAfter(w, b + 3) = Strip(w[b + q]) /\ s[1] = "DEFINE"
    BY <1>1, <1>3, <1>11, DefinesOnForm, DefinesOnHere, AgreesWithItself
  <2>2. q \in 1..Len(s) /\ 1 \in 1..Len(s) /\ i \in 3..Len(w) /\ i - 1 = b + 2 /\ i - 2 = b + 1 /\ i = b + 3
    BY <1>3, <1>5, <1>8, <1>11, <2>1
  <2> HIDE DEF q
  <2>3. w[b + q] = t
    <3>1. Words(searched)[b + q] = searched[b + q].word /\ searched[b + q].word = t
      BY <1>1, <1>3, <2>1, <2>2, BlockTokens
    <3> QED
      BY <3>1 DEF w
  <2>4. s[2] = "FIELD"
    BY <1>3, <1>4, <1>11, <2>1, <2>2, DefinitionForm
  <2>5. KeywordAt(w, b + 2, {"FIELD"})
    BY <1>3, <2>1, <2>4, DefinedHere
  <2>6. KeywordAt(w, b + 1, {"DEFINE"})
    <3>1. {"DEFINE"} \in SUBSET ComparedWords
      BY Compared
    <3> QED
      BY <1>3, <2>1, <2>2, <3>1, KeywordHere
  <2>7. OnTableAfter(w, i) = t0
    BY <1>4, <2>1, <2>2, <2>3
  <2>8. i \in FieldReferences(w, t0, f0)
    BY <1>4, <1>6, <2>2, <2>5, <2>6, <2>7 DEF FieldReferences
  <2> QED
    BY <2>8 DEF w
<1>12. ASSUME s[o - 1] # ".", NEW k \in 1..Len(s), IsAbout(s, k), Behind(s, k, "ONLY") < o
       PROVE  i \in FieldReferences(w, t0, f0)
  <2> DEFINE q == Behind(s, k, "ONLY")
  <2>1. s[k] \in TableWords /\ s[q] = "T"
    BY <1>12 DEF IsAbout, StandsAt
  <2>2. q \in k + 1..Len(s) /\ k \in Nat /\ q < o
    BY <1>3, <1>12, <2>1, TableWordForm
  <2> HIDE DEF q
  <2>3. q \in 1..Len(s) /\ b + q # 0 /\ b + q <= Len(w) /\ b + k \in DOMAIN w /\ i \in (b + q) + 1..(b + Len(s)) - 1
    <3>1. q \in Nat /\ q > 0 /\ q < o /\ k \in Nat /\ k > 0 /\ k <= Len(s) /\ o < Len(s)
      BY <1>5, <1>6, <2>2
    <3>2. i = b + o /\ DOMAIN w = 1..Len(w)
      BY <1>1, <1>3
    <3> QED
      BY <1>5, <3>1, <3>2
  <2>4. SkipModifiers(w, b + k) = b + q /\ TableNameAfter(w, b + k) = Strip(w[b + q])
    <3>1. Agrees(w, w, Len(w))
      BY <1>1, AgreesWithItself
    <3> QED
      BY <1>3, <2>1, <2>3, <3>1, TableWordHere DEF q
  <2>5. Strip(w[b + q]) = t0
    <3>1. Words(searched)[b + q] = searched[b + q].word /\ searched[b + q].word = t
      BY <1>1, <1>3, <2>1, <2>3, BlockTokens
    <3> QED
      BY <1>4, <3>1 DEF w
  <2>6. w[i - 1] # "."
    BY <1>3, <1>8, <1>12, KeptWord, Compared
  <2>7. StatementEnd(w, b + k) = b + Len(s)
    BY <1>3, EndHere
  <2>8. i \in BareFields(w, b + k, f0)
    BY <1>4, <1>6, <2>3, <2>4, <2>6, <2>7 DEF BareFields
  <2>9. TakesTable(w, b + k)
    BY <1>3, <2>1, TakesTableHere
  <2> QED
    BY <2>3, <2>4, <2>5, <2>8, <2>9 DEF FieldReferences
<1> QED
  BY <1>5, <1>7, <1>9, <1>10, <1>11, <1>12 DEF w

LEMMA FieldsFound ==
  ASSUME SearchInv
  PROVE  FieldsAreTheirTables
<1> DEFINE w == Words(searched)
           fields(t, f) == {i \in HasRole("field") : NameOf(i) = f /\ searched[i].of = t}
<1> SUFFICES ASSUME NEW t \in {NameOf(i) : i \in HasRole("table")}, NEW f \in FieldNames
             PROVE  /\ FieldReferences(w, t, f) \cap Standing \subseteq fields(t, f) \cup Linked
                    /\ f \notin DmlKeywords =>
                         \A i \in fields(t, f) :
                           \/ i \in FieldReferences(w, t, f) \/ w[i - 1] \in {"FIELDS", "SELECT"}
                           \/ w[i - 1] = "." /\ renamed # NoSymbol
  BY DEF FieldsAreTheirTables
<1>1. fields(t, f) = FieldsOf(t, f)
  BY DEF FieldsOf
<1> HIDE DEF fields
<1>2. ASSUME NEW j \in FieldReferences(w, t, f) \cap Standing PROVE j \in FieldsOf(t, f) \cup Linked
  <2>1. CASE j \in {h \in 3..Len(w) : /\ IsWord(w, h) /\ Strip(w[h]) = f /\ w[h - 1] = "."
                                      /\ IsWord(w, h - 2) /\ Strip(w[h - 2]) = t}
    BY <2>1, PathsFound
  <2>2. CASE j \in {h \in 3..Len(w) : /\ IsWord(w, h) /\ Strip(w[h]) = f
                                      /\ KeywordAt(w, h - 1, {"FIELD"}) /\ KeywordAt(w, h - 2, {"DEFINE"})
                                      /\ OnTableAfter(w, h) = t}
    BY <2>2, DefinedFound
  <2>3. CASE j \in UNION {BareFields(w, i, f) : i \in {i \in DOMAIN w : TakesTable(w, i) /\ TableNameAfter(w, i) = t}}
    BY <2>3, BareFound
  <2> HIDE DEF w
  <2> QED
    BY <2>1, <2>2, <2>3 DEF FieldReferences
<1>3. ASSUME f \notin DmlKeywords, NEW i \in FieldsOf(t, f)
      PROVE  \/ i \in FieldReferences(w, t, f) \/ w[i - 1] \in {"FIELDS", "SELECT"}
             \/ w[i - 1] = "." /\ renamed # NoSymbol
  BY <1>3, FieldMissed
<1> QED
  BY <1>1, <1>2, <1>3

-----------------------------------------------------------------------------
\* In a text of any number of statements of any forms, with any names: around a
\* token of a statement whose form it knows, context.rs finds what was typed
\* there, and a renaming changes every name of its table in these statements,
\* and nothing else in them but fields that it takes for the table.
THEOREM SymbolsFound == SearchSpec => []SymbolsAreFound
<1>1. ASSUME SearchInv PROVE SymbolsAreFound
  BY <1>1, OccurrencesFound, RenamedGone, ReferencesFound, CursorsFound, ContextFound, FieldsFound DEF SymbolsAreFound
<1> QED
  BY <1>1, TextsStaySound, PTL
=============================================================================
