---------------------------- MODULE SchemaProofs ----------------------------
(***************************************************************************)
(* What is done with schema files.  For every list of modules, of any      *)
(* length and with any names and dependencies: what the sort returns is in *)
(* topological order and complete, and what it refuses as circular is, or  *)
(* has a duplicate name.  For every number of files and of overlapping     *)
(* calls of apply_migrations: the engine's types, and that replays lose    *)
(* nothing, are exact when they are alone, and are skipped only when they  *)
(* may be.  For every list of definitions in any number of files, merged   *)
(* in any order: what the schema graph has and what compare_schemas        *)
(* reports; for any number of tasks: what the files written for editors    *)
(* say; and for any record links: what the traversals return.              *)
(***************************************************************************)
EXTENDS TopologicalSort, EmbeddedEngine, Derived, DependencyTree, Extrema

-----------------------------------------------------------------------------
(* Sorted(S) lists S.                                                      *)

Smaller(n, S) == {m \in S : m < n}

\* A greater name has more smaller names, and none has as many as there are.
LEMMA RanksGrow ==
  ASSUME NEW S \in SUBSET Nat, IsFiniteSet(S), NEW n \in S
  PROVE  /\ Cardinality(Smaller(n, S)) \in 0..(Cardinality(S) - 1)
         /\ \A m \in Smaller(n, S) : Cardinality(Smaller(m, S)) < Cardinality(Smaller(n, S))
<1>1. ASSUME NEW T \in SUBSET S, NEW U \in SUBSET T, NEW x \in T, x \notin U
      PROVE  Cardinality(U) \in Nat /\ Cardinality(T) \in Nat /\ Cardinality(U) < Cardinality(T)
  <2>1. IsFiniteSet(T) /\ IsFiniteSet(T \ {x}) /\ Cardinality(T \ {x}) = Cardinality(T) - 1
    BY FS_Subset, FS_RemoveElement
  <2>2. U \in SUBSET (T \ {x})
    BY <1>1
  <2>3. IsFiniteSet(U) /\ Cardinality(U) <= Cardinality(T \ {x})
    BY <2>1, <2>2, FS_Subset
  <2> QED
    BY <2>1, <2>3, FS_CardinalityType
<1>2. Smaller(n, S) \in SUBSET S /\ n \notin Smaller(n, S)
  BY DEF Smaller
<1>3. ASSUME NEW m \in Smaller(n, S)
      PROVE  Cardinality(Smaller(m, S)) < Cardinality(Smaller(n, S))
  <2>1. m \in S /\ m < n
    BY DEF Smaller
  <2>2. \A l \in S : l < m => l < n
    BY <2>1
  <2>3. Smaller(m, S) \subseteq Smaller(n, S)
    BY <2>2 DEF Smaller
  <2>4. m \notin Smaller(m, S)
    BY <2>1 DEF Smaller
  <2> QED
    BY <1>1, <1>2, <2>1, <2>3, <2>4, Zenon
<1>4. /\ Cardinality(Smaller(n, S)) \in Nat /\ Cardinality(S) \in Nat
      /\ Cardinality(Smaller(n, S)) < Cardinality(S)
  BY <1>1, <1>2
<1> QED
  BY <1>3, <1>4

\* Every element of a finite set of names is at one place of the sorted
\* list (schema.rs, queue.sort).
LEMMA SortedLists ==
  ASSUME NEW S \in SUBSET Nat, IsFiniteSet(S)
  PROVE  Sorted(S) \in Seq(S) /\ Range(Sorted(S)) = S /\ IsInjective(Sorted(S))
<1> DEFINE k == Cardinality(S)
           Rank == [n \in S |-> Cardinality(Smaller(n, S)) + 1]
<1>1. k \in Nat
  BY FS_CardinalityType
<1>2. Rank \in [S -> 1..k]
  <2>1. ASSUME NEW n \in S PROVE Cardinality(Smaller(n, S)) + 1 \in 1..k
    BY <1>1, RanksGrow
  <2> QED
    BY <2>1
<1>3. \A m, n \in S : Rank[m] = Rank[n] => m = n
  <2>1. ASSUME NEW m \in S, NEW n \in S, m < n PROVE Rank[m] # Rank[n]
    <3>1. m \in Smaller(n, S)
      BY <2>1 DEF Smaller
    <3>2. Cardinality(Smaller(m, S)) < Cardinality(Smaller(n, S))
      BY <3>1, RanksGrow
    <3> QED
      BY <1>1, <3>2, RanksGrow
  <2> QED
    BY <2>1
<1>4. Rank \in Surjection(S, 1..k)
  <2>1. IsFiniteSet(1..k) /\ Cardinality(1..k) = k
    BY <1>1, FS_Interval
  <2>2. Rank \in Injection(S, 1..k)
    BY <1>2, <1>3 DEF Injection, IsInjective
  <2> QED
    BY <2>1, <2>2, FS_Injection
<1>5. \A i \in 1..k : \E n \in S : Rank[n] = i
  BY <1>4 DEF Surjection
<1>6. ASSUME NEW i \in 1..k PROVE Sorted(S)[i] \in S /\ Rank[Sorted(S)[i]] = i
  <2>1. \E n \in S : Cardinality({m \in S : m < n}) = i - 1
    <3>1. PICK n \in S : Rank[n] = i
      BY <1>5
    <3>2. Cardinality(Smaller(n, S)) = i - 1
      BY <1>1, <3>1, RanksGrow
    <3> QED
      BY <3>2 DEF Smaller
  <2>2. Sorted(S)[i] = CHOOSE n \in S : Cardinality({m \in S : m < n}) = i - 1
    BY DEF Sorted
  <2>3. Sorted(S)[i] \in S /\ Cardinality({m \in S : m < Sorted(S)[i]}) = i - 1
    BY <2>1, <2>2
  <2> QED
    BY <1>1, <2>3 DEF Smaller
<1>7. DOMAIN Sorted(S) = 1..k
  BY DEF Sorted
<1>8. Sorted(S) \in Seq(S)
  <2>1. Sorted(S) \in [1..k -> S]
    BY <1>6, <1>7 DEF Sorted
  <2> QED
    BY <1>1, <2>1
<1>9. \A n \in S : Sorted(S)[Rank[n]] = n
  BY <1>2, <1>3, <1>6
<1>10. Range(Sorted(S)) = S
  <2>1. \A n \in S : \E i \in DOMAIN Sorted(S) : Sorted(S)[i] = n
    BY <1>2, <1>7, <1>9
  <2>2. \A i \in DOMAIN Sorted(S) : Sorted(S)[i] \in S
    BY <1>6, <1>7
  <2> QED
    BY <2>1, <2>2 DEF Range
<1>11. IsInjective(Sorted(S))
  <2>1. ASSUME NEW i \in 1..k, NEW j \in 1..k, Sorted(S)[i] = Sorted(S)[j] PROVE i = j
    BY <1>6, <2>1
  <2> QED
    BY <1>7, <2>1 DEF IsInjective
<1> QED
  BY <1>8, <1>10, <1>11

\* A list has as many places as it is long (schema.rs, the list of modules).
LEMMA PlacesAreFinite ==
  ASSUME NEW S, NEW s \in Seq(S)
  PROVE  /\ Len(s) \in Nat /\ DOMAIN s = 1..Len(s)
         /\ IsFiniteSet(DOMAIN s) /\ Cardinality(DOMAIN s) = Len(s)
<1>1. Len(s) \in Nat /\ DOMAIN s = 1..Len(s)
  OBVIOUS
<1>2. ASSUME NEW n \in Nat PROVE IsFiniteSet(1..n) /\ Cardinality(1..n) = n
  BY FS_Interval
<1> QED
  BY <1>1, <1>2

\* A list without repetition stays one when names that it does not have are
\* put behind it (schema.rs, the queue).
LEMMA ListsJoin ==
  ASSUME NEW S, NEW s \in Seq(S), NEW t \in Seq(S),
         IsInjective(s), IsInjective(t), Range(s) \cap Range(t) = {}
  PROVE  /\ s \o t \in Seq(S) /\ IsInjective(s \o t)
         /\ Range(s \o t) = Range(s) \cup Range(t)
<1> DEFINE u == s \o t
<1>1. u \in Seq(S) /\ Len(u) = Len(s) + Len(t)
  OBVIOUS
<1>2. \A i \in 1..Len(s) : u[i] = s[i]
  OBVIOUS
<1>3. \A i \in 1..Len(t) : u[i + Len(s)] = t[i]
  OBVIOUS
<1>4. Len(s) \in Nat /\ Len(t) \in Nat /\ DOMAIN s = 1..Len(s) /\ DOMAIN t = 1..Len(t) /\ DOMAIN u = 1..Len(u)
  BY <1>1
<1>5. ASSUME NEW i \in DOMAIN u
      PROVE  \/ i \in DOMAIN s /\ u[i] = s[i]
             \/ i - Len(s) \in DOMAIN t /\ u[i] = t[i - Len(s)]
  <2>1. CASE i <= Len(s)
    BY <1>2, <1>4, <2>1
  <2>2. CASE i > Len(s)
    <3>1. i - Len(s) \in 1..Len(t) /\ (i - Len(s)) + Len(s) = i
      BY <1>1, <1>4, <2>2
    <3> QED
      BY <1>3, <1>4, <3>1
  <2> QED
    BY <1>1, <1>4, <2>1, <2>2
<1> HIDE DEF u
<1>6. Range(u) = Range(s) \cup Range(t)
  <2>1. \A x \in Range(u) : x \in Range(s) \cup Range(t)
    BY <1>5 DEF Range
  <2>2. ASSUME NEW x \in Range(s) PROVE x \in Range(u)
    <3>1. PICK i \in 1..Len(s) : x = s[i]
      BY <1>4, <2>2 DEF Range
    <3>2. i \in DOMAIN u /\ u[i] = x
      BY <1>1, <1>2, <1>4, <3>1
    <3> QED
      BY <3>2 DEF Range
  <2>3. ASSUME NEW x \in Range(t) PROVE x \in Range(u)
    <3>1. PICK i \in 1..Len(t) : x = t[i]
      BY <1>4, <2>3 DEF Range
    <3>2. i + Len(s) \in DOMAIN u /\ u[i + Len(s)] = x
      BY <1>1, <1>3, <1>4, <3>1
    <3> QED
      BY <3>2 DEF Range
  <2> QED
    BY <2>1, <2>2, <2>3
<1>7. ASSUME NEW i \in DOMAIN u, NEW j \in DOMAIN u, u[i] = u[j] PROVE i = j
  <2>1. \A a \in DOMAIN s : s[a] \in Range(s)
    BY DEF Range
  <2>2. \A a \in DOMAIN t : t[a] \in Range(t)
    BY DEF Range
  <2>3. \A a, b \in DOMAIN s : s[a] = s[b] => a = b
    BY DEF IsInjective
  <2>4. \A a, b \in DOMAIN t : t[a] = t[b] => a = b
    BY DEF IsInjective
  <2>5. i \in Nat /\ j \in Nat
    BY <1>1, <1>4
  <2>6. CASE i \in DOMAIN s /\ u[i] = s[i]
    <3>1. j \in DOMAIN s /\ u[j] = s[j]
      BY <1>5, <1>7, <2>1, <2>2, <2>6
    <3> QED
      BY <1>7, <2>3, <2>6, <3>1
  <2>7. CASE i - Len(s) \in DOMAIN t /\ u[i] = t[i - Len(s)]
    <3>1. j - Len(s) \in DOMAIN t /\ u[j] = t[j - Len(s)]
      BY <1>5, <1>7, <2>1, <2>2, <2>7
    <3>2. i - Len(s) = j - Len(s)
      BY <1>7, <2>4, <2>7, <3>1
    <3> QED
      BY <1>4, <2>5, <3>2
  <2> QED
    BY <1>5, <2>6, <2>7
<1> QED
  BY <1>1, <1>6, <1>7 DEF IsInjective, u

\* Taking the front from a list without repetition takes it away.
LEMMA FrontTaken ==
  ASSUME NEW S, NEW s \in Seq(S), s # <<>>, IsInjective(s)
  PROVE  /\ Head(s) \in S /\ Tail(s) \in Seq(S) /\ IsInjective(Tail(s))
         /\ Range(Tail(s)) = Range(s) \ {Head(s)} /\ Head(s) \in Range(s)
<1> DEFINE t == Tail(s)
<1>1. /\ Head(s) \in S /\ t \in Seq(S) /\ Len(t) = Len(s) - 1 /\ Head(s) = s[1]
      /\ \A i \in 1..Len(t) : t[i] = s[i + 1]
  OBVIOUS
<1>2. Len(s) \in Nat \ {0} /\ DOMAIN s = 1..Len(s) /\ DOMAIN t = 1..Len(t)
  BY <1>1
<1> HIDE DEF t
<1>3. \A a, b \in DOMAIN s : s[a] = s[b] => a = b
  BY DEF IsInjective
<1>4. IsInjective(t)
  <2>1. ASSUME NEW i \in 1..Len(t), NEW j \in 1..Len(t), t[i] = t[j] PROVE i = j
    <3>1. i + 1 \in DOMAIN s /\ j + 1 \in DOMAIN s /\ s[i + 1] = s[j + 1]
      BY <1>1, <1>2, <2>1
    <3> QED
      BY <1>3, <3>1
  <2> QED
    BY <1>2, <2>1 DEF IsInjective
<1>5. ASSUME NEW x PROVE x \in Range(t) <=> x \in Range(s) /\ x # s[1]
  <2>1. ASSUME x \in Range(t) PROVE x \in Range(s) /\ x # s[1]
    <3>1. PICK i \in 1..Len(t) : x = t[i]
      BY <1>2, <2>1 DEF Range
    <3>2. i + 1 \in DOMAIN s /\ x = s[i + 1] /\ i + 1 # 1 /\ 1 \in DOMAIN s
      BY <1>1, <1>2, <3>1
    <3> QED
      BY <1>3, <3>2 DEF Range
  <2>2. ASSUME x \in Range(s), x # s[1] PROVE x \in Range(t)
    <3>1. PICK i \in 1..Len(s) : x = s[i]
      BY <1>2, <2>2 DEF Range
    <3>2. i - 1 \in 1..Len(t) /\ (i - 1) + 1 = i
      BY <1>1, <1>2, <2>2, <3>1
    <3>3. i - 1 \in DOMAIN t /\ t[i - 1] = x
      BY <1>1, <1>2, <3>1, <3>2
    <3> QED
      BY <3>3 DEF Range
  <2> QED
    BY <2>1, <2>2
<1>6. Head(s) \in Range(s)
  BY <1>1, <1>2 DEF Range
<1> QED
  BY <1>1, <1>4, <1>5, <1>6 DEF t

-----------------------------------------------------------------------------
(* The invariant.                                                          *)

NameAt(i) == modules[result[i]].name
Taken == {NameAt(i) : i \in DOMAIN result}

\* The entries of n that wait for a module, and those that wait for d.
Open(n) == {e \in Entries : Dependent(e) = n /\ DependsOn(e) \notin Taken}
Waiting(d, n) == {e \in Entries : Dependent(e) = n /\ DependsOn(e) = d}

\* A name is counted by its open entries; it is in the queue, or placed,
\* once it has none; and what is placed has its dependencies before it.
SortInv ==
  /\ modules \in Seq(ModuleConfig) /\ result \in Seq(DOMAIN modules)
  /\ queue \in Seq(Names) /\ IsInjective(queue) /\ Range(queue) \cap Taken = {}
  /\ inDegree = [n \in Names |-> Cardinality(Open(n))]
  /\ \A n \in Names : inDegree[n] = 0 <=> n \in Range(queue) \cup Taken
  /\ \A i, j \in DOMAIN result : NameAt(i) = NameAt(j) => i = j
  /\ \A i \in DOMAIN result, e \in Entries :
       Dependent(e) = NameAt(i) => \E j \in 1..(i - 1) : NameAt(j) = DependsOn(e)
  /\ outcome # "unknown" => ~Unknown
  /\ outcome = "ok" => Len(result) = Len(modules)
  /\ outcome = "circular" => queue = <<>> /\ Len(result) # Len(modules)

\* A manifest has finitely many names and entries (schema.rs, ModuleConfig).
LEMMA ListIsFinite ==
  ASSUME modules \in Seq(ModuleConfig)
  PROVE  /\ IsFiniteSet(Entries) /\ IsFiniteSet(Names) /\ Names \in SUBSET Nat
         /\ Cardinality(Names) <= Len(modules) /\ Len(modules) \in Nat
         /\ DOMAIN modules = 1..Len(modules)
         /\ \A e \in Entries : Dependent(e) \in Names
<1>1. Len(modules) \in Nat /\ DOMAIN modules = 1..Len(modules)
  OBVIOUS
<1>2. IsFiniteSet(DOMAIN modules) /\ Cardinality(DOMAIN modules) = Len(modules)
  BY <1>1, FS_Interval
<1>3. IsFiniteSet(Entries)
  <2>1. IsFiniteSet(1..MaxDependsOn)
    BY SortAssumption, FS_Interval DEF SortAssumption
  <2>2. IsFiniteSet((DOMAIN modules) \X (1..MaxDependsOn))
    BY <1>2, <2>1, FS_Product
  <2>3. Entries \in SUBSET ((DOMAIN modules) \X (1..MaxDependsOn))
    BY DEF Entries
  <2> QED
    BY <2>2, <2>3, FS_Subset
<1>4. \A i \in DOMAIN modules : modules[i].name \in Nat
  BY SortAssumption DEF SortAssumption
<1>5. Names \in SUBSET Nat
  BY <1>4 DEF Names
<1>6. IsFiniteSet(Names) /\ Cardinality(Names) <= Len(modules)
  <2> DEFINE f == [i \in DOMAIN modules |-> modules[i].name]
  <2>1. f \in Surjection(DOMAIN modules, Names)
    BY DEF Surjection, Names
  <2> QED
    BY <1>2, <2>1, FS_Surjection
<1>7. \A e \in Entries : Dependent(e) \in Names
  BY DEF Entries, Dependent, Names
<1> QED
  BY <1>1, <1>3, <1>5, <1>6, <1>7

\* A name is looked up as a module of that name (schema.rs, module_map).
LEMMA LookedUp ==
  ASSUME modules \in Seq(ModuleConfig), NEW n \in Names
  PROVE  ModuleMap(n) \in DOMAIN modules /\ modules[ModuleMap(n)].name = n
<1> DEFINE S == {i \in DOMAIN modules : modules[i].name = n}
<1>1. S \in SUBSET Nat /\ S # {}
  BY ListIsFinite DEF Names
<1>2. IsFiniteSet(S)
  <2>1. IsFiniteSet(DOMAIN modules)
    BY ListIsFinite, FS_Interval
  <2> QED
    BY <2>1, FS_Subset
<1>3. PICK i \in S : \A j \in S : i >= j
  BY <1>1, <1>2, GreatestExists
<1>4. \A j \in DOMAIN modules : modules[j].name = n => j <= i
  BY <1>1, <1>3
<1> QED
  BY <1>3, <1>4 DEF ModuleMap

\* Before the first module is placed.
LEMMA SortStarts == SortInit => SortInv
<1> SUFFICES ASSUME SortInit PROVE SortInv
  OBVIOUS
<1>1. modules \in Seq(ModuleConfig)
  <2>1. PICK n \in 0..MaxModules : modules \in [1..n -> ModuleConfig]
    BY DEF SortInit
  <2> QED
    BY <2>1, SortAssumption DEF SortAssumption
<1>2. result = <<>> /\ DOMAIN result = {} /\ Taken = {}
  BY DEF SortInit, Taken
<1>3. \A n : Cardinality(Open(n)) = InitialInDegree(n)
  <2>1. \A n : Open(n) = {e \in Entries : Dependent(e) = n}
    BY <1>2 DEF Open
  <2> QED
    BY <2>1 DEF InitialInDegree
<1> DEFINE Free == {n \in Names : InitialInDegree(n) = 0}
<1>4. Free \in SUBSET Names /\ Free \in SUBSET Nat /\ IsFiniteSet(Free)
  BY <1>1, ListIsFinite, FS_Subset
<1>5. queue = Sorted(Free)
  BY DEF SortInit
<1>6. queue \in Seq(Free) /\ Range(queue) = Free /\ IsInjective(queue)
  BY <1>4, <1>5, SortedLists
<1>7. queue \in Seq(Names)
  BY <1>4, <1>6
<1>8. inDegree = [n \in Names |-> Cardinality(Open(n))]
  BY <1>3 DEF SortInit
<1>9. \A n \in Names : inDegree[n] = 0 <=> n \in Range(queue) \cup Taken
  BY <1>2, <1>3, <1>6, <1>8
<1>10. /\ outcome # "unknown" => ~Unknown
       /\ outcome # "ok" /\ outcome # "circular"
  BY DEF SortInit
<1> QED
  BY <1>1, <1>2, <1>6, <1>7, <1>8, <1>9, <1>10 DEF SortInv

\* Placing the name at the front keeps the invariant.
LEMMA PlaceKeeps == SortInv /\ Place => SortInv'
<1> SUFFICES ASSUME SortInv, Place PROVE SortInv'
  OBVIOUS
<1> DEFINE d == Head(queue)
           k == ModuleMap(d)
           left == [n \in Names |-> inDegree[n] - Released(d, n)]
           freed == Freed(d, left)
<1>1. /\ outcome = "running" /\ queue # <<>> /\ UNCHANGED <<modules, outcome>>
      /\ result' = Append(result, k) /\ inDegree' = left
      /\ queue' = Tail(queue) \o Sorted(freed)
  BY DEF Place
<1>2. /\ modules \in Seq(ModuleConfig) /\ result \in Seq(DOMAIN modules)
      /\ queue \in Seq(Names) /\ IsInjective(queue) /\ Range(queue) \cap Taken = {}
      /\ \A n \in Names : inDegree[n] = Cardinality(Open(n))
      /\ \A n \in Names : inDegree[n] = 0 <=> n \in Range(queue) \cup Taken
  BY DEF SortInv
<1>3. /\ d \in Names /\ d \in Range(queue) /\ d \notin Taken
      /\ Tail(queue) \in Seq(Names) /\ IsInjective(Tail(queue))
      /\ Range(Tail(queue)) = Range(queue) \ {d}
  BY <1>1, <1>2, FrontTaken
<1>4. k \in DOMAIN modules /\ modules[k].name = d
  BY <1>2, <1>3, LookedUp
<1>5. /\ Entries' = Entries /\ Names' = Names
      /\ \A e : Dependent(e)' = Dependent(e) /\ DependsOn(e)' = DependsOn(e)
  BY <1>1 DEF Entries, Names, Dependent, DependsOn
<1> HIDE DEF d, k, left, freed
<1>c. PICK l \in Nat : l = Len(result) + 1
  BY <1>2
<1>6. /\ DOMAIN result = 1..(l - 1)
      /\ result' \in Seq(DOMAIN modules) /\ DOMAIN result' = 1..l /\ l \in DOMAIN result'
      /\ \A i \in DOMAIN result : result'[i] = result[i]
      /\ result'[l] = k
  BY <1>1, <1>2, <1>4, <1>c
<1>7. /\ \A i \in DOMAIN result : NameAt(i)' = NameAt(i)
      /\ NameAt(l)' = d
  BY <1>1, <1>4, <1>6 DEF NameAt
<1>8. Taken' = Taken \cup {d}
  <2>1. ASSUME NEW x \in Taken' PROVE x \in Taken \cup {d}
    <3>1. PICK i \in DOMAIN result' : x = NameAt(i)'
      BY <2>1 DEF Taken
    <3>2. i \in DOMAIN result \/ i = l
      BY <1>6
    <3> QED
      BY <1>7, <3>1, <3>2 DEF Taken
  <2>2. ASSUME NEW x \in Taken PROVE x \in Taken'
    <3>1. PICK i \in DOMAIN result : x = NameAt(i)
      BY <2>2 DEF Taken
    <3>2. i \in DOMAIN result' /\ x = NameAt(i)'
      BY <1>6, <1>7, <3>1
    <3> QED
      BY <3>2 DEF Taken
  <2>3. d \in Taken'
    BY <1>6, <1>7 DEF Taken
  <2> QED
    BY <2>1, <2>2, <2>3
<1>9. ASSUME NEW n \in Names
      PROVE  /\ Open(n)' = Open(n) \ Waiting(d, n) /\ Released(d, n) = Cardinality(Waiting(d, n))
             /\ Cardinality(Open(n)') = inDegree[n] - Released(d, n)
             /\ Cardinality(Open(n)') \in Nat /\ Released(d, n) \in Nat /\ inDegree[n] \in Nat
             /\ left[n] = Cardinality(Open(n)')
  <2>1. Open(n)' = Open(n) \ Waiting(d, n)
    BY <1>5, <1>8 DEF Open, Waiting
  <2>2. Waiting(d, n) \subseteq Open(n)
    BY <1>3 DEF Open, Waiting
  <2>3. IsFiniteSet(Open(n)) /\ IsFiniteSet(Waiting(d, n)) /\ IsFiniteSet(Open(n)')
    <3>1. Open(n) \in SUBSET Entries /\ IsFiniteSet(Entries)
      BY <1>2, ListIsFinite DEF Open
    <3>2. IsFiniteSet(Open(n))
      BY <3>1, FS_Subset
    <3> QED
      BY <2>1, <2>2, <3>2, FS_Subset
  <2>4. Released(d, n) = Cardinality(Waiting(d, n))
    BY DEF Released, Waiting
  <2>5. Open(n) \cap Waiting(d, n) = Waiting(d, n)
    BY <2>2
  <2>6. Cardinality(Open(n) \ Waiting(d, n)) = Cardinality(Open(n)) - Cardinality(Waiting(d, n))
    BY <2>3, <2>5, FS_Difference
  <2>7. left[n] = inDegree[n] - Released(d, n)
    BY DEF left
  <2>8. Cardinality(Open(n)') \in Nat /\ Released(d, n) \in Nat /\ inDegree[n] \in Nat
    BY <1>2, <2>3, <2>4, FS_CardinalityType
  <2> QED
    BY <1>2, <2>1, <2>4, <2>6, <2>7, <2>8
<1>10. /\ freed = {n \in Names : Released(d, n) > 0 /\ left[n] = 0}
       /\ freed \cap (Range(queue) \cup Taken) = {}
  <2>1. freed = {n \in Names : Released(d, n) > 0 /\ left[n] = 0}
    BY DEF freed, Freed
  <2>2. ASSUME NEW n \in freed PROVE n \notin Range(queue) \cup Taken
    <3>1. n \in Names /\ Released(d, n) > 0
      BY <2>1
    <3>2. inDegree[n] # 0
      <4>1. /\ Released(d, n) \in Nat /\ Cardinality(Open(n)') \in Nat
            /\ Cardinality(Open(n)') = inDegree[n] - Released(d, n)
        BY <1>9, <3>1
      <4>2. inDegree[n] = 0 => inDegree[n] - Released(d, n) < 0
        BY <3>1, <4>1
      <4> QED
        BY <4>1, <4>2
    <3> QED
      BY <1>2, <3>1, <3>2
  <2> QED
    BY <2>1, <2>2
<1>11. Sorted(freed) \in Seq(Names) /\ Range(Sorted(freed)) = freed /\ IsInjective(Sorted(freed))
  <2>1. freed \in SUBSET Names
    BY <1>10
  <2>2. freed \in SUBSET Nat /\ IsFiniteSet(freed)
    BY <1>2, <2>1, ListIsFinite, FS_Subset
  <2>3. Sorted(freed) \in Seq(freed) /\ Range(Sorted(freed)) = freed /\ IsInjective(Sorted(freed))
    BY <2>2, SortedLists
  <2> QED
    BY <2>1, <2>3
<1>12. /\ queue' \in Seq(Names) /\ IsInjective(queue')
       /\ Range(queue') = (Range(queue) \ {d}) \cup freed
  <2>1. Range(Tail(queue)) \cap Range(Sorted(freed)) = {}
    BY <1>3, <1>10, <1>11
  <2> DEFINE u == Tail(queue) \o Sorted(freed)
  <2>2. /\ u \in Seq(Names) /\ IsInjective(u)
        /\ Range(u) = Range(Tail(queue)) \cup Range(Sorted(freed))
    <3> DEFINE t == Tail(queue)
               f == Sorted(freed)
    <3>1. /\ t \in Seq(Names) /\ f \in Seq(Names) /\ IsInjective(t) /\ IsInjective(f)
          /\ Range(t) \cap Range(f) = {}
      BY <1>3, <1>11, <2>1
    <3> HIDE DEF t, f
    <3>2. /\ t \o f \in Seq(Names) /\ IsInjective(t \o f)
          /\ Range(t \o f) = Range(t) \cup Range(f)
      BY <3>1, ListsJoin
    <3> QED
      BY <3>2 DEF t, f
  <2>3. queue' = u
    BY <1>1
  <2> QED
    BY <1>3, <1>11, <2>2, <2>3
<1>13. Range(queue') \cap Taken' = {}
  BY <1>2, <1>3, <1>8, <1>10, <1>12
<1>14. ASSUME NEW n \in Names PROVE inDegree'[n] = 0 <=> n \in Range(queue') \cup Taken'
  <2>1. inDegree'[n] = inDegree[n] - Released(d, n)
    BY <1>1, <1>9
  <2>2. inDegree[n] = 0 => Released(d, n) = 0
    BY <1>9
  <2>3. inDegree'[n] = 0 <=> inDegree[n] = 0 \/ (Released(d, n) > 0 /\ left[n] = 0)
    <3>1. inDegree'[n] = left[n] /\ Released(d, n) \in Nat
      BY <1>1, <1>9
    <3>2. inDegree[n] = inDegree'[n] + Released(d, n)
      BY <1>9, <1>1, <2>1
    <3> QED
      BY <2>1, <2>2, <3>1, <3>2
  <2>4. inDegree'[n] = 0 <=> n \in Range(queue) \cup Taken \cup freed
    BY <1>2, <1>10, <2>3
  <2> QED
    BY <1>3, <1>8, <1>12, <2>4
<1>15. ASSUME NEW i \in DOMAIN result', NEW j \in DOMAIN result', NameAt(i)' = NameAt(j)'
       PROVE  i = j
  <2>1. \A a \in DOMAIN result : NameAt(a) # d
    BY <1>3 DEF Taken
  <2>2. i \in DOMAIN result \/ i = l
    BY <1>6
  <2>3. j \in DOMAIN result \/ j = l
    BY <1>6
  <2> QED
    BY <1>7, <1>15, <2>1, <2>2, <2>3 DEF SortInv
<1>16. ASSUME NEW i \in DOMAIN result', NEW e \in Entries, Dependent(e) = NameAt(i)'
       PROVE  \E j \in 1..(i - 1) : NameAt(j)' = DependsOn(e)
  <2>1. CASE i \in DOMAIN result
    <3>1. PICK j \in 1..(i - 1) : NameAt(j) = DependsOn(e)
      BY <1>7, <1>16, <2>1 DEF SortInv
    <3>2. j \in DOMAIN result
      BY <1>6, <2>1
    <3> QED
      BY <1>7, <3>1, <3>2
  <2>2. CASE i = l
    <3>1. Dependent(e) = d
      BY <1>7, <1>16, <2>2
    <3>2. Open(d) = {}
      <4>1. inDegree[d] = 0 /\ inDegree[d] = Cardinality(Open(d))
        BY <1>2, <1>3
      <4>2. IsFiniteSet(Open(d))
        <5>1. Open(d) \in SUBSET Entries /\ IsFiniteSet(Entries)
          BY <1>2, ListIsFinite DEF Open
        <5> QED
          BY <5>1, FS_Subset
      <4> QED
        BY <4>1, <4>2, FS_EmptySet
    <3>3. DependsOn(e) \in Taken
      BY <3>1, <3>2 DEF Open
    <3>4. PICK j \in DOMAIN result : NameAt(j) = DependsOn(e)
      BY <3>3 DEF Taken
    <3>5. j \in 1..(i - 1)
      BY <1>6, <2>2, <3>4
    <3> QED
      BY <1>7, <3>4, <3>5
  <2> QED
    BY <1>6, <2>1, <2>2
<1>17. inDegree' = [n \in Names |-> Cardinality(Open(n)')]
  <2>1. inDegree' = left /\ left = [n \in Names |-> left[n]]
    BY <1>1 DEF left
  <2>2. \A n \in Names : left[n] = Cardinality(Open(n)')
    BY <1>9
  <2> QED
    BY <2>1, <2>2
<1>18. ~Unknown'
  <2>1. ~Unknown
    BY <1>1 DEF SortInv
  <2> QED
    BY <1>5, <2>1 DEF Unknown
<1> QED
  BY <1>1, <1>2, <1>5, <1>6, <1>12, <1>13, <1>14, <1>15, <1>16, <1>17, <1>18 DEF SortInv

\* Every step keeps the invariant.
LEMMA SortStays == SortInv /\ [SortNext]_sortVars => SortInv'
<1> SUFFICES ASSUME SortInv, [SortNext]_sortVars PROVE SortInv'
  OBVIOUS
<1>1. CASE Place
  BY <1>1, PlaceKeeps
<1>2. ASSUME UNCHANGED <<modules, inDegree, queue, result>> PROVE
        /\ Entries' = Entries /\ Names' = Names /\ Taken' = Taken
        /\ \A e : Dependent(e)' = Dependent(e) /\ DependsOn(e)' = DependsOn(e)
        /\ \A n : Open(n)' = Open(n)
        /\ \A i : NameAt(i)' = NameAt(i)
        /\ Unknown' = Unknown
  BY <1>2 DEF Entries, Names, Taken, Dependent, DependsOn, Open, NameAt, Unknown
<1>3. CASE EndSort
  <2>1. UNCHANGED <<modules, inDegree, queue, result>>
    BY <1>3 DEF EndSort
  <2>2. /\ outcome = "running" /\ queue = <<>>
        /\ outcome' = IF Len(result) = Len(modules) THEN "ok" ELSE "circular"
    BY <1>3 DEF EndSort
  <2> QED
    BY <1>2, <2>1, <2>2 DEF SortInv
<1>4. CASE UNCHANGED sortVars
  <2>1. UNCHANGED <<modules, inDegree, queue, result>> /\ UNCHANGED outcome
    BY <1>4 DEF sortVars
  <2> QED
    BY <1>2, <2>1 DEF SortInv
<1> QED
  BY <1>1, <1>3, <1>4 DEF SortNext

-----------------------------------------------------------------------------
(* The result.                                                             *)

\* As many modules as were listed, each name once, are all modules.
LEMMA OrderIsTopological == SortInv => SortedIsTopological
<1> SUFFICES ASSUME SortInv, outcome = "ok"
             PROVE  /\ {result[i] : i \in DOMAIN result} = DOMAIN modules
                    /\ \A i, j \in DOMAIN result, e \in Entries :
                         e[1] = result[i] /\ DependsOn(e) = modules[result[j]].name => j < i
  BY DEF SortedIsTopological
<1>1. /\ modules \in Seq(ModuleConfig) /\ result \in Seq(DOMAIN modules)
      /\ Len(result) = Len(modules)
      /\ \A i, j \in DOMAIN result : NameAt(i) = NameAt(j) => i = j
  BY DEF SortInv
<1>2. {result[i] : i \in DOMAIN result} = DOMAIN modules
  <2>1. /\ Len(modules) \in Nat /\ DOMAIN modules = 1..Len(modules)
        /\ DOMAIN result = 1..Len(modules) /\ result \in [DOMAIN result -> DOMAIN modules]
    BY <1>1
  <2>2. \A i, j \in DOMAIN result : result[i] = result[j] => i = j
    BY <1>1 DEF NameAt
  <2>3. result \in Injection(DOMAIN result, DOMAIN modules)
    BY <2>1, <2>2 DEF Injection, IsInjective
  <2>4. IsFiniteSet(DOMAIN modules) /\ Cardinality(DOMAIN result) = Cardinality(DOMAIN modules)
    <3>1. IsFiniteSet(DOMAIN modules) /\ DOMAIN result = DOMAIN modules
      BY <1>1, <2>1, PlacesAreFinite
    <3> QED
      BY <3>1
  <2>5. result \in Surjection(DOMAIN result, DOMAIN modules)
    BY <2>3, <2>4, FS_Injection
  <2> QED
    BY <2>1, <2>5 DEF Surjection
<1>3. ASSUME NEW i \in DOMAIN result, NEW j \in DOMAIN result, NEW e \in Entries,
             e[1] = result[i], DependsOn(e) = modules[result[j]].name
      PROVE  j < i
  <2>1. Dependent(e) = NameAt(i) /\ DependsOn(e) = NameAt(j)
    BY <1>3 DEF Dependent, NameAt
  <2>2. PICK k \in 1..(i - 1) : NameAt(k) = DependsOn(e)
    BY <2>1 DEF SortInv
  <2>3. i \in Nat /\ k \in DOMAIN result
    <3>1. DOMAIN result = 1..Len(result) /\ Len(result) \in Nat
      BY <1>1
    <3> QED
      BY <2>2, <3>1
  <2>4. k = j
    BY <1>1, <2>1, <2>2, <2>3
  <2> QED
    BY <2>3, <2>4
<1> QED
  BY <1>2, <1>3

\* The names that could not be placed depend on one another.
LEMMA RefusalIsRight == SortInv => RefusedIsCircular
<1> SUFFICES ASSUME SortInv, outcome = "circular", ~DuplicateNames PROVE Cyclic
  BY DEF RefusedIsCircular
<1> DEFINE S == Names \ Taken
<1>1. /\ modules \in Seq(ModuleConfig) /\ result \in Seq(DOMAIN modules)
      /\ queue = <<>> /\ Len(result) # Len(modules) /\ ~Unknown
      /\ \A i, j \in DOMAIN result : NameAt(i) = NameAt(j) => i = j
  BY DEF SortInv
<1>2. S # {}
  <2> SUFFICES ASSUME Names \subseteq Taken PROVE FALSE
    OBVIOUS
  <2>1. Taken = Names
    <3>1. \A i \in DOMAIN result : result[i] \in DOMAIN modules
      BY <1>1
    <3>2. \A i \in DOMAIN result : NameAt(i) \in Names
      BY <3>1 DEF NameAt, Names
    <3> QED
      BY <3>2 DEF Taken
  <2> DEFINE f == [i \in DOMAIN result |-> NameAt(i)]
  <2>2. f \in Surjection(DOMAIN result, Names)
    BY <2>1 DEF Surjection, Taken
  <2>3. f \in Injection(DOMAIN result, Names)
    BY <1>1, <2>2 DEF Injection, IsInjective, Surjection
  <2>4. /\ IsFiniteSet(DOMAIN result) /\ Cardinality(DOMAIN result) = Len(result)
        /\ Len(result) \in Nat
    BY <1>1, PlacesAreFinite
  <2>5. Cardinality(Names) = Len(result)
    BY <2>2, <2>3, <2>4, FS_Surjection
  <2>6. Cardinality(Names) <= Len(modules) /\ Len(modules) \in Nat
    BY <1>1, ListIsFinite
  <2> QED
    BY <1>1, <2>4, <2>5, <2>6 DEF DuplicateNames
<1>3. ASSUME NEW n \in S PROVE \E e \in Entries : Dependent(e) = n /\ DependsOn(e) \in S
  <2>1. Range(queue) = {}
    BY <1>1 DEF Range
  <2>2. inDegree[n] # 0 /\ inDegree[n] = Cardinality(Open(n))
    BY <2>1 DEF SortInv
  <2>3. Open(n) # {}
    BY <2>2, FS_EmptySet
  <2>4. PICK e \in Entries : Dependent(e) = n /\ DependsOn(e) \notin Taken
    BY <2>3 DEF Open
  <2>5. DependsOn(e) \in Names
    BY <1>1 DEF Unknown
  <2> QED
    BY <2>4, <2>5
<1> HIDE DEF S
<1>4. S \in (SUBSET Names) \ {{}}
  BY <1>2 DEF S
<1> QED
  BY <1>3, <1>4 DEF Cyclic

\* Whatever modules a manifest lists, the sort gives each after those it
\* depends on, and refuses as circular only what is, or has a duplicate name
\* (schema.rs, topological_sort).
THEOREM SortsRight == SortSpec => []SortIsRight
<1>1. SortInv => SortIsRight
  BY OrderIsTopological, RefusalIsRight DEF SortIsRight
<1> QED
  BY <1>1, SortStarts, SortStays, PTL DEF SortSpec

-----------------------------------------------------------------------------
(* The embedded engine (embedded_db.rs).                                  *)

Replays(r) == call[r].at \in {"switch", "replay", "mark"}
Done(r) == Path \ call[r].left

\* What the last resetting call read is in the workspace or was refused since,
\* or that call (and not one that overlaps with it) still has it to replay.
LostInv ==
  \A f \in Path :
    \/ Defines(replayed[f]) \subseteq workspace \cup refused
    \/ \E r \in Runs : Replays(r) /\ f \in call[r].left /\ call[r].text[f] = replayed[f]

\* What the files a call has replayed define is all there is, and nothing of it
\* is missing but of those that had errors.
Replayed(r) ==
  /\ \A x \in workspace : \E f \in Done(r) : x \in Defines(call[r].text[f])
  /\ \A f \in Done(r) \ call[r].errors : Defines(call[r].text[f]) \subseteq workspace

\* While a call is alone no other is active, and once it has reset the
\* workspace holds what the files it has replayed define.
AloneInv ==
  \A r \in Runs : Active(r) /\ call[r].alone =>
    /\ \A o \in Others(r) : ~Active(o)
    /\ Replays(r) => Replayed(r)

\* What a call that found no change so far has compared is the recorded text.
Compared(r) ==
  \A f \in Path :
    call[r].text[f] \in {NoFile, meta[f]} \/ (call[r].at = "check" /\ f = call[r].file)
\* What the rows without an error are about is in effect.
RowsInEffect == \A f \in Path \ erroneous : Defines(meta[f]) \subseteq workspace
SettledInv ==
  settled =>
    /\ RowsInEffect
    /\ \A r \in Runs : ~Replays(r) /\ (Active(r) /\ ~call[r].changed => Compared(r))

EngineInv == EngineTypeOK /\ LostInv /\ AloneInv /\ SettledInv

-----------------------------------------------------------------------------
(* What each action does to the call it is about, field by field.          *)

\* The sorted list of files gives a file of the list (embedded_db.rs,
\* apply_migrations).
LEMMA NextPathIsIn ==
  ASSUME NEW S \in SUBSET Path, S # {}
  PROVE  NextPath(S) \in S
<1>1. S \in SUBSET Nat
  BY EngineAssumption DEF EngineAssumption
<1> QED
  BY <1>1, LeastExists DEF NextPath

\* A call that has returned is typed and not active.
LEMMA ReturnedTyped == Returned \in CallRecord /\ Returned.at = "idle"
BY DEF Returned, CallRecord, NoTexts

\* Only one call changes: the others stay as they are.
LEMMA OneCall ==
  ASSUME call \in [Runs -> CallRecord], NEW r \in Runs, NEW next \in CallRecord,
         call' = [call EXCEPT ![r] = next]
  PROVE  /\ call' \in [Runs -> CallRecord]
         /\ call'[r] = next
         /\ \A s \in Others(r) : call'[s] = call[s]
BY DEF Others

LEMMA BeginEffect ==
  ASSUME EngineTypeOK, NEW r \in Runs, BeginApply(r)
  PROVE  /\ call' \in [Runs -> CallRecord]
         /\ call'[r].at = "read" /\ call'[r].text = NoTexts
         /\ call'[r].alone = (\A o \in Others(r) : ~Active(o))
         /\ \A s \in Others(r) :
              /\ call'[s].at = call[s].at /\ call'[s].left = call[s].left
              /\ call'[s].text = call[s].text /\ call'[s].file = call[s].file
              /\ call'[s].changed = call[s].changed /\ call'[s].alone = ~Active(s)
<1> DEFINE alone == \A o \in Others(r) : ~Active(o)
           first == [Returned EXCEPT !.at = "read", !.left = {f \in Path : disk[f] # NoFile}, !.alone = alone]
           rest(s) == [call[s] EXCEPT !.alone = ~Active(s)]
<1>1. alone \in BOOLEAN
  OBVIOUS
<1>2. call' = [s \in Runs |-> IF s = r THEN first ELSE rest(s)]
  BY DEF BeginApply
<1> HIDE DEF alone
<1>3. first \in CallRecord /\ first.at = "read" /\ first.text = NoTexts /\ first.alone = alone
  BY <1>1 DEF CallRecord, Returned, NoTexts
<1>4. ASSUME NEW s \in Runs
      PROVE  /\ rest(s) \in CallRecord
             /\ rest(s).at = call[s].at /\ rest(s).left = call[s].left /\ rest(s).text = call[s].text
             /\ rest(s).file = call[s].file /\ rest(s).changed = call[s].changed
             /\ rest(s).alone = ~Active(s)
  <2>1. call[s] \in CallRecord /\ Active(s) \in BOOLEAN
    BY DEF EngineTypeOK, Active
  <2> QED
    BY <2>1 DEF CallRecord
<1> HIDE DEF first, rest
<1>5. call'[r] = first /\ \A s \in Others(r) : call'[s] = rest(s)
  BY <1>2 DEF Others
<1>6. \A s \in Others(r) : s \in Runs
  BY DEF Others
<1> QED
  BY <1>2, <1>3, <1>4, <1>5, <1>6 DEF alone

LEMMA ReadEffect ==
  ASSUME EngineTypeOK, NEW r \in Runs, ReadFile(r)
  PROVE  \E f \in Path :
           /\ call' \in [Runs -> CallRecord]
           /\ \A s \in Others(r) : call'[s] = call[s]
           /\ call'[r].text = [call[r].text EXCEPT ![f] = disk[f]]
           /\ call'[r].at = (IF disk[f] = NoFile THEN "read" ELSE "check")
           /\ call'[r].file = f /\ call'[r].changed = call[r].changed /\ call'[r].alone = call[r].alone
<1> DEFINE f == NextPath(call[r].left)
           text == [call[r].text EXCEPT ![f] = disk[f]]
           next == [call[r] EXCEPT !.left = call[r].left \ {f}, !.file = f, !.text = text,
                                   !.at = IF disk[f] = NoFile THEN "read" ELSE "check"]
<1>1. call[r] \in CallRecord /\ call[r].left \in SUBSET Path /\ call[r].left # {}
  BY DEF ReadFile, EngineTypeOK, CallRecord
<1>2. f \in Path
  BY <1>1, NextPathIsIn
<1>3. call' = [call EXCEPT ![r] = next]
  BY DEF ReadFile
<1> HIDE DEF f
<1>4. text \in [Path -> FileText \cup {NoFile}]
  BY <1>1, <1>2 DEF CallRecord, EngineTypeOK
<1> HIDE DEF text
<1>5. /\ next \in CallRecord
      /\ next.text = text /\ next.at = (IF disk[f] = NoFile THEN "read" ELSE "check")
      /\ next.file = f /\ next.changed = call[r].changed /\ next.alone = call[r].alone
  BY <1>1, <1>2, <1>4 DEF CallRecord
<1> HIDE DEF next
<1> QED
  BY <1>2, <1>3, <1>5, OneCall DEF text, EngineTypeOK

LEMMA CheckEffect ==
  ASSUME EngineTypeOK, NEW r \in Runs, CheckFile(r)
  PROVE  /\ call' \in [Runs -> CallRecord]
         /\ \A s \in Others(r) : call'[s] = call[s]
         /\ call'[r].at = "read" /\ call'[r].text = call[r].text /\ call'[r].alone = call[r].alone
         /\ ~call'[r].changed => ~call[r].changed /\ call[r].text[call[r].file] = meta[call[r].file]
<1>1. PICK failed \in BOOLEAN : call' = [call EXCEPT ![r] = [call[r] EXCEPT !.at = "read",
             !.changed = call[r].changed \/ failed \/ NeedsReapply(call[r].file, call[r].text[call[r].file])]]
  BY DEF CheckFile
<1> DEFINE changed == call[r].changed \/ failed \/ NeedsReapply(call[r].file, call[r].text[call[r].file])
           next == [call[r] EXCEPT !.at = "read", !.changed = changed]
<1>2. call[r] \in CallRecord /\ changed \in BOOLEAN
  BY DEF EngineTypeOK
<1>3. ~changed => ~call[r].changed /\ call[r].text[call[r].file] = meta[call[r].file]
  BY DEF NeedsReapply
<1>4. call' = [call EXCEPT ![r] = next]
  BY <1>1
<1> HIDE DEF changed
<1>5. /\ next \in CallRecord /\ next.changed = changed
      /\ next.at = "read" /\ next.text = call[r].text /\ next.alone = call[r].alone
  BY <1>2 DEF CallRecord
<1> HIDE DEF next
<1> QED
  BY <1>3, <1>4, <1>5, OneCall DEF EngineTypeOK

LEMMA ResetEffect ==
  ASSUME EngineTypeOK, NEW r \in Runs, ResetWorkspace(r)
  PROVE  /\ call' \in [Runs -> CallRecord]
         /\ \A s \in Others(r) : call'[s] = call[s]
         /\ call'[r].at = "switch" /\ call'[r].text = call[r].text /\ call'[r].alone = call[r].alone
         /\ call'[r].left = {f \in Path : call[r].text[f] # NoFile}
<1> DEFINE next == [call[r] EXCEPT !.at = "switch", !.left = ToReplay(r)]
<1>1. call[r] \in CallRecord /\ ToReplay(r) \in SUBSET Path
  BY DEF EngineTypeOK, ToReplay
<1>2. call' = [call EXCEPT ![r] = next]
  BY DEF ResetWorkspace
<1>3. /\ next \in CallRecord /\ next.at = "switch" /\ next.left = ToReplay(r)
      /\ next.text = call[r].text /\ next.alone = call[r].alone
  BY <1>1 DEF CallRecord
<1> HIDE DEF next
<1> QED
  BY <1>2, <1>3, OneCall DEF EngineTypeOK, ToReplay

\* SwitchSession, when it does not fail, and MarkFileApplied.
LEMMA GoOnEffect ==
  ASSUME EngineTypeOK, NEW r \in Runs, call' = [call EXCEPT ![r] = [call[r] EXCEPT !.at = "replay"]]
  PROVE  /\ call' \in [Runs -> CallRecord]
         /\ \A s \in Others(r) : call'[s] = call[s]
         /\ call'[r].at = "replay" /\ call'[r].left = call[r].left
         /\ call'[r].text = call[r].text /\ call'[r].alone = call[r].alone
         /\ call'[r].errors = call[r].errors
<1> DEFINE next == [call[r] EXCEPT !.at = "replay"]
<1>1. call[r] \in CallRecord
  BY DEF EngineTypeOK
<1>2. /\ next \in CallRecord /\ next.at = "replay" /\ next.left = call[r].left
      /\ next.text = call[r].text /\ next.alone = call[r].alone /\ next.errors = call[r].errors
  BY <1>1 DEF CallRecord
<1>3. call' = [call EXCEPT ![r] = next]
  OBVIOUS
<1> HIDE DEF next
<1> QED
  BY <1>2, <1>3, OneCall DEF EngineTypeOK

LEMMA ReplayEffect ==
  ASSUME EngineTypeOK, NEW r \in Runs, ReplayFile(r)
  PROVE  \E f \in call[r].left :
           /\ f \in Path
           /\ call' \in [Runs -> CallRecord]
           /\ \A s \in Others(r) : call'[s] = call[s]
           /\ call'[r].at = "mark" /\ call'[r].left = call[r].left \ {f}
           /\ call'[r].text = call[r].text /\ call'[r].alone = call[r].alone
           /\ workspace \subseteq workspace'
           /\ workspace' \subseteq workspace \cup Defines(call[r].text[f])
           /\ refused' = refused \cup (Defines(call[r].text[f]) \ workspace')
           /\ call[r].errors \subseteq call'[r].errors
           /\ f \notin call'[r].errors => Defines(call[r].text[f]) \subseteq workspace'
<1> DEFINE f == NextPath(call[r].left)
           names == Defines(call[r].text[f])
<1>1. call[r] \in CallRecord /\ call[r].left \in SUBSET Path /\ call[r].left # {}
  BY DEF ReplayFile, EngineTypeOK, CallRecord
<1>2. f \in call[r].left /\ f \in Path
  BY <1>1, NextPathIsIn
<1>3. PICK done \in SUBSET (names \ workspace), failed \in BOOLEAN :
        /\ ~failed => names \subseteq workspace \cup done
        /\ workspace' = workspace \cup done
        /\ refused' = refused \cup (names \ workspace')
        /\ call' = [call EXCEPT ![r] = [call[r] EXCEPT !.left = call[r].left \ {f}, !.file = f, !.at = "mark",
                      !.errors = IF failed THEN call[r].errors \cup {f} ELSE call[r].errors]]
  BY DEF ReplayFile
<1> DEFINE errors == IF failed THEN call[r].errors \cup {f} ELSE call[r].errors
           next == [call[r] EXCEPT !.left = call[r].left \ {f}, !.file = f, !.at = "mark", !.errors = errors]
<1>4. call' = [call EXCEPT ![r] = next]
  BY <1>3
<1> HIDE DEF f, names
<1>5. /\ errors \in SUBSET Path /\ call[r].errors \subseteq errors
      /\ f \notin errors => ~failed
  BY <1>1, <1>2 DEF CallRecord
<1> HIDE DEF errors
<1>6. /\ next \in CallRecord /\ next.at = "mark" /\ next.left = call[r].left \ {f}
      /\ next.text = call[r].text /\ next.alone = call[r].alone /\ next.errors = errors
  BY <1>1, <1>2, <1>5 DEF CallRecord
<1> HIDE DEF next
<1>7. call' \in [Runs -> CallRecord] /\ call'[r] = next /\ \A s \in Others(r) : call'[s] = call[s]
  BY <1>4, <1>6, OneCall DEF EngineTypeOK
<1> QED
  BY <1>2, <1>3, <1>5, <1>6, <1>7 DEF names

\* SkipReplay, EndReplay and a SwitchSession that fails.
LEMMA ReturnEffect ==
  ASSUME EngineTypeOK, NEW r \in Runs, call' = [call EXCEPT ![r] = Returned]
  PROVE  /\ call' \in [Runs -> CallRecord]
         /\ \A s \in Others(r) : call'[s] = call[s]
         /\ call'[r].at = "idle"
BY ReturnedTyped, OneCall DEF EngineTypeOK

-----------------------------------------------------------------------------
(* Types.                                                                  *)

LEMMA TypesStay == EngineTypeOK /\ [EngineNext]_engineVars => EngineTypeOK'
<1> SUFFICES ASSUME EngineTypeOK, [EngineNext]_engineVars
             PROVE  EngineTypeOK'
  OBVIOUS
<1>1. CASE ChangeFile
  BY <1>1, EngineAssumption DEF ChangeFile, EngineTypeOK, EngineAssumption
<1>2. ASSUME NEW r \in Runs, BeginApply(r) PROVE EngineTypeOK'
  BY <1>2, BeginEffect DEF BeginApply, EngineTypeOK
<1>3. ASSUME NEW r \in Runs, ReadFile(r) PROVE EngineTypeOK'
  BY <1>3, ReadEffect DEF ReadFile, EngineTypeOK
<1>4. ASSUME NEW r \in Runs, CheckFile(r) PROVE EngineTypeOK'
  BY <1>4, CheckEffect DEF CheckFile, EngineTypeOK
<1>5. ASSUME NEW r \in Runs, SkipReplay(r) PROVE EngineTypeOK'
  BY <1>5, ReturnEffect DEF SkipReplay, EngineTypeOK
<1>6. ASSUME NEW r \in Runs, ResetWorkspace(r) PROVE EngineTypeOK'
  <2>1. call[r].text \in [Path -> FileText \cup {NoFile}]
    BY DEF EngineTypeOK, CallRecord
  <2> QED
    BY <1>6, <2>1, ResetEffect DEF ResetWorkspace, RemoveDatabase, EngineTypeOK
<1>7. ASSUME NEW r \in Runs, SwitchSession(r) PROVE EngineTypeOK'
  <2>1. NoTexts \in [Path -> FileText \cup {NoFile}]
    BY DEF NoTexts
  <2>2. call' \in [Runs -> CallRecord]
    BY <1>7, GoOnEffect, ReturnEffect DEF SwitchSession
  <2> QED
    BY <1>7, <2>1, <2>2 DEF SwitchSession, EngineTypeOK
<1>8. ASSUME NEW r \in Runs, ReplayFile(r) PROVE EngineTypeOK'
  <2>1. PICK f \in Path :
          /\ call' \in [Runs -> CallRecord]
          /\ workspace' \subseteq workspace \cup Defines(call[r].text[f])
          /\ refused' = refused \cup (Defines(call[r].text[f]) \ workspace')
    BY <1>8, ReplayEffect
  <2>2. call[r].text[f] \in FileText \cup {NoFile}
    BY DEF EngineTypeOK, CallRecord
  <2>3. Defines(call[r].text[f]) \subseteq UNION {Defines(t) : t \in FileText}
    BY <2>2 DEF Defines
  <2> QED
    BY <1>8, <2>1, <2>3 DEF ReplayFile, EngineTypeOK
<1>9. ASSUME NEW r \in Runs, MarkFileApplied(r) PROVE EngineTypeOK'
  <2>1. call[r].text \in [Path -> FileText \cup {NoFile}]
    BY DEF EngineTypeOK, CallRecord
  <2>2. meta' \in [Path -> FileText \cup {NoFile}] /\ erroneous' \subseteq Path
    <3>1. call[r].errors \subseteq Path
      BY DEF EngineTypeOK, CallRecord
    <3> QED
      BY <1>9, <2>1, <3>1 DEF MarkFileApplied, EngineTypeOK
  <2>3. call' \in [Runs -> CallRecord]
    BY <1>9, GoOnEffect DEF MarkFileApplied
  <2> QED
    BY <1>9, <2>2, <2>3 DEF MarkFileApplied, EngineTypeOK
<1>10. ASSUME NEW r \in Runs, EndReplay(r) PROVE EngineTypeOK'
  <2>1. call' \in [Runs -> CallRecord] /\ call[r].alone \in BOOLEAN
    BY <1>10, ReturnEffect DEF EndReplay, EngineTypeOK, CallRecord
  <2> QED
    BY <1>10, <2>1 DEF EndReplay, EngineTypeOK
<1>11. CASE UNCHANGED engineVars
  BY <1>11 DEF engineVars, EngineTypeOK
<1> QED
  BY <1>1, <1>2, <1>3, <1>4, <1>5, <1>6, <1>7, <1>8, <1>9, <1>10, <1>11 DEF EngineNext

\* Every variable of the engine keeps its type (embedded_db.rs): each row of
\* meta has the hash of a text that some file had, or there is none.
THEOREM EngineTypeCorrect == EngineSpec => []EngineTypeOK
<1>1. EngineInit => EngineTypeOK
  BY ReturnedTyped, EngineAssumption DEF EngineInit, EngineTypeOK, NoTexts, EngineAssumption
<1> QED
  BY <1>1, TypesStay, PTL DEF EngineSpec

-----------------------------------------------------------------------------
(* Nothing is lost.                                                        *)

LEMMA LostStays == EngineTypeOK /\ LostInv /\ [EngineNext]_engineVars => LostInv'
<1> SUFFICES ASSUME EngineTypeOK, LostInv, [EngineNext]_engineVars, NEW f \in Path
             PROVE  \/ (Defines(replayed[f]) \subseteq workspace \cup refused)'
                    \/ \E r \in Runs : (Replays(r) /\ f \in call[r].left /\ call[r].text[f] = replayed[f])'
  BY DEF LostInv
<1> DEFINE Waits(r) == Replays(r) /\ f \in call[r].left /\ call[r].text[f] = replayed[f]
<1>0. Defines(replayed[f]) \subseteq workspace \cup refused \/ \E r \in Runs : Waits(r)
  BY DEF LostInv
<1>1. CASE ChangeFile
  BY <1>0, <1>1 DEF ChangeFile, Replays
<1>2. ASSUME NEW r \in Runs, BeginApply(r)
      PROVE  (Defines(replayed[f]) \subseteq workspace \cup refused)' \/ \E s \in Runs : Waits(s)'
  <2>1. ~Replays(r)
    BY <1>2 DEF BeginApply, Active, Replays
  <2>2. \A s \in Runs : s = r \/ s \in Others(r)
    BY DEF Others
  <2>3. ASSUME NEW s \in Runs, Waits(s) PROVE Waits(s)'
    <3>1. s \in Others(r)
      BY <2>1, <2>2, <2>3
    <3>2. /\ call'[s].at = call[s].at /\ call'[s].left = call[s].left
          /\ call'[s].text = call[s].text
      BY <1>2, <3>1, BeginEffect
    <3>3. replayed' = replayed
      BY <1>2 DEF BeginApply
    <3> QED
      BY <2>3, <3>2, <3>3 DEF Replays
  <2> QED
    BY <1>0, <1>2, <2>3 DEF BeginApply
<1>3. ASSUME NEW r \in Runs, ~Replays(r), \A s \in Others(r) : call'[s] = call[s],
             UNCHANGED <<workspace, replayed, refused>>
      PROVE  (Defines(replayed[f]) \subseteq workspace \cup refused)' \/ \E s \in Runs : Waits(s)'
  <2>1. \A s \in Runs : s = r \/ s \in Others(r)
    BY DEF Others
  <2>2. \A s \in Runs : Waits(s) => Waits(s)'
    BY <1>3, <2>1 DEF Replays
  <2> QED
    BY <1>0, <1>3, <2>2
<1>4. ASSUME NEW r \in Runs, ReadFile(r) \/ CheckFile(r) \/ SkipReplay(r)
      PROVE  (Defines(replayed[f]) \subseteq workspace \cup refused)' \/ \E s \in Runs : Waits(s)'
  <2>1. ~Replays(r) /\ UNCHANGED <<workspace, replayed, refused>>
    BY <1>4 DEF ReadFile, CheckFile, SkipReplay, Replays
  <2>2. \A s \in Others(r) : call'[s] = call[s]
    BY <1>4, ReadEffect, CheckEffect, ReturnEffect DEF SkipReplay
  <2> QED
    BY <1>3, <2>1, <2>2
<1>5. ASSUME NEW r \in Runs, ResetWorkspace(r)
      PROVE  (Defines(replayed[f]) \subseteq workspace \cup refused)' \/ \E s \in Runs : Waits(s)'
  <2>1. replayed' = call[r].text
    BY <1>5 DEF ResetWorkspace
  <2>2. CASE call[r].text[f] = NoFile
    BY <2>1, <2>2 DEF Defines
  <2>3. CASE call[r].text[f] # NoFile
    BY <1>5, <2>1, <2>3, ResetEffect DEF Replays
  <2> QED
    BY <2>2, <2>3
<1>6. ASSUME NEW r \in Runs, SwitchSession(r) \/ MarkFileApplied(r)
      PROVE  (Defines(replayed[f]) \subseteq workspace \cup refused)' \/ \E s \in Runs : Waits(s)'
  <2>1. CASE replayed' = NoTexts
    BY <2>1 DEF NoTexts, Defines
  <2>2. CASE replayed' # NoTexts
    <3>1. call' = [call EXCEPT ![r] = [call[r] EXCEPT !.at = "replay"]] /\ UNCHANGED <<workspace, replayed, refused>>
      BY <1>6, <2>2 DEF SwitchSession, MarkFileApplied
    <3>2. \A s \in Runs : s = r \/ s \in Others(r)
      BY DEF Others
    <3>3. \A s \in Runs : Waits(s) => Waits(s)'
      BY <3>1, <3>2, GoOnEffect DEF Replays
    <3> QED
      BY <1>0, <3>1, <3>3
  <2> QED
    BY <2>1, <2>2
<1>7. ASSUME NEW r \in Runs, ReplayFile(r)
      PROVE  (Defines(replayed[f]) \subseteq workspace \cup refused)' \/ \E s \in Runs : Waits(s)'
  <2>1. PICK g \in call[r].left :
          /\ \A s \in Others(r) : call'[s] = call[s]
          /\ call'[r].at = "mark" /\ call'[r].left = call[r].left \ {g} /\ call'[r].text = call[r].text
          /\ workspace \subseteq workspace'
          /\ refused' = refused \cup (Defines(call[r].text[g]) \ workspace')
    BY <1>7, ReplayEffect
  <2>2. replayed' = replayed
    BY <1>7 DEF ReplayFile
  <2>3. \A s \in Runs : s = r \/ s \in Others(r)
    BY DEF Others
  <2>4. CASE Defines(replayed[f]) \subseteq workspace \cup refused
    BY <2>1, <2>2, <2>4
  <2>5. ASSUME NEW s \in Runs, Waits(s), s # r \/ f # g
        PROVE  Waits(s)'
    BY <2>1, <2>2, <2>3, <2>5 DEF Replays
  <2>6. CASE Waits(r) /\ f = g
    BY <2>1, <2>2, <2>6
  <2> QED
    BY <1>0, <2>4, <2>5, <2>6
<1>8. ASSUME NEW r \in Runs, EndReplay(r)
      PROVE  (Defines(replayed[f]) \subseteq workspace \cup refused)' \/ \E s \in Runs : Waits(s)'
  <2>1. \A s \in Others(r) : call'[s] = call[s]
    BY <1>8, ReturnEffect DEF EndReplay
  <2>2. \A s \in Runs : s = r \/ s \in Others(r)
    BY DEF Others
  <2>3. \A s \in Runs : Waits(s) => Waits(s)'
    BY <1>8, <2>1, <2>2 DEF EndReplay, Replays
  <2> QED
    BY <1>0, <1>8, <2>3 DEF EndReplay
<1>9. CASE UNCHANGED engineVars
  BY <1>0, <1>9 DEF engineVars, Replays
<1> QED
  BY <1>1, <1>2, <1>4, <1>5, <1>6, <1>7, <1>8, <1>9 DEF EngineNext

\* However many calls overlap and whichever statements fail, what the last
\* resetting call had read is in the workspace when all have returned, but for
\* names whose own DEFINE failed (embedded_db.rs, apply_migrations).
THEOREM ReplaysLoseNothing == EngineSpec => []NothingIsLost
<1>1. EngineInit => LostInv
  BY DEF EngineInit, LostInv, NoTexts, Defines
<1>2. LostInv => NothingIsLost
  BY DEF LostInv, NothingIsLost, Replays, Active, AllDefined
<1> QED
  BY <1>1, <1>2, LostStays, EngineTypeCorrect, PTL DEF EngineSpec

-----------------------------------------------------------------------------
(* A call that is alone.                                                   *)

\* Whatever else changes, a call that is active and was not touched keeps
\* what is known of it, unless another one is active too.
AloneAt(r) ==
  Active(r) /\ call[r].alone =>
    /\ \A o \in Others(r) : ~Active(o)
    /\ Replays(r) => Replayed(r)

\* A step of a call that is active, while it stays active or returns, and
\* begins nothing: only that call can be alone before and after it.
LEMMA OwnStep ==
  ASSUME EngineTypeOK, AloneInv, NEW r \in Runs, Active(r),
         \A s \in Others(r) : call'[s] = call[s],
         AloneAt(r)'
  PROVE  AloneInv'
<1> SUFFICES ASSUME NEW s \in Others(r) PROVE AloneAt(s)'
  BY DEF AloneInv, AloneAt, Others
<1>1. s \in Runs /\ r \in Others(s)
  BY DEF Others
<1>2. ~(Active(s) /\ call[s].alone)
  BY <1>1 DEF AloneInv
<1> QED
  BY <1>2 DEF AloneAt, Active

LEMMA AloneStays == EngineTypeOK /\ AloneInv /\ [EngineNext]_engineVars => AloneInv'
<1> SUFFICES ASSUME EngineTypeOK, AloneInv, [EngineNext]_engineVars
             PROVE  AloneInv'
  OBVIOUS
<1>0. \A r \in Runs : AloneAt(r)
  BY DEF AloneInv, AloneAt
<1>1. CASE ChangeFile
  BY <1>1 DEF ChangeFile, AloneInv, Active, Replays, Replayed, Done
<1>2. ASSUME NEW r \in Runs, BeginApply(r) PROVE AloneInv'
  <2>1. AloneAt(r)'
    BY <1>2, BeginEffect DEF AloneAt, Active, Replays, Others
  <2>2. ASSUME NEW s \in Others(r) PROVE ~(Active(s) /\ call[s].alone)'
    BY <1>2, <2>2, BeginEffect DEF Active
  <2> QED
    BY <2>1, <2>2 DEF AloneInv, AloneAt, Others
<1>3. ASSUME NEW r \in Runs, ReadFile(r) \/ CheckFile(r) PROVE AloneInv'
  <2>1. Active(r) /\ UNCHANGED workspace
    BY <1>3 DEF ReadFile, CheckFile, Active
  <2>2. /\ \A s \in Others(r) : call'[s] = call[s]
        /\ call'[r].at \in {"read", "check"} /\ call'[r].alone = call[r].alone
    BY <1>3, ReadEffect, CheckEffect
  <2>3. AloneAt(r)'
    BY <1>0, <2>1, <2>2 DEF AloneAt, Active, Replays
  <2> QED
    BY <2>1, <2>2, <2>3, OwnStep
<1>4. ASSUME NEW r \in Runs, Active(r), call' = [call EXCEPT ![r] = Returned] PROVE AloneInv'
  <2>1. AloneAt(r)' /\ \A s \in Others(r) : call'[s] = call[s]
    BY <1>4, ReturnEffect DEF AloneAt, Active
  <2> QED
    BY <1>4, <2>1, OwnStep
<1>5. ASSUME NEW r \in Runs, ResetWorkspace(r) PROVE AloneInv'
  <2>1. Active(r) /\ workspace' = {}
    BY <1>5 DEF ResetWorkspace, RemoveDatabase, Active
  <2>2. \A f \in Done(r)' : Defines(call'[r].text[f]) = {}
    BY <1>5, ResetEffect DEF Done, Defines
  <2>3. Replayed(r)'
    BY <2>1, <2>2 DEF Replayed
  <2>4. AloneAt(r)'
    BY <1>0, <1>5, <2>1, <2>3, ResetEffect DEF AloneAt, Active
  <2> QED
    BY <1>5, <2>1, <2>4, ResetEffect, OwnStep
<1>6. ASSUME NEW r \in Runs, Replays(r), call' = [call EXCEPT ![r] = [call[r] EXCEPT !.at = "replay"]],
             UNCHANGED workspace
      PROVE  AloneInv'
  <2>1. Active(r)
    BY <1>6 DEF Active, Replays
  <2>2. AloneAt(r)'
    BY <1>0, <1>6, <2>1, GoOnEffect DEF AloneAt, Active, Replayed, Done
  <2> QED
    BY <1>6, <2>1, <2>2, GoOnEffect, OwnStep
<1>7. ASSUME NEW r \in Runs, ReplayFile(r) PROVE AloneInv'
  <2>1. PICK f \in call[r].left :
          /\ f \in Path
          /\ \A s \in Others(r) : call'[s] = call[s]
          /\ call'[r].left = call[r].left \ {f}
          /\ call'[r].text = call[r].text /\ call'[r].alone = call[r].alone
          /\ workspace \subseteq workspace'
          /\ workspace' \subseteq workspace \cup Defines(call[r].text[f])
          /\ call[r].errors \subseteq call'[r].errors
          /\ f \notin call'[r].errors => Defines(call[r].text[f]) \subseteq workspace'
    BY <1>7, ReplayEffect
  <2>2. Active(r) /\ Replays(r)
    BY <1>7 DEF ReplayFile, Active, Replays
  <2>3. Done(r)' = Done(r) \cup {f}
    BY <2>1 DEF Done
  <2>4. ASSUME Replayed(r) PROVE Replayed(r)'
    BY <2>1, <2>3, <2>4 DEF Replayed
  <2>5. AloneAt(r)'
    BY <1>0, <2>1, <2>2, <2>4 DEF AloneAt, Active, Others
  <2> QED
    BY <2>1, <2>2, <2>5, OwnStep
<1>8. ASSUME NEW r \in Runs, SkipReplay(r) \/ EndReplay(r) PROVE AloneInv'
  <2>1. Active(r) /\ call' = [call EXCEPT ![r] = Returned]
    BY <1>8 DEF SkipReplay, EndReplay, Active
  <2> QED
    BY <1>4, <2>1
<1>9. ASSUME NEW r \in Runs, SwitchSession(r) \/ MarkFileApplied(r) PROVE AloneInv'
  <2>1. Active(r) /\ Replays(r) /\ UNCHANGED workspace
    BY <1>9 DEF SwitchSession, MarkFileApplied, Active, Replays
  <2>2. \/ call' = [call EXCEPT ![r] = Returned]
        \/ call' = [call EXCEPT ![r] = [call[r] EXCEPT !.at = "replay"]]
    BY <1>9 DEF SwitchSession, MarkFileApplied
  <2> QED
    BY <1>4, <1>6, <2>1, <2>2
<1>10. CASE UNCHANGED engineVars
  BY <1>10 DEF engineVars, AloneInv, Active, Replays, Replayed, Done
<1> QED
  BY <1>1, <1>2, <1>3, <1>5, <1>7, <1>8, <1>9, <1>10 DEF EngineNext

\* A replay that no other call overlapped leaves what the files it read define
\* and nothing else, and returns as errors every file of which anything is
\* missing (embedded_db.rs, reset_workspace before the replay).
THEOREM AloneReplaysAreExact == EngineSpec => AloneReplayIsExact
<1>1. EngineInit => AloneInv
  BY ReturnedTyped DEF EngineInit, AloneInv, Active
<1>2. EngineTypeOK /\ AloneInv =>
        \A r \in Runs : EndReplay(r) /\ call[r].alone =>
          /\ workspace \subseteq AllDefined(call[r].text)
          /\ \A f \in Path \ call[r].errors : Defines(call[r].text[f]) \subseteq workspace
  BY DEF AloneInv, EndReplay, Active, Replays, Replayed, Done, AllDefined
<1> QED
  BY <1>1, <1>2, AloneStays, EngineTypeCorrect, PTL DEF EngineSpec, AloneReplayIsExact

-----------------------------------------------------------------------------
(* A call that finds nothing changed.                                      *)

LEMMA SettledStays ==
  EngineTypeOK /\ AloneInv /\ SettledInv /\ [EngineNext]_engineVars => SettledInv'
<1> SUFFICES ASSUME EngineTypeOK, AloneInv, SettledInv, [EngineNext]_engineVars, settled'
             PROVE  /\ RowsInEffect'
                    /\ \A s \in Runs : (~Replays(s) /\ (Active(s) /\ ~call[s].changed => Compared(s)))'
  BY DEF SettledInv
<1> DEFINE Fine(s) == ~Replays(s) /\ (Active(s) /\ ~call[s].changed => Compared(s))
<1>0. \A r \in Runs : \A s \in Runs : s = r \/ s \in Others(r)
  BY DEF Others
<1>1. CASE ChangeFile
  BY <1>1 DEF ChangeFile, SettledInv, RowsInEffect, Replays, Active, Compared
<1>2. ASSUME NEW r \in Runs, settled, UNCHANGED <<workspace, meta, erroneous>>, Fine(r)',
             \A s \in Others(r) : Fine(s) => Fine(s)'
      PROVE  /\ RowsInEffect'
             /\ \A s \in Runs : Fine(s)'
  BY <1>0, <1>2 DEF SettledInv, RowsInEffect
<1>3. ASSUME NEW r \in Runs, UNCHANGED meta, NEW s \in Runs, call'[s] = call[s], Fine(s)
      PROVE  Fine(s)'
  BY <1>3 DEF Replays, Active, Compared
<1>4. ASSUME NEW r \in Runs, BeginApply(r)
      PROVE  RowsInEffect' /\ \A s \in Runs : Fine(s)'
  <2>1. settled /\ UNCHANGED <<workspace, meta, erroneous>>
    BY <1>4 DEF BeginApply
  <2>2. Fine(r)'
    <3>1. call'[r].at = "read" /\ call'[r].text = NoTexts
      BY <1>4, BeginEffect
    <3>2. \A g \in Path : call'[r].text[g] = NoFile
      BY <3>1 DEF NoTexts
    <3> QED
      BY <3>1, <3>2 DEF Replays, Compared
  <2>3. ASSUME NEW s \in Others(r), Fine(s) PROVE Fine(s)'
    <3>1. /\ call'[s].at = call[s].at /\ call'[s].text = call[s].text
          /\ call'[s].file = call[s].file /\ call'[s].changed = call[s].changed
      BY <1>4, BeginEffect
    <3> QED
      BY <2>1, <2>3, <3>1 DEF Replays, Active, Compared
  <2> QED
    BY <1>2, <2>1, <2>2, <2>3
<1>5. ASSUME NEW r \in Runs, ReadFile(r)
      PROVE  RowsInEffect' /\ \A s \in Runs : Fine(s)'
  <2>1. settled /\ UNCHANGED <<workspace, meta, erroneous>> /\ call[r].at = "read"
    BY <1>5 DEF ReadFile
  <2>2. PICK f \in Path :
          /\ \A s \in Others(r) : call'[s] = call[s]
          /\ call'[r].text = [call[r].text EXCEPT ![f] = disk[f]]
          /\ call'[r].at = (IF disk[f] = NoFile THEN "read" ELSE "check")
          /\ call'[r].file = f /\ call'[r].changed = call[r].changed
    BY <1>5, ReadEffect
  <2>3. call[r].text \in [Path -> FileText \cup {NoFile}]
    BY DEF EngineTypeOK, CallRecord
  <2>4. Fine(r)
    BY <2>1 DEF SettledInv
  <2>5. Fine(r)'
    BY <2>1, <2>2, <2>3, <2>4 DEF Replays, Active, Compared
  <2>6. \A s \in Others(r) : Fine(s) => Fine(s)'
    BY <1>3, <2>1, <2>2 DEF Others
  <2> QED
    BY <1>2, <2>1, <2>5, <2>6
<1>6. ASSUME NEW r \in Runs, CheckFile(r)
      PROVE  RowsInEffect' /\ \A s \in Runs : Fine(s)'
  <2>1. settled /\ UNCHANGED <<workspace, meta, erroneous>> /\ call[r].at = "check"
    BY <1>6 DEF CheckFile
  <2>2. Fine(r)
    BY <2>1 DEF SettledInv
  <2>3. Fine(r)'
    BY <1>6, <2>1, <2>2, CheckEffect DEF Replays, Active, Compared
  <2>4. \A s \in Others(r) : Fine(s) => Fine(s)'
    BY <1>3, <1>6, <2>1, CheckEffect DEF Others
  <2> QED
    BY <1>2, <2>1, <2>3, <2>4
<1>7. ASSUME NEW r \in Runs, SkipReplay(r)
      PROVE  RowsInEffect' /\ \A s \in Runs : Fine(s)'
  <2>1. settled /\ UNCHANGED <<workspace, meta, erroneous>>
    BY <1>7 DEF SkipReplay
  <2>2. Fine(r)' /\ \A s \in Others(r) : call'[s] = call[s]
    BY <1>7, ReturnEffect DEF SkipReplay, Replays, Active
  <2>3. \A s \in Others(r) : Fine(s) => Fine(s)'
    BY <1>3, <2>1, <2>2 DEF Others
  <2> QED
    BY <1>2, <2>1, <2>2, <2>3
<1>8. ASSUME NEW r \in Runs, ResetWorkspace(r) PROVE FALSE
  BY <1>8 DEF ResetWorkspace
<1>9. ASSUME NEW r \in Runs, SwitchSession(r) \/ ReplayFile(r) \/ MarkFileApplied(r) PROVE FALSE
  <2>1. settled /\ Replays(r)
    BY <1>9 DEF SwitchSession, ReplayFile, MarkFileApplied, Replays
  <2> QED
    BY <2>1 DEF SettledInv
<1>10. ASSUME NEW r \in Runs, EndReplay(r)
       PROVE  RowsInEffect' /\ \A s \in Runs : Fine(s)'
  <2>1. /\ call[r].alone /\ meta = call[r].text /\ call[r].errors \subseteq erroneous
        /\ UNCHANGED <<workspace, meta, erroneous>>
    BY <1>10 DEF EndReplay
  <2>2. Active(r) /\ Replays(r) /\ Done(r) = Path
    BY <1>10 DEF EndReplay, Active, Replays, Done
  <2>3. RowsInEffect /\ \A o \in Others(r) : ~Active(o)
    BY <2>1, <2>2 DEF AloneInv, Replayed, RowsInEffect
  <2>4. Fine(r)' /\ \A s \in Others(r) : call'[s] = call[s]
    BY <1>10, ReturnEffect DEF EndReplay, Replays, Active
  <2>5. ASSUME NEW s \in Others(r) PROVE Fine(s)'
    BY <2>3, <2>4, <2>5 DEF Replays, Active
  <2> QED
    BY <1>0, <2>1, <2>3, <2>4, <2>5 DEF RowsInEffect
<1>11. CASE UNCHANGED engineVars
  BY <1>11 DEF engineVars, SettledInv, RowsInEffect, Replays, Active, Compared
<1> QED
  BY <1>1, <1>4, <1>5, <1>6, <1>7, <1>8, <1>9, <1>10, <1>11 DEF EngineNext

\* A call that finds every hash unchanged may leave the workspace as it is,
\* after a replay that was undisturbed and recorded: it has what every row
\* without an error is about (embedded_db.rs, needs_reapply).
THEOREM SkipsAreSafe == EngineSpec => SkipIsSafe
<1>1. EngineInit => AloneInv /\ SettledInv
  BY ReturnedTyped DEF EngineInit, AloneInv, SettledInv, RowsInEffect, Active, Replays, NoTexts, Defines
<1>2. EngineTypeOK /\ SettledInv =>
        \A r \in Runs : SkipReplay(r) /\ settled =>
          \A f \in Path \ erroneous : Defines(call[r].text[f]) \subseteq workspace
  <2> SUFFICES ASSUME SettledInv, NEW r \in Runs, SkipReplay(r), settled,
                      NEW f \in Path \ erroneous
               PROVE  Defines(call[r].text[f]) \subseteq workspace
    OBVIOUS
  <2>1. RowsInEffect /\ Compared(r) /\ call[r].at = "read"
    BY DEF SettledInv, SkipReplay, Active
  <2>2. Defines(call[r].text[f]) \subseteq Defines(meta[f])
    BY <2>1 DEF Compared, Defines
  <2> QED
    BY <2>1, <2>2 DEF RowsInEffect
<1> QED
  BY <1>1, <1>2, AloneStays, SettledStays, EngineTypeCorrect, PTL DEF EngineSpec, SkipIsSafe

-----------------------------------------------------------------------------
(* The schema graph.                                                       *)

\* The elements of a longer list.
LEMMA RangeOfAppend ==
  ASSUME NEW A, NEW r \in Seq(A), NEW x \in A
  PROVE  Append(r, x) \in Seq(A) /\ Range(Append(r, x)) = Range(r) \cup {x}
<1>1. /\ Append(r, x) \in Seq(A) /\ Len(r) \in Nat
      /\ DOMAIN Append(r, x) = 1..(Len(r) + 1) /\ DOMAIN r = 1..Len(r)
      /\ \A i \in 1..Len(r) : Append(r, x)[i] = r[i]
      /\ Append(r, x)[Len(r) + 1] = x
  OBVIOUS
<1>2. 1..(Len(r) + 1) = (1..Len(r)) \cup {Len(r) + 1}
  BY <1>1
<1> QED
  BY <1>1, <1>2 DEF Range

\* A filtered list has the elements that pass, by induction over its
\* positions (Extrema).
LEMMA ThoseAreThose ==
  ASSUME NEW A, NEW seq \in Seq(A), NEW S
  PROVE  Those(seq, S) \in Seq(A) /\ Range(Those(seq, S)) = Range(seq) \cap S
<1> DEFINE n == Len(seq)
           step == [p \in (1..n) \X Seq(A) |->
                      IF seq[p[1]] \in S THEN Append(p[2], seq[p[1]]) ELSE p[2]]
           Next1(s, r) == IF seq[Max(s)] \in S THEN Append(r, seq[Max(s)]) ELSE r
           Unfolds(g) == g = [s \in SUBSET (DOMAIN seq) |-> IF s = {} THEN <<>> ELSE Next1(s, g[s \ {Max(s)}])]
           it == CHOOSE g : Unfolds(g)
<1>1. n \in Nat /\ DOMAIN seq = 1..n /\ \A i \in 1..n : seq[i] \in A
  OBVIOUS
<1>2. step \in [(1..n) \X Seq(A) -> Seq(A)]
  BY <1>1
<1>3. PICK g : IsFold(g, n, Seq(A), <<>>, step)
  <2>1. <<>> \in Seq(A)
    OBVIOUS
  <2> HIDE DEF step, n
  <2> QED
    BY <1>1, <1>2, <2>1, FoldExists, Zenon
<1>4. \A s \in SUBSET (1..n) : s # {} => Max(s) \in 1..n /\ s \ {Max(s)} \in SUBSET (1..n)
  BY <1>1, LastPosition
<1>5. \A s \in SUBSET (1..n) : s # {} => g[s] = Next1(s, g[s \ {Max(s)}])
  <2> HIDE DEF n
  <2> QED
    BY <1>3, <1>4 DEF IsFold
<1>6. Unfolds(g)
  <2>1. g = [s \in SUBSET (1..n) |-> g[s]]
    BY <1>3 DEF IsFold
  <2> HIDE DEF Next1, n
  <2> QED
    BY <1>1, <1>3, <1>5, <2>1 DEF IsFold
<1>7. Unfolds(it)
  <2> HIDE DEF Unfolds
  <2> QED
    BY <1>6
<1>8. Those(seq, S) = it[DOMAIN seq]
  BY DEF Those, FoldLeft, MapThenFoldSet

<1> HIDE DEF it
<1>a. it[{}] = <<>> /\ \A s \in SUBSET (1..n) : s # {} => it[s] = Next1(s, it[s \ {Max(s)}])
  BY <1>1, <1>7
<1> HIDE DEF Unfolds
<1> DEFINE Kept(s) == {r \in Seq(A) : Range(r) = {seq[i] : i \in s} \cap S}
           J == [s \in SUBSET (1..n) |-> Kept(s)]
<1>9. it[{}] \in J[{}]
  BY <1>a DEF Range
<1>10. ASSUME NEW s \in SUBSET (1..n), s # {}, it[s \ {Max(s)}] \in J[s \ {Max(s)}]
       PROVE  it[s] \in J[s]
  <2>1. PICK m : m = Max(s)
    OBVIOUS
  <2>2. m \in 1..n /\ m \in s /\ s \ {m} \in SUBSET (1..n)
    BY <1>1, <1>10, <2>1, LastPosition
  <2>3. PICK r : r = it[s \ {m}]
    OBVIOUS
  <2>4. r \in Seq(A) /\ Range(r) = {seq[i] : i \in s \ {m}} \cap S
    BY <1>10, <2>1, <2>2, <2>3
  <2>5. it[s] = IF seq[m] \in S THEN Append(r, seq[m]) ELSE r
    BY <1>a, <1>10, <2>1, <2>3
  <2>6. {seq[i] : i \in s} = {seq[i] : i \in s \ {m}} \cup {seq[m]}
    BY <2>2
  <2>7. seq[m] \in A
    BY <1>1, <2>2
  <2>8. Append(r, seq[m]) \in Seq(A) /\ Range(Append(r, seq[m])) = Range(r) \cup {seq[m]}
    BY <2>4, <2>7, RangeOfAppend
  <2>9. it[s] \in Seq(A) /\ Range(it[s]) = {seq[i] : i \in s} \cap S
    BY <2>4, <2>5, <2>6, <2>8
  <2> QED
    BY <2>9
<1>11. \A s \in SUBSET (1..n) : it[s] \in J[s]
  <2> HIDE DEF J
  <2> QED
    BY <1>1, <1>9, <1>10, FoldInduction
<1>12. it[1..n] \in Kept(1..n)
  BY <1>11
<1> QED
  BY <1>1, <1>8, <1>12 DEF Range


-----------------------------------------------------------------------------
\* Graphs and their parts.

\* What the statements of the files can put into a graph.
DefinitionNames == UNION {{d.name, d.on} : d \in DefinitionsIn(GraphFile)}
Distinctions == {d.as : d \in DefinitionsIn(GraphFile)}
Entry == [name : DefinitionNames, as : Distinctions]
Table(S) == [full : BOOLEAN, fields : Seq(Entry), indexes : Seq(Entry), events : Seq(Entry), scope : S]
MapsTo(V) == UNION {[D -> V] : D \in SUBSET DefinitionNames}
GraphOf(S) ==
  [tables : MapsTo(Table(S)), functions : MapsTo(Distinctions), params : SUBSET DefinitionNames,
   fieldIndex : {{}}]
GraphStatements == {d \in DefinitionsIn(GraphFile) : d.kind # "use"}

\* A list of some of the elements.
LEMMA SequenceOfElements ==
  ASSUME NEW A, NEW B, NEW s \in Seq(A), Range(s) \subseteq B
  PROVE  s \in Seq(B)
  BY DEF Range

\* The passes of from_definitions see no USE.
LEMMA PassesAreDefined ==
  ASSUME NEW f \in GraphFile
  PROVE  InPasses(Definitions[f]) \in Seq(GraphStatements)
<1> DEFINE defs == Definitions[f]
<1>1. defs \in Seq(DefinitionsIn(GraphFile))
  <2>1. defs \in Seq(DefinitionsIn({f}))
    BY GraphAssumption
  <2>2. Range(defs) \subseteq DefinitionsIn(GraphFile)
    BY DEF DefinitionsIn
  <2> QED
    BY <2>1, <2>2, SequenceOfElements
<1>2. ASSUME NEW k \in DefinitionKind \ {"use"} PROVE OfKind(defs, k) \in Seq(GraphStatements)
  <2> DEFINE S == {d \in Range(defs) : d.kind = k}
             it == Those(defs, S)
  <2>1. it \in Seq(DefinitionsIn(GraphFile)) /\ Range(it) = Range(defs) \cap S
    BY <1>1, ThoseAreThose
  <2>2. Range(defs) \cap S \subseteq GraphStatements
    BY <1>1, <1>2 DEF GraphStatements, Range
  <2>3. it \in Seq(GraphStatements)
    <3> HIDE DEF it
    <3> QED
      BY <2>1, <2>2, SequenceOfElements
  <2> QED
    BY <2>3 DEF OfKind
<1> HIDE DEF defs
<1>3. /\ OfKind(defs, "table") \in Seq(GraphStatements) /\ OfKind(defs, "field") \in Seq(GraphStatements)
      /\ OfKind(defs, "index") \in Seq(GraphStatements) /\ OfKind(defs, "event") \in Seq(GraphStatements)
      /\ OfKind(defs, "function") \in Seq(GraphStatements) /\ OfKind(defs, "param") \in Seq(GraphStatements)
  BY <1>2 DEF DefinitionKind
<1> QED
  BY <1>3 DEF InPasses, defs

\* HashMap::insert.
LEMMA InsertIsTyped ==
  ASSUME NEW V, NEW m \in MapsTo(V), NEW k \in DefinitionNames, NEW v \in V
  PROVE  Insert(m, k, v) \in MapsTo(V)
<1>1. DOMAIN m \cup {k} \in SUBSET DefinitionNames
  BY DEF MapsTo
<1>2. Insert(m, k, v) \in [DOMAIN m \cup {k} -> V]
  BY DEF MapsTo, Insert
<1> QED
  BY <1>1, <1>2 DEF MapsTo

\* A table with one entry more.
LEMMA TableWithEntry ==
  ASSUME NEW S, NEW t \in Table(S), NEW e \in Entry
  PROVE  /\ [t EXCEPT !.fields = Append(@, e)] \in Table(S)
         /\ [t EXCEPT !.indexes = Append(@, e)] \in Table(S)
         /\ [t EXCEPT !.events = Append(@, e)] \in Table(S)
<1>1. /\ t.full \in BOOLEAN /\ t.fields \in Seq(Entry) /\ t.indexes \in Seq(Entry)
      /\ t.events \in Seq(Entry) /\ t.scope \in S
      /\ t = [full |-> t.full, fields |-> t.fields, indexes |-> t.indexes, events |-> t.events,
              scope |-> t.scope]
  BY DEF Table
<1>2. \A q \in Seq(Entry) : Append(q, e) \in Seq(Entry)
  OBVIOUS
<1>3. /\ Append(t.fields, e) \in Seq(Entry) /\ Append(t.indexes, e) \in Seq(Entry)
      /\ Append(t.events, e) \in Seq(Entry)
  BY <1>1, <1>2
<1> QED
  BY <1>1, <1>3 DEF Table

\* One definition added to a graph (from_definitions).
LEMMA AddDefinitionIsTyped ==
  ASSUME NEW S, NEW scope \in S, NEW g \in GraphOf(S), NEW d \in GraphStatements
  PROVE  AddDefinition(g, d, scope) \in GraphOf(S)
<1>1. /\ d.name \in DefinitionNames /\ d.on \in DefinitionNames /\ d.as \in Distinctions
      /\ d.kind \in DefinitionKind \ {"use"} /\ (d.kind = "table" => d.as \in BOOLEAN)
  BY GraphAssumption DEF GraphStatements, DefinitionNames, Distinctions
<1>2. /\ g.tables \in MapsTo(Table(S)) /\ g.functions \in MapsTo(Distinctions)
      /\ g.params \in SUBSET DefinitionNames /\ g.fieldIndex = {}
      /\ g = [tables |-> g.tables, functions |-> g.functions, params |-> g.params, fieldIndex |-> {}]
  BY DEF GraphOf
<1>3. ASSUME NEW t \in DOMAIN g.tables PROVE g.tables[t] \in Table(S)
  BY <1>2 DEF MapsTo
<1>4. \A ts \in MapsTo(Table(S)) : [g EXCEPT !.tables = ts] \in GraphOf(S)
  BY <1>2 DEF GraphOf
<1>e. [name |-> d.name, as |-> d.as] \in Entry
  BY <1>1 DEF Entry
<1>5. \A full \in BOOLEAN : NewTable(full, scope) \in Table(S)
  BY DEF NewTable, Table
<1>6. CASE d.kind = "table"
  <2>1. AddDefinition(g, d, scope) = AddTable(g, d, scope)
    BY <1>6 DEF AddDefinition
  <2>2. Insert(g.tables, d.name, NewTable(d.as, scope)) \in MapsTo(Table(S))
    BY <1>1, <1>2, <1>5, <1>6, InsertIsTyped
  <2> QED
    BY <2>1, <2>2, <1>4 DEF AddTable
<1>7. CASE d.kind = "field"
  <2>1. AddDefinition(g, d, scope) = AddField(g, d, scope)
    BY <1>7 DEF AddDefinition
  <2> DEFINE t == IF d.on \in DOMAIN g.tables THEN g.tables[d.on] ELSE NewTable(FALSE, scope)
             f == [name |-> d.name, as |-> d.as]
             u == [t EXCEPT !.fields = Append(@, f)]
  <2>2. t \in Table(S)
    BY <1>3, <1>5
  <2>3. u \in Table(S)
    <3> HIDE DEF t, f
    <3>1. f \in Entry
      BY <1>e DEF f
    <3> QED
      BY <2>2, <3>1, TableWithEntry
  <2>4. Insert(g.tables, d.on, u) \in MapsTo(Table(S))
    <3> HIDE DEF u
    <3> QED
      BY <1>1, <1>2, <2>3, InsertIsTyped
  <2> QED
    BY <2>1, <2>4, <1>4 DEF AddField
<1>8. ASSUME NEW u \in Table(S), d.on \in DOMAIN g.tables
      PROVE  [g EXCEPT !.tables[d.on] = u] \in GraphOf(S)
  <2>1. [g.tables EXCEPT ![d.on] = u] \in MapsTo(Table(S))
    BY <1>2 DEF MapsTo
  <2> QED
    BY <2>1, <1>4
<1>9. CASE d.kind = "index"
  <2>1. AddDefinition(g, d, scope) = AddIndex(g, d)
    BY <1>9 DEF AddDefinition
  <2>2. ASSUME d.on \in DOMAIN g.tables
        PROVE  [g.tables[d.on] EXCEPT !.indexes = Append(@, [name |-> d.name, as |-> d.as])] \in Table(S)
    BY <1>3, <1>e, <2>2, TableWithEntry
  <2> QED
    BY <2>1, <2>2, <1>8 DEF AddIndex
<1>10. CASE d.kind = "event"
  <2>1. AddDefinition(g, d, scope) = AddEvent(g, d)
    BY <1>10 DEF AddDefinition
  <2>2. ASSUME d.on \in DOMAIN g.tables
        PROVE  [g.tables[d.on] EXCEPT !.events = Append(@, [name |-> d.name, as |-> d.as])] \in Table(S)
    BY <1>3, <1>e, <2>2, TableWithEntry
  <2> QED
    BY <2>1, <2>2, <1>8 DEF AddEvent
<1>11. CASE d.kind = "function"
  <2>1. Insert(g.functions, d.name, d.as) \in MapsTo(Distinctions)
    BY <1>1, <1>2, InsertIsTyped
  <2> QED
    BY <1>2, <1>11, <2>1 DEF AddDefinition, AddFunction, GraphOf
<1>12. CASE d.kind = "param"
  BY <1>1, <1>2, <1>12 DEF AddDefinition, AddParam, GraphOf
<1> QED
  BY <1>1, <1>6, <1>7, <1>9, <1>10, <1>11, <1>12 DEF DefinitionKind

\* All definitions added to a graph, by induction over the passes.
LEMMA CollectedIsTyped ==
  ASSUME NEW f \in GraphFile, NEW S, NEW scope \in S
  PROVE  Collected(Definitions[f], scope) \in GraphOf(S)
<1> DEFINE seq == InPasses(Definitions[f])
           n == Len(seq)
           B == GraphOf(S)
           step == [p \in (1..n) \X B |-> AddDefinition(p[2], seq[p[1]], scope)]
           Next1(s, r) == AddDefinition(r, seq[Max(s)], scope)
           Unfolds(g) == g = [s \in SUBSET (DOMAIN seq) |-> IF s = {} THEN EmptyGraph ELSE Next1(s, g[s \ {Max(s)}])]
           it == CHOOSE g : Unfolds(g)
<1>1. n \in Nat /\ DOMAIN seq = 1..n /\ \A i \in 1..n : seq[i] \in GraphStatements
  <2>1. seq \in Seq(GraphStatements)
    BY PassesAreDefined
  <2> HIDE DEF seq
  <2> QED
    BY <2>1
<1>0. Collected(Definitions[f], scope) = it[DOMAIN seq]
  BY DEF Collected, FoldLeft, MapThenFoldSet
<1> HIDE DEF seq, n
<1>2. step \in [(1..n) \X B -> B]
  <2>1. \A p \in (1..n) \X B : AddDefinition(p[2], seq[p[1]], scope) \in B
    BY <1>1, AddDefinitionIsTyped
  <2> HIDE DEF B
  <2> QED
    BY <2>1
<1>b. EmptyGraph \in B
  <2>1. \A V : <<>> \in MapsTo(V)
    <3>1. \A V : <<>> \in [{} -> V]
      OBVIOUS
    <3> QED
      BY <3>1 DEF MapsTo
  <2> QED
    BY <2>1 DEF EmptyGraph, GraphOf
<1>3. PICK g : IsFold(g, n, B, EmptyGraph, step)
  <2> HIDE DEF step, B
  <2> QED
    BY <1>1, <1>2, <1>b, FoldExists, Zenon
<1>4. \A s \in SUBSET (1..n) : s # {} => Max(s) \in 1..n /\ s \ {Max(s)} \in SUBSET (1..n)
  BY <1>1, LastPosition
<1>5. \A s \in SUBSET (1..n) : s # {} => g[s] = Next1(s, g[s \ {Max(s)}])
  <2> HIDE DEF B
  <2> QED
    BY <1>3, <1>4 DEF IsFold
<1>6. Unfolds(g)
  <2>1. g = [s \in SUBSET (1..n) |-> g[s]]
    BY <1>3 DEF IsFold
  <2> HIDE DEF Next1
  <2> QED
    BY <1>1, <1>3, <1>5, <2>1 DEF IsFold
<1>7. Unfolds(it)
  <2> HIDE DEF Unfolds
  <2> QED
    BY <1>6
<1> HIDE DEF it
<1>a. it[{}] = EmptyGraph /\ \A s \in SUBSET (1..n) : s # {} => it[s] = Next1(s, it[s \ {Max(s)}])
  BY <1>1, <1>7
<1> HIDE DEF Unfolds
<1> DEFINE J == [s \in SUBSET (1..n) |-> B]
<1>9. it[{}] \in J[{}]
  BY <1>a, <1>b
<1>10. ASSUME NEW s \in SUBSET (1..n), s # {}, it[s \ {Max(s)}] \in J[s \ {Max(s)}]
       PROVE  it[s] \in J[s]
  <2>1. Max(s) \in 1..n /\ s \ {Max(s)} \in SUBSET (1..n)
    BY <1>4, <1>10
  <2>2. it[s \ {Max(s)}] \in B
    BY <1>10, <2>1
  <2>3. seq[Max(s)] \in GraphStatements
    BY <1>1, <2>1
  <2>4. AddDefinition(it[s \ {Max(s)}], seq[Max(s)], scope) \in B
    BY <2>2, <2>3, AddDefinitionIsTyped
  <2> QED
    BY <1>a, <1>10, <2>4
<1>11. \A s \in SUBSET (1..n) : it[s] \in J[s]
  <2> HIDE DEF J
  <2> QED
    BY <1>1, <1>9, <1>10, FoldInduction
<1> QED
  BY <1>0, <1>1, <1>11

\* The scopes tables get.
FileScopes == {UsedScope(Definitions[f]) : f \in GraphFile}
\* A graph with its index of fields.
IsGraph(g) ==
  /\ g = [tables |-> g.tables, functions |-> g.functions, params |-> g.params,
          fieldIndex |-> g.fieldIndex]
  /\ g.tables \in MapsTo(Table(FileScopes)) /\ g.functions \in MapsTo(Distinctions)
  /\ g.params \subseteq DefinitionNames /\ g.fieldIndex = FieldIndex(g.tables)

\* The inductive invariant: a graph, and everything of its files in it.
GraphIInv ==
  /\ IsGraph(graph) /\ merged \subseteq GraphFile
  /\ view.document = "workspace" \/ view.document \in OpenDocument
  /\ MergeKeepsEverything

\* The graph of a file.
LEMMA FileGraphIsGraph ==
  ASSUME NEW f \in GraphFile
  PROVE  IsGraph(FromDefinitions(Definitions[f]))
<1> DEFINE g == Collected(Definitions[f], UsedScope(Definitions[f]))
<1>1. g \in GraphOf(FileScopes)
  <2>1. UsedScope(Definitions[f]) \in FileScopes
    BY DEF FileScopes
  <2> QED
    BY <2>1, CollectedIsTyped
<1>2. FromDefinitions(Definitions[f]) = [g EXCEPT !.fieldIndex = FieldIndex(g.tables)]
  BY DEF FromDefinitions
<1> HIDE DEF g
<1> QED
  BY <1>1, <1>2 DEF IsGraph, GraphOf

\* A merged list has the names of both.
LEMMA JoinedNames ==
  ASSUME NEW x \in Seq(Entry), NEW y \in Seq(Entry)
  PROVE  /\ x \o NewNames(x, y) \in Seq(Entry)
         /\ NamesIn(x \o NewNames(x, y)) = NamesIn(x) \cup NamesIn(y)
<1> DEFINE S == {d \in Range(y) : d.name \notin NamesIn(x)}
           z == Those(y, S)
<1>1. z \in Seq(Entry) /\ Range(z) = Range(y) \cap S
  BY ThoseAreThose
<1>2. NewNames(x, y) = z
  BY DEF NewNames
<1> HIDE DEF z
<1>3. /\ x \o z \in Seq(Entry) /\ DOMAIN (x \o z) = 1..(Len(x) + Len(z))
      /\ Len(x) \in Nat /\ Len(z) \in Nat /\ DOMAIN x = 1..Len(x) /\ DOMAIN z = 1..Len(z)
      /\ \A i \in 1..Len(x) : (x \o z)[i] = x[i]
      /\ \A i \in 1..Len(z) : (x \o z)[Len(x) + i] = z[i]
  BY <1>1
<1>4. ASSUME NEW n \in NamesIn(x \o z) PROVE n \in NamesIn(x) \/ n \in NamesIn(z)
  <2>1. PICK i \in 1..(Len(x) + Len(z)) : n = (x \o z)[i].name
    BY <1>3 DEF NamesIn
  <2>2. CASE i <= Len(x)
    BY <1>3, <2>1, <2>2 DEF NamesIn
  <2>3. CASE i > Len(x)
    <3>1. i - Len(x) \in 1..Len(z) /\ i = Len(x) + (i - Len(x))
      BY <1>3, <2>3
    <3> QED
      BY <1>3, <2>1, <3>1 DEF NamesIn
  <2> QED
    BY <1>3, <2>2, <2>3
<1>5. NamesIn(x) \subseteq NamesIn(x \o z) /\ NamesIn(z) \subseteq NamesIn(x \o z)
  <2>1. ASSUME NEW i \in 1..Len(x) PROVE i \in 1..(Len(x) + Len(z))
    BY <1>3
  <2>2. ASSUME NEW i \in 1..Len(z) PROVE Len(x) + i \in 1..(Len(x) + Len(z))
    BY <1>3
  <2>3. ASSUME NEW n \in NamesIn(x) PROVE n \in NamesIn(x \o z)
    <3>1. PICK i \in 1..Len(x) : n = x[i].name
      BY <1>3 DEF NamesIn
    <3>2. i \in 1..(Len(x) + Len(z)) /\ n = (x \o z)[i].name
      BY <1>3, <2>1, <3>1
    <3> QED
      BY <1>3, <3>2 DEF NamesIn
  <2>4. ASSUME NEW n \in NamesIn(z) PROVE n \in NamesIn(x \o z)
    <3>1. PICK i \in 1..Len(z) : n = z[i].name
      BY <1>3 DEF NamesIn
    <3>2. Len(x) + i \in 1..(Len(x) + Len(z)) /\ n = (x \o z)[Len(x) + i].name
      BY <1>3, <2>2, <3>1
    <3> QED
      BY <1>3, <3>2 DEF NamesIn
  <2> QED
    BY <2>3, <2>4
<1>6. NamesIn(z) = {d.name : d \in Range(z)} /\ NamesIn(y) = {d.name : d \in Range(y)}
  BY DEF NamesIn, Range
<1>7. NamesIn(z) = NamesIn(y) \ NamesIn(x)
  BY <1>1, <1>6
<1> QED
  BY <1>2, <1>3, <1>4, <1>5, <1>7

\* A table of both graphs (SchemaGraph::merge).
LEMMA MergedTable ==
  ASSUME NEW a \in Table(FileScopes), NEW b \in Table(FileScopes)
  PROVE  /\ MergeTables(a, b) \in Table(FileScopes)
         /\ MergeTables(a, b).full = (a.full \/ b.full)
         /\ NamesIn(MergeTables(a, b).fields) = NamesIn(a.fields) \cup NamesIn(b.fields)
         /\ NamesIn(MergeTables(a, b).indexes) = NamesIn(a.indexes) \cup NamesIn(b.indexes)
         /\ NamesIn(MergeTables(a, b).events) = NamesIn(a.events) \cup NamesIn(b.events)
<1> DEFINE m == MergeTables(a, b)
           fs == a.fields \o NewNames(a.fields, b.fields)
           is == a.indexes \o NewNames(a.indexes, b.indexes)
           es == a.events \o NewNames(a.events, b.events)
<1>1. /\ a.full \in BOOLEAN /\ a.fields \in Seq(Entry) /\ a.indexes \in Seq(Entry)
      /\ a.events \in Seq(Entry) /\ a.scope \in FileScopes
      /\ b.full \in BOOLEAN /\ b.fields \in Seq(Entry) /\ b.indexes \in Seq(Entry)
      /\ b.events \in Seq(Entry)
      /\ a = [full |-> a.full, fields |-> a.fields, indexes |-> a.indexes, events |-> a.events,
              scope |-> a.scope]
  BY DEF Table
<1>2. m = [full |-> a.full \/ b.full, fields |-> fs, indexes |-> is, events |-> es,
           scope |-> a.scope]
  <2>1. m = [a EXCEPT !.full = a.full \/ b.full, !.fields = fs, !.indexes = is, !.events = es]
    BY DEF MergeTables
  <2> HIDE DEF m, fs, is, es
  <2> QED
    BY <1>1, <2>1
<1>3. /\ fs \in Seq(Entry) /\ NamesIn(fs) = NamesIn(a.fields) \cup NamesIn(b.fields)
      /\ is \in Seq(Entry) /\ NamesIn(is) = NamesIn(a.indexes) \cup NamesIn(b.indexes)
      /\ es \in Seq(Entry) /\ NamesIn(es) = NamesIn(a.events) \cup NamesIn(b.events)
  BY <1>1, JoinedNames
<1> HIDE DEF m, fs, is, es
<1>4. m \in Table(FileScopes)
  BY <1>1, <1>2, <1>3 DEF Table
<1>5. m.full = (a.full \/ b.full) /\ m.fields = fs /\ m.indexes = is /\ m.events = es
  BY <1>2
<1>6. /\ m \in Table(FileScopes)
      /\ m.full = (a.full \/ b.full)
      /\ NamesIn(m.fields) = NamesIn(a.fields) \cup NamesIn(b.fields)
      /\ NamesIn(m.indexes) = NamesIn(a.indexes) \cup NamesIn(b.indexes)
      /\ NamesIn(m.events) = NamesIn(a.events) \cup NamesIn(b.events)
  BY <1>3, <1>4, <1>5
<1> QED
  BY <1>6 DEF m

\* The tables of a graph are tables.
LEMMA TableIn ==
  ASSUME NEW g, IsGraph(g), NEW t \in DOMAIN g.tables
  PROVE  g.tables[t] \in Table(FileScopes) /\ t \in DefinitionNames
  BY DEF IsGraph, MapsTo

\* Two graphs merged are a graph (SchemaGraph::merge).
LEMMA MergeIsGraph ==
  ASSUME NEW g, NEW h, IsGraph(g), IsGraph(h)
  PROVE  /\ IsGraph(Merge(g, h))
         /\ DOMAIN Merge(g, h).tables = DOMAIN g.tables \cup DOMAIN h.tables
         /\ \A t \in DOMAIN g.tables \cup DOMAIN h.tables :
              Merge(g, h).tables[t] = IF t \notin DOMAIN g.tables THEN h.tables[t]
                                      ELSE IF t \notin DOMAIN h.tables THEN g.tables[t]
                                      ELSE MergeTables(g.tables[t], h.tables[t])
         /\ DOMAIN Merge(g, h).functions = DOMAIN g.functions \cup DOMAIN h.functions
         /\ Merge(g, h).params = g.params \cup h.params
<1> DEFINE D == DOMAIN g.tables \cup DOMAIN h.tables
           TT(t) == IF t \notin DOMAIN g.tables THEN h.tables[t]
                    ELSE IF t \notin DOMAIN h.tables THEN g.tables[t]
                    ELSE MergeTables(g.tables[t], h.tables[t])
           tables == [t \in D |-> TT(t)]
           FF(f) == IF f \in DOMAIN g.functions THEN g.functions[f] ELSE h.functions[f]
           functions == [f \in DOMAIN g.functions \cup DOMAIN h.functions |-> FF(f)]
<1>1. Merge(g, h) = [tables |-> tables, functions |-> functions, params |-> g.params \cup h.params,
                     fieldIndex |-> FieldIndex(tables)]
  BY DEF Merge
<1>2. \A t \in D : TT(t) \in Table(FileScopes)
  BY TableIn, MergedTable
<1>3. D \in SUBSET DefinitionNames
  BY TableIn
<1>4. tables \in MapsTo(Table(FileScopes))
  <2> HIDE DEF TT, D
  <2>1. tables \in [D -> Table(FileScopes)]
    BY <1>2
  <2> HIDE DEF tables
  <2> QED
    BY <1>3, <2>1 DEF MapsTo
<1>5. functions \in MapsTo(Distinctions)
  <2>1. g.functions \in MapsTo(Distinctions) /\ h.functions \in MapsTo(Distinctions)
    BY DEF IsGraph
  <2>2. DOMAIN g.functions \cup DOMAIN h.functions \in SUBSET DefinitionNames
    BY <2>1 DEF MapsTo
  <2>3. functions \in [DOMAIN g.functions \cup DOMAIN h.functions -> Distinctions]
    BY <2>1 DEF MapsTo
  <2> HIDE DEF functions
  <2> QED
    BY <2>2, <2>3 DEF MapsTo
<1>6. DOMAIN tables = D /\ \A t \in D : tables[t] = TT(t)
  OBVIOUS
<1>7. DOMAIN functions = DOMAIN g.functions \cup DOMAIN h.functions
  OBVIOUS
<1> HIDE DEF tables, functions, TT, D
<1>8. g.params \subseteq DefinitionNames /\ h.params \subseteq DefinitionNames
  BY DEF IsGraph
<1>9. /\ Merge(g, h).tables = tables /\ Merge(g, h).functions = functions
      /\ Merge(g, h).params = g.params \cup h.params /\ Merge(g, h).fieldIndex = FieldIndex(tables)
  BY <1>1
<1>10. IsGraph(Merge(g, h))
  <2>1. Merge(g, h) = [tables |-> Merge(g, h).tables, functions |-> Merge(g, h).functions,
                       params |-> Merge(g, h).params, fieldIndex |-> Merge(g, h).fieldIndex]
    BY <1>1
  <2> QED
    BY <1>4, <1>5, <1>8, <1>9, <2>1 DEF IsGraph
<1> QED
  BY <1>6, <1>7, <1>9, <1>10 DEF TT, D

\* Merging loses no field, index or event, and makes up none.
LEMMA MergeKnowsNames ==
  ASSUME NEW g, NEW h, IsGraph(g), IsGraph(h), NEW part \in {"fields", "indexes", "events"}
  PROVE  NamePairs(Merge(g, h), part) = NamePairs(g, part) \cup NamePairs(h, part)
<1> DEFINE m == Merge(g, h)
           G == DOMAIN g.tables
           H == DOMAIN h.tables
           Of(x, t) == NamesIn(x.tables[t][part])
<1>1. /\ DOMAIN m.tables = G \cup H
      /\ \A t \in G \cup H : m.tables[t] = IF t \notin G THEN h.tables[t]
                                      ELSE IF t \notin H THEN g.tables[t]
                                      ELSE MergeTables(g.tables[t], h.tables[t])
  BY MergeIsGraph
<1>2. ASSUME NEW t \in G \cup H
      PROVE  Of(m, t) = (IF t \in G THEN Of(g, t) ELSE {}) \cup (IF t \in H THEN Of(h, t) ELSE {})
  <2>1. CASE t \in G /\ t \in H
    <3>1. g.tables[t] \in Table(FileScopes) /\ h.tables[t] \in Table(FileScopes)
      BY <2>1, TableIn
    <3>2. NamesIn(MergeTables(g.tables[t], h.tables[t])[part]) = Of(g, t) \cup Of(h, t)
      <4>1. \A a, b \in Table(FileScopes) :
              /\ NamesIn(MergeTables(a, b).fields) = NamesIn(a.fields) \cup NamesIn(b.fields)
              /\ NamesIn(MergeTables(a, b).indexes) = NamesIn(a.indexes) \cup NamesIn(b.indexes)
              /\ NamesIn(MergeTables(a, b).events) = NamesIn(a.events) \cup NamesIn(b.events)
        BY MergedTable
      <4>2. \A a, b \in Table(FileScopes) :
              NamesIn(MergeTables(a, b)[part]) = NamesIn(a[part]) \cup NamesIn(b[part])
        BY <4>1
      <4> QED
        BY <3>1, <4>2
    <3> QED
      BY <1>1, <2>1, <3>2
  <2>2. CASE t \notin G \/ t \notin H
    BY <1>1, <2>2
  <2> QED
    BY <2>1, <2>2
<1> HIDE DEF Of
<1>3. \A x : NamePairs(x, part) = UNION {{<<t, n>> : n \in Of(x, t)} : t \in DOMAIN x.tables}
  BY DEF NamePairs, Of
<1> HIDE DEF m, G, H
<1>4. NamePairs(m, part) = UNION {{<<t, n>> : n \in Of(m, t)} : t \in G \cup H}
  BY <1>1, <1>3
<1>5. NamePairs(g, part) = UNION {{<<t, n>> : n \in Of(g, t)} : t \in G}
  BY <1>3 DEF G
<1>6. NamePairs(h, part) = UNION {{<<t, n>> : n \in Of(h, t)} : t \in H}
  BY <1>3 DEF H
<1>7. NamePairs(m, part) = NamePairs(g, part) \cup NamePairs(h, part)
  BY <1>2, <1>4, <1>5, <1>6
<1> QED
  BY <1>7 DEF m

\* Merging loses nothing and makes up nothing.
LEMMA MergeKnowsAll ==
  ASSUME NEW g, NEW h, IsGraph(g), IsGraph(h)
  PROVE  Known(Merge(g, h)) = Known(g) \cup Known(h)
<1> DEFINE m == Merge(g, h)
           Full(x) == {<<"full", t>> : t \in {u \in DOMAIN x.tables : x.tables[u].full}}
           Fun(x) == {<<"function", f>> : f \in DOMAIN x.functions}
           Par(x) == {<<"param", p>> : p \in x.params}
<1>1. \A part \in {"fields", "indexes", "events"} :
        KnownIn(m, part) = KnownIn(g, part) \cup KnownIn(h, part)
  <2>1. \A part \in {"fields", "indexes", "events"} :
          NamePairs(m, part) = NamePairs(g, part) \cup NamePairs(h, part)
    BY MergeKnowsNames
  <2> HIDE DEF m
  <2> QED
    BY <2>1 DEF KnownIn
<1>2. /\ DOMAIN m.tables = DOMAIN g.tables \cup DOMAIN h.tables
      /\ \A t \in DOMAIN g.tables \cup DOMAIN h.tables :
              m.tables[t] = IF t \notin DOMAIN g.tables THEN h.tables[t]
                                      ELSE IF t \notin DOMAIN h.tables THEN g.tables[t]
                                      ELSE MergeTables(g.tables[t], h.tables[t])
      /\ DOMAIN m.functions = DOMAIN g.functions \cup DOMAIN h.functions
      /\ m.params = g.params \cup h.params
  BY MergeIsGraph
<1>3. \A t \in DOMAIN g.tables \cap DOMAIN h.tables :
         MergeTables(g.tables[t], h.tables[t]).full = (g.tables[t].full \/ h.tables[t].full)
  BY TableIn, MergedTable
<1> HIDE DEF m
<1>4. KnownTables(m) = KnownTables(g) \cup KnownTables(h)
  BY <1>2 DEF KnownTables
<1>5. \A t \in DOMAIN m.tables : m.tables[t].full <=>
         (t \in DOMAIN g.tables /\ g.tables[t].full) \/ (t \in DOMAIN h.tables /\ h.tables[t].full)
  BY <1>2, <1>3
<1>6. Full(m) = Full(g) \cup Full(h)
  BY <1>2, <1>5
<1>7. Fun(m) = Fun(g) \cup Fun(h) /\ Par(m) = Par(g) \cup Par(h)
  BY <1>2
<1>8. \A x : Known(x) = KnownTables(x) \cup KnownIn(x, "fields") \cup KnownIn(x, "indexes") \cup KnownIn(x, "events")
                 \cup Full(x) \cup Fun(x) \cup Par(x)
  BY DEF Known
<1> HIDE DEF Full, Fun, Par
<1>9. Known(m) = Known(g) \cup Known(h)
  BY <1>1, <1>4, <1>6, <1>7, <1>8
<1> QED
  BY <1>9 DEF m

\* A restricted graph is a graph that knows no more (SchemaGraph::scoped).
LEMMA ScopedIsGraph ==
  ASSUME NEW g, IsGraph(g), NEW filter
  PROVE  /\ IsGraph(Scoped(g, filter))
         /\ Known(Scoped(g, filter)) \subseteq Known(g)
         /\ \A t \in DOMAIN Scoped(g, filter).tables :
              ScopeMatches(Scoped(g, filter).tables[t].scope, filter)
<1> DEFINE D == {u \in DOMAIN g.tables : ScopeMatches(g.tables[u].scope, filter)}
           tables == [t \in D |-> g.tables[t]]
           s == Scoped(g, filter)
<1>1. s = [tables |-> tables, functions |-> g.functions, params |-> g.params,
           fieldIndex |-> FieldIndex(tables)]
  <2>1. s = [g EXCEPT !.tables = tables, !.fieldIndex = FieldIndex(tables)]
    BY DEF Scoped
  <2> HIDE DEF s, tables
  <2> QED
    BY <2>1 DEF IsGraph
<1>2. D \in SUBSET DefinitionNames /\ \A t \in D : g.tables[t] \in Table(FileScopes)
  BY TableIn
<1>3. tables \in MapsTo(Table(FileScopes))
  <2>1. tables \in [D -> Table(FileScopes)]
    BY <1>2
  <2> HIDE DEF tables, D
  <2> QED
    BY <1>2, <2>1 DEF MapsTo
<1>4. /\ DOMAIN tables = D /\ D \subseteq DOMAIN g.tables /\ \A t \in D : tables[t] = g.tables[t]
      /\ \A t \in D : ScopeMatches(g.tables[t].scope, filter)
  OBVIOUS
<1> HIDE DEF tables, s, D
<1>5. IsGraph(s)
  BY <1>1, <1>3 DEF IsGraph
<1>6. s.tables = tables /\ s.functions = g.functions /\ s.params = g.params
  BY <1>1
<1>7. \A part : NamePairs(s, part) \subseteq NamePairs(g, part)
  BY <1>4, <1>6 DEF NamePairs
<1>8. Known(s) \subseteq Known(g)
  <2>1. \A part : KnownIn(s, part) \subseteq KnownIn(g, part)
    BY <1>7 DEF KnownIn
  <2>2. KnownTables(s) \subseteq KnownTables(g)
    BY <1>4, <1>6 DEF KnownTables
  <2>3. {<<"full", t>> : t \in {u \in DOMAIN s.tables : s.tables[u].full}}
          \subseteq {<<"full", t>> : t \in {u \in DOMAIN g.tables : g.tables[u].full}}
    BY <1>4, <1>6
  <2> QED
    BY <1>6, <2>1, <2>2, <2>3 DEF Known
<1>9. \A t \in DOMAIN s.tables : ScopeMatches(s.tables[t].scope, filter)
  BY <1>4, <1>6
<1> QED
  BY <1>5, <1>8, <1>9 DEF s


-----------------------------------------------------------------------------
\* The schema graph of the workspace.

\* What the files of two sets know.
LEMMA KnownOfMore ==
  ASSUME NEW F, NEW G
  PROVE  KnownOfFiles(F \cup G) = KnownOfFiles(F) \cup KnownOfFiles(G)
  BY DEF KnownOfFiles

\* What one file knows.
LEMMA KnownOfOne ==
  ASSUME NEW f
  PROVE  KnownOfFiles({f}) = Known(FromDefinitions(Definitions[f]))
  BY DEF KnownOfFiles

\* The empty graph.
LEMMA NothingKnown ==
  IsGraph(EmptyGraph) /\ Known(EmptyGraph) = {}
<1>1. \A V : <<>> \in MapsTo(V)
  <2>1. \A V : <<>> \in [{} -> V]
    OBVIOUS
  <2> QED
    BY <2>1 DEF MapsTo
<1>2. DOMAIN <<>> = {}
  OBVIOUS
<1>3. FieldIndex(<<>>) = {}
  BY <1>2 DEF FieldIndex
<1>4. IsGraph(EmptyGraph)
  BY <1>1, <1>3 DEF IsGraph, EmptyGraph
<1>5. \A part : NamePairs(EmptyGraph, part) = {}
  BY <1>2 DEF NamePairs, EmptyGraph
<1>6. \A part : KnownIn(EmptyGraph, part) = {}
  BY <1>5 DEF KnownIn
<1>7. KnownTables(EmptyGraph) = {}
  BY <1>2 DEF KnownTables, EmptyGraph
<1>8. DOMAIN EmptyGraph.tables = {} /\ DOMAIN EmptyGraph.functions = {} /\ EmptyGraph.params = {}
  BY <1>2 DEF EmptyGraph
<1> QED
  BY <1>4, <1>6, <1>7, <1>8 DEF Known

\* The empty graph has everything of no files.
LEMMA GraphStarts == GraphInit => GraphIInv
<1> SUFFICES ASSUME GraphInit PROVE GraphIInv
  OBVIOUS
<1>1. graph = EmptyGraph /\ merged = {} /\ view.document = "workspace"
  BY DEF GraphInit
<1>2. KnownOfFiles({}) = {}
  BY DEF KnownOfFiles
<1> QED
  BY <1>1, <1>2, NothingKnown DEF GraphIInv, MergeKeepsEverything

\* A merge (merge_file_schemas) and a view (effective_schema) keep it.
LEMMA GraphGoesOn == GraphIInv /\ [GraphNext]_graphVars => GraphIInv'
<1> SUFFICES ASSUME GraphIInv, [GraphNext]_graphVars PROVE GraphIInv'
  OBVIOUS
<1>0. IsGraph(graph) /\ merged \subseteq GraphFile
  BY DEF GraphIInv
<1>1. ASSUME NEW f \in GraphFile, MergeFile(f) PROVE GraphIInv'
  <2> DEFINE h == FromDefinitions(Definitions[f])
  <2>1. /\ view.document = "workspace" /\ view' = view
        /\ graph' = Merge(graph, h) /\ merged' = merged \cup {f}
    BY <1>1 DEF MergeFile
  <2>2. IsGraph(h) /\ KnownOfFiles({f}) = Known(h)
    BY FileGraphIsGraph, KnownOfOne
  <2> HIDE DEF h
  <2>3. IsGraph(graph')
    BY <1>0, <2>1, <2>2, MergeIsGraph
  <2>4. Known(graph') = Known(graph) \cup Known(h)
    BY <1>0, <2>1, <2>2, MergeKnowsAll
  <2>5. Known(graph) = KnownOfFiles(merged)
    BY <2>1 DEF GraphIInv, MergeKeepsEverything
  <2>6. Known(graph') = KnownOfFiles(merged')
    BY <2>1, <2>2, <2>4, <2>5, KnownOfMore
  <2>7. MergeKeepsEverything'
    BY <2>1, <2>6 DEF MergeKeepsEverything
  <2> QED
    BY <1>0, <1>1, <2>1, <2>3, <2>7 DEF GraphIInv
<1>2. ASSUME NEW d \in OpenDocument, NEW configured \in Scopes, EffectiveSchema(d, configured)
      PROVE  GraphIInv'
  <2> DEFINE h == FromDefinitions(Definitions[d])
             scope == DocumentScope(d, configured)
             s == Scoped(graph, scope)
  <2>1. /\ view.document = "workspace" /\ view' = [document |-> d, scope |-> scope]
        /\ graph' = Merge(s, h) /\ merged' = merged
    BY <1>2 DEF EffectiveSchema
  <2>2. d \in GraphFile /\ d # "workspace"
    BY GraphAssumption
  <2>3. IsGraph(h) /\ KnownOfFiles({d}) = Known(h)
    BY <2>2, FileGraphIsGraph, KnownOfOne
  <2>4. IsGraph(s) /\ Known(s) \subseteq Known(graph)
        /\ \A t \in DOMAIN s.tables : ScopeMatches(s.tables[t].scope, scope)
    BY <1>0, ScopedIsGraph
  <2> HIDE DEF h, s, scope
  <2>5. IsGraph(graph')
    BY <2>1, <2>3, <2>4, MergeIsGraph
  <2>6. Known(graph') = Known(s) \cup Known(h)
    BY <2>1, <2>3, <2>4, MergeKnowsAll
  <2>7. Known(graph) = KnownOfFiles(merged)
    BY <2>1 DEF GraphIInv, MergeKeepsEverything
  <2>8. /\ Known(graph') \subseteq KnownOfFiles(merged' \cup {d})
        /\ KnownOfFiles({d}) \subseteq Known(graph')
    BY <2>1, <2>3, <2>4, <2>6, <2>7, KnownOfMore
  <2>9. ASSUME NEW t \in DOMAIN graph'.tables
        PROVE  <<"table", t>> \in KnownOfFiles({d}) \/ ScopeMatches(graph'.tables[t].scope, scope)
    <3>1. CASE t \in DOMAIN h.tables
      BY <2>3, <3>1 DEF Known, KnownTables
    <3>2. CASE t \notin DOMAIN h.tables
      <4>1. t \in DOMAIN s.tables /\ graph'.tables[t] = s.tables[t]
        BY <2>1, <2>3, <2>4, <2>9, <3>2, MergeIsGraph
      <4> QED
        BY <2>4, <4>1
    <3> QED
      BY <3>1, <3>2
  <2>10. view'.document = d /\ view'.scope = scope
    BY <2>1
  <2>11. MergeKeepsEverything'
    BY <2>2, <2>8, <2>9, <2>10 DEF MergeKeepsEverything
  <2> QED
    BY <1>0, <2>1, <2>5, <2>10, <2>11 DEF GraphIInv
<1>3. CASE UNCHANGED graphVars
  BY <1>3 DEF graphVars, GraphIInv, MergeKeepsEverything
<1> QED
  BY <1>1, <1>2, <1>3 DEF GraphNext

\* find_field goes by an index that was built of the same tables.
LEMMA IndexLeadsToFields ==
  ASSUME NEW g, IsGraph(g), NEW t \in DOMAIN g.tables, NEW n
  PROVE  {r \in FindField(g, n) : r.table = t} =
           {[table |-> t, field |-> g.tables[t].fields[i]] :
              i \in {j \in DOMAIN g.tables[t].fields : g.tables[t].fields[j].name = n}}
<1> DEFINE R(e) == [table |-> e.table, field |-> g.tables[e.table].fields[e.at]]
           E == {x \in g.fieldIndex : /\ x.field = n
                                 /\ x.table \in DOMAIN g.tables
                                 /\ x.at \in DOMAIN g.tables[x.table].fields}
           L == {r \in FindField(g, n) : r.table = t}
           I == {j \in DOMAIN g.tables[t].fields : g.tables[t].fields[j].name = n}
           Q == {[table |-> t, field |-> g.tables[t].fields[i]] : i \in I}
<1>1. FindField(g, n) = {R(e) : e \in E}
  BY DEF FindField
<1>2. g.fieldIndex = FieldIndex(g.tables)
  BY DEF IsGraph
<1>3. ASSUME NEW r \in L PROVE r \in Q
  <2>1. PICK e \in E : r = R(e)
    BY <1>1
  <2>a. PICK u \in DOMAIN g.tables :
           e \in {[field |-> g.tables[u].fields[i].name, table |-> u, at |-> i] : i \in DOMAIN g.tables[u].fields}
    BY <1>2 DEF FieldIndex
  <2>2. PICK i \in DOMAIN g.tables[u].fields :
           e = [field |-> g.tables[u].fields[i].name, table |-> u, at |-> i]
    BY <2>a
  <2>3. u = t /\ i \in I /\ r = [table |-> t, field |-> g.tables[t].fields[i]]
    BY <2>1, <2>2
  <2> QED
    BY <2>3
<1>4. ASSUME NEW r \in Q PROVE r \in L
  <2>1. PICK i \in I : r = [table |-> t, field |-> g.tables[t].fields[i]]
    OBVIOUS
  <2> DEFINE e == [field |-> g.tables[t].fields[i].name, table |-> t, at |-> i]
  <2>2. e \in FieldIndex(g.tables)
    BY DEF FieldIndex
  <2>3. e \in E
    BY <1>2, <2>2
  <2>4. R(e) = r /\ r.table = t
    BY <2>1
  <2> QED
    BY <1>1, <2>3, <2>4
<1> QED
  BY <1>3, <1>4

\* The invariant is what the runs check.
LEMMA GraphIsCompleteInside == GraphIInv => GraphIsComplete
  BY IndexLeadsToFields DEF GraphIInv, GraphIsComplete, FieldsAreFound

\* The inductive invariant holds for every list of definitions of every file.
THEOREM GraphInvariance == GraphSpec => []GraphIInv
  BY GraphStarts, GraphGoesOn, PTL DEF GraphSpec

\* In whatever order files are merged, the graph has exactly what they define,
\* and its index leads to every field (merge, scoped, schema_graph.rs).
THEOREM GraphCompleteness == GraphSpec => []GraphIsComplete
  BY GraphInvariance, GraphIsCompleteInside, PTL

\* What is new each way turns the names of one graph into those of the other.
LEMMA ComparisonExplains ==
  ASSUME NEW b, NEW a, NEW part \in {"fields", "indexes", "events"}
  PROVE  NamePairs(a, part) = (NamePairs(b, part) \ NewIn(a, b, part)) \cup NewIn(b, a, part)
<1> DEFINE N(x, t) == NamesIn(x.tables[t][part])
           P(x, t, m) == t \in DOMAIN x.tables /\ m \in N(x, t)
<1>1. \A x : NamePairs(x, part) = UNION {{<<t, m>> : m \in N(x, t)} : t \in DOMAIN x.tables}
  BY DEF NamePairs
<1> DEFINE Gone(x, y) == {{<<t, m>> : m \in N(y, t)} : t \in (DOMAIN y.tables) \ (DOMAIN x.tables)}
           Kept(x, y) == {{<<t, m>> : m \in N(y, t) \ N(x, t)} :
                            t \in (DOMAIN x.tables) \cap (DOMAIN y.tables)}
<1>2. \A x, y : NewIn(x, y, part) = (UNION Gone(x, y)) \cup (UNION Kept(x, y))
  <2> SUFFICES ASSUME NEW x, NEW y PROVE NewIn(x, y, part) = (UNION Gone(x, y)) \cup (UNION Kept(x, y))
    OBVIOUS
  <2> QED
    BY DEF NewIn, NewTables, Common
<1> HIDE DEF N
<1>3. \A x, p : p \in NamePairs(x, part) <=> \E t, m : p = <<t, m>> /\ P(x, t, m)
  BY <1>1
<1>4. ASSUME NEW x, NEW y, NEW p
      PROVE  p \in NewIn(x, y, part) <=> \E t, m : p = <<t, m>> /\ P(y, t, m) /\ ~P(x, t, m)
  <2> DEFINE gone == Gone(x, y)
             kept == Kept(x, y)
  <2>0. p \in NewIn(x, y, part) <=> (\E q \in gone : p \in q) \/ (\E q \in kept : p \in q)
    <3> HIDE DEF Gone, Kept
    <3> QED
      BY <1>2
  <2>1. ASSUME p \in NewIn(x, y, part) PROVE \E t, m : p = <<t, m>> /\ P(y, t, m) /\ ~P(x, t, m)
    <3>1. CASE \E q \in gone : p \in q
      BY <3>1
    <3>2. CASE \E q \in kept : p \in q
      BY <3>2
    <3> QED
      BY <2>0, <2>1, <3>1, <3>2
  <2>2. ASSUME NEW t, NEW m, p = <<t, m>>, P(y, t, m), ~P(x, t, m) PROVE p \in NewIn(x, y, part)
    <3>1. CASE t \in DOMAIN x.tables
      <4>1. t \in (DOMAIN x.tables) \cap (DOMAIN y.tables) /\ m \in N(y, t) \ N(x, t)
        BY <2>2, <3>1
      <4>2. p \in {<<t, k>> : k \in N(y, t) \ N(x, t)} /\ {<<t, k>> : k \in N(y, t) \ N(x, t)} \in kept
        BY <2>2, <4>1
      <4> HIDE DEF kept
      <4> QED
        BY <2>0, <4>2
    <3>2. CASE t \notin DOMAIN x.tables
      <4>1. t \in (DOMAIN y.tables) \ (DOMAIN x.tables) /\ m \in N(y, t)
        BY <2>2, <3>2
      <4>2. p \in {<<t, k>> : k \in N(y, t)} /\ {<<t, k>> : k \in N(y, t)} \in gone
        BY <2>2, <4>1
      <4> HIDE DEF gone
      <4> QED
        BY <2>0, <4>2
    <3> QED
      BY <3>1, <3>2
  <2> QED
    BY <2>1, <2>2
<1> HIDE DEF P
<1>5. ASSUME NEW p
      PROVE p \in NamePairs(a, part) <=> p \in (NamePairs(b, part) \ NewIn(a, b, part)) \cup NewIn(b, a, part)
  <2>1. CASE \E t, m : p = <<t, m>>
    <3>1. PICK t, m : p = <<t, m>>
      BY <2>1
    <3>2. \A u, k : p = <<u, k>> => u = t /\ k = m
      BY <3>1
    <3>3. /\ p \in NamePairs(a, part) <=> P(a, t, m)
          /\ p \in NamePairs(b, part) <=> P(b, t, m)
          /\ p \in NewIn(a, b, part) <=> P(b, t, m) /\ ~P(a, t, m)
          /\ p \in NewIn(b, a, part) <=> P(a, t, m) /\ ~P(b, t, m)
      BY <1>3, <1>4, <3>1, <3>2
    <3> QED
      BY <3>3
  <2>2. CASE ~\E t, m : p = <<t, m>>
    BY <1>3, <1>4, <2>2
  <2> QED
    BY <2>1, <2>2
<1> QED
  BY <1>5

\* The same of the tables that are SCHEMAFULL.
LEMMA TablesExplained ==
  ASSUME NEW b, NEW a, IsGraph(b), IsGraph(a)
  PROVE  FullTables(a) \ NewTables(b, a)
           = Patch(FullTables(b) \ NewTables(a, b),
                   {t \in {u \in Common(b, a) : b.tables[u].full # a.tables[u].full} : ~b.tables[t].full},
                   {t \in {u \in Common(b, a) : b.tables[u].full # a.tables[u].full} : b.tables[t].full})
<1>1. /\ \A t \in DOMAIN a.tables : a.tables[t].full \in BOOLEAN
      /\ \A t \in DOMAIN b.tables : b.tables[t].full \in BOOLEAN
  BY TableIn DEF Table
<1> QED
  BY <1>1 DEF FullTables, NewTables, Patch, Common

\* The same of everything compare_schemas reports.
LEMMA ComparedGraphs ==
  ASSUME NEW b, NEW a, IsGraph(b), IsGraph(a)
  PROVE  Explains(b, a)
<1>1. \A part \in {"fields", "indexes", "events"} :
        NamePairs(a, part) = (NamePairs(b, part) \ NewIn(a, b, part)) \cup NewIn(b, a, part)
  BY ComparisonExplains
<1>2. /\ NamePairs(a, "fields") = Patch(NamePairs(b, "fields"), NewIn(b, a, "fields"), NewIn(a, b, "fields"))
      /\ NamePairs(a, "indexes") = Patch(NamePairs(b, "indexes"), NewIn(b, a, "indexes"), NewIn(a, b, "indexes"))
      /\ NamePairs(a, "events") = Patch(NamePairs(b, "events"), NewIn(b, a, "events"), NewIn(a, b, "events"))
  BY <1>1 DEF Patch
<1>3. DOMAIN a.tables = Patch(DOMAIN b.tables, NewTables(b, a), NewTables(a, b))
  BY DEF Patch, NewTables
<1>4. DOMAIN a.functions = Patch(DOMAIN b.functions, (DOMAIN a.functions) \ (DOMAIN b.functions),
                                 (DOMAIN b.functions) \ (DOMAIN a.functions))
  BY DEF Patch
<1> DEFINE d == Compare(b, a)
<1>5. /\ d.addedTables = NewTables(b, a) /\ d.removedTables = NewTables(a, b)
      /\ d.changedTables = {t \in Common(b, a) : b.tables[t].full # a.tables[t].full}
      /\ d.addedFields = NewIn(b, a, "fields") /\ d.removedFields = NewIn(a, b, "fields")
      /\ d.addedIndexes = NewIn(b, a, "indexes") /\ d.removedIndexes = NewIn(a, b, "indexes")
      /\ d.addedEvents = NewIn(b, a, "events") /\ d.removedEvents = NewIn(a, b, "events")
      /\ d.addedFunctions = (DOMAIN a.functions) \ (DOMAIN b.functions)
      /\ d.removedFunctions = (DOMAIN b.functions) \ (DOMAIN a.functions)
  BY DEF Compare
<1> HIDE DEF d
<1>a. FullTables(a) \ NewTables(b, a)
        = Patch(FullTables(b) \ NewTables(a, b),
                {t \in {u \in Common(b, a) : b.tables[u].full # a.tables[u].full} : ~b.tables[t].full},
                {t \in {u \in Common(b, a) : b.tables[u].full # a.tables[u].full} : b.tables[t].full})
  BY TablesExplained
<1>6. FullTables(a) \ d.addedTables
        = Patch(FullTables(b) \ d.removedTables, {t \in d.changedTables : ~b.tables[t].full},
                {t \in d.changedTables : b.tables[t].full})
  BY <1>5, <1>a, Zenon
<1>7. Explains(b, a) <=>
        /\ DOMAIN a.tables = Patch(DOMAIN b.tables, d.addedTables, d.removedTables)
        /\ DOMAIN a.functions = Patch(DOMAIN b.functions, d.addedFunctions, d.removedFunctions)
        /\ NamePairs(a, "fields") = Patch(NamePairs(b, "fields"), d.addedFields, d.removedFields)
        /\ NamePairs(a, "indexes") = Patch(NamePairs(b, "indexes"), d.addedIndexes, d.removedIndexes)
        /\ NamePairs(a, "events") = Patch(NamePairs(b, "events"), d.addedEvents, d.removedEvents)
        /\ FullTables(a) \ d.addedTables
             = Patch(FullTables(b) \ d.removedTables, {t \in d.changedTables : ~b.tables[t].full},
                     {t \in d.changedTables : b.tables[t].full})
  BY DEF Explains, d
<1> QED
  BY <1>2, <1>3, <1>4, <1>5, <1>6, <1>7

\* Whatever two graphs a step leads from and to, the comparison of them reports
\* every difference in names (compare_schemas, diff.rs).
THEOREM ComparisonIsExact == GraphSpec => CompareIsExact
<1>1. GraphIInv /\ GraphIInv' => (graph' # graph => Explains(graph, graph') /\ Explains(graph', graph))
  BY ComparedGraphs DEF GraphIInv
<1>2. GraphSpec => []GraphIInv
  BY GraphInvariance
<1> QED
  BY <1>1, <1>2, PTL DEF CompareIsExact


-----------------------------------------------------------------------------
\* The files written for editors.

\* The outputs, and a task of the server that writes them.
IsOutput(o) ==
  o = [files |-> o.files, schema |-> o.schema, relations |-> o.relations, diagnostics |-> o.diagnostics]

TaskOf(at, given, listed, content, next, alone) ==
  [at |-> at, given |-> given, listed |-> listed, content |-> content, next |-> next, alone |-> alone]
IsTask(r) ==
  /\ r = TaskOf(r.at, r.given, r.listed, r.content, r.next, r.alone)
  /\ r.at \in {"rest", "list", "read", "check", "write"} /\ r.next \in 1..4 /\ r.alone \in BOOLEAN
  /\ r.at # "write" => r.next = 1
  /\ IsOutput(r.content)

\* Records with some fields replaced.
LEMMA ChangedOutput ==
  ASSUME NEW o, IsOutput(o), NEW q, NEW f, NEW s, NEW r, NEW d
  PROVE  /\ q = [o EXCEPT !["files"] = f, !["schema"] = s, !["relations"] = r]
              => q = [files |-> f, schema |-> s, relations |-> r, diagnostics |-> o.diagnostics]
         /\ q = [o EXCEPT !["diagnostics"] = d]
              => q = [files |-> o.files, schema |-> o.schema, relations |-> o.relations, diagnostics |-> d]
<1> PICK a, b, c, e : o = [files |-> a, schema |-> b, relations |-> c, diagnostics |-> e]
  BY DEF IsOutput
<1>1. q = [o EXCEPT !["files"] = f, !["schema"] = s, !["relations"] = r]
        => q = [files |-> f, schema |-> s, relations |-> r, diagnostics |-> e]
  OBVIOUS
<1>2. q = [o EXCEPT !["diagnostics"] = d]
        => q = [files |-> a, schema |-> b, relations |-> c, diagnostics |-> d]
  OBVIOUS
<1> QED
  BY <1>1, <1>2

\* A task after each of its steps, field by field.
LEMMA TaskListed ==
  ASSUME NEW t, IsTask(t), NEW l, NEW a, NEW q, q = [t EXCEPT !.listed = l, !.at = a]
  PROVE  q = TaskOf(a, t.given, l, t.content, t.next, t.alone)
<1>1. PICK v, w, x, y, z, u : t = [at |-> v, given |-> w, listed |-> x, content |-> y, next |-> z, alone |-> u]
  BY DEF IsTask, TaskOf
<1>2. /\ t.at = v /\ t.given = w /\ t.listed = x /\ t.content = y /\ t.next = z /\ t.alone = u
  BY <1>1
<1>3. q = [at |-> a, given |-> w, listed |-> l, content |-> y, next |-> z, alone |-> u]
  BY <1>1
<1> QED
  BY <1>2, <1>3 DEF TaskOf

\* What it read.
LEMMA TaskContent ==
  ASSUME NEW t, IsTask(t), NEW c, NEW a, NEW q, q = [t EXCEPT !.content = c, !.at = a]
  PROVE  q = TaskOf(a, t.given, t.listed, c, t.next, t.alone)
<1>1. PICK v, w, x, y, z, u : t = [at |-> v, given |-> w, listed |-> x, content |-> y, next |-> z, alone |-> u]
  BY DEF IsTask, TaskOf
<1>2. /\ t.at = v /\ t.given = w /\ t.listed = x /\ t.content = y /\ t.next = z /\ t.alone = u
  BY <1>1
<1>3. q = [at |-> a, given |-> w, listed |-> x, content |-> c, next |-> z, alone |-> u]
  BY <1>1
<1> QED
  BY <1>2, <1>3 DEF TaskOf

\* What it wrote.
LEMMA TaskWritten ==
  ASSUME NEW t, IsTask(t), NEW n, NEW b, NEW q, q = [t EXCEPT !.next = n, !.alone = b]
  PROVE  q = TaskOf(t.at, t.given, t.listed, t.content, n, b)
<1>1. PICK v, w, x, y, z, u : t = [at |-> v, given |-> w, listed |-> x, content |-> y, next |-> z, alone |-> u]
  BY DEF IsTask, TaskOf
<1>2. /\ t.at = v /\ t.given = w /\ t.listed = x /\ t.content = y /\ t.next = z /\ t.alone = u
  BY <1>1
<1>3. q = [at |-> v, given |-> w, listed |-> x, content |-> y, next |-> n, alone |-> b]
  BY <1>1
<1> QED
  BY <1>2, <1>3 DEF TaskOf

\* Another one was at work.
LEMMA TaskDisturbed ==
  ASSUME NEW t, IsTask(t), NEW b, NEW q, q = [t EXCEPT !.alone = b]
  PROVE  q = TaskOf(t.at, t.given, t.listed, t.content, t.next, b)
<1>1. PICK v, w, x, y, z, u : t = [at |-> v, given |-> w, listed |-> x, content |-> y, next |-> z, alone |-> u]
  BY DEF IsTask, TaskOf
<1>2. /\ t.at = v /\ t.given = w /\ t.listed = x /\ t.content = y /\ t.next = z /\ t.alone = u
  BY <1>1
<1>3. q = [at |-> v, given |-> w, listed |-> x, content |-> y, next |-> z, alone |-> b]
  BY <1>1
<1> QED
  BY <1>2, <1>3 DEF TaskOf

\* The fields of a task.
LEMMA TaskFields ==
  ASSUME NEW at \in {"rest", "list", "read", "check", "write"}, NEW given, NEW listed, NEW content,
         NEW next \in 1..4, NEW alone \in BOOLEAN, IsOutput(content), at # "write" => next = 1,
         NEW r, r = TaskOf(at, given, listed, content, next, alone)
  PROVE  /\ IsTask(r) /\ r.at = at /\ r.given = given /\ r.listed = listed /\ r.content = content
         /\ r.next = next /\ r.alone = alone
<1>1. /\ r.at = at /\ r.given = given /\ r.listed = listed /\ r.content = content
      /\ r.next = next /\ r.alone = alone
  BY DEF TaskOf
<1>2. r = TaskOf(r.at, r.given, r.listed, r.content, r.next, r.alone)
  BY <1>1
<1> QED
  BY <1>1, <1>2 DEF IsTask

\* The variables keep their types; nothing is cached before initialized().
ManifestTyped ==
  /\ task = [w \in Writer |-> task[w]] /\ \A w \in Writer : IsTask(task[w])
  /\ IsOutput(output)
  /\ project \in [ProjectFile -> ProjectText \cup {Absent}]
  /\ stage \in {"start", "initialize", "initialized"}
  /\ stage # "initialized" => graphs = Unscanned

\* A task that nothing happened beside holds what was made of the files as they
\* are, and wrote what it is past (write_file_manifest).
LoneTask(w) ==
  task[w].alone /\ AtWork(w) =>
    LET r == task[w] IN
    /\ \A v \in Writer : AtWork(v) => v = w
    /\ r.given = MergedGraph(graphs)
    /\ r.at # "list" => r.listed = FilesIn(project)
    /\ r.at \in {"check", "write"} =>
         /\ r.content.files = FilesIn(project)
         /\ r.content.schema = DefinitionsOf(project, FilesIn(project))
         /\ r.content.relations = RelationsOf(r.given)
    /\ r.at = "write" =>
         /\ r.content.diagnostics = UndefinedTables(project, FilesIn(project), r.given)
         /\ \A i \in 1..3 : i < r.next => output[Outputs[i]] = r.content[Outputs[i]]

\* The inductive invariant of the writers (manifest.rs).
ManifestInv == ManifestTyped /\ \A w \in Writer : LoneTask(w)

\* A task that does nothing.
LEMMA RestingIsTask == IsTask(Resting) /\ IsOutput(NoOutput) /\ Resting.at = "rest"
<1>1. IsOutput(NoOutput)
  BY DEF IsOutput, NoOutput
<1>2. Resting.at = "rest" /\ Resting.next = 1 /\ Resting.content = NoOutput /\ Resting.alone \in BOOLEAN
  BY DEF Resting
<1>3. Resting = TaskOf(Resting.at, Resting.given, Resting.listed, Resting.content, Resting.next,
                       Resting.alone)
  BY DEF Resting, TaskOf
<1> QED
  BY <1>1, <1>2, <1>3 DEF IsTask

\* The schema of an empty cache.
LEMMA NothingMerged == MergedGraph(Unscanned) = NoDefinitions
<1>1. {f \in ProjectFile : Unscanned[f] # Absent} = {}
  BY DEF Unscanned
<1> QED
  BY <1>1 DEF MergedGraph, NoDefinitions

\* Before initialize().
LEMMA ManifestStarts == ManifestInit => ManifestInv
<1> SUFFICES ASSUME ManifestInit PROVE ManifestInv
  OBVIOUS
<1>1. ManifestTyped
  BY RestingIsTask, ManifestAssumption DEF ManifestInit, NothingWritten, ManifestTyped
<1>2. \A w \in Writer : ~AtWork(w)
  BY RestingIsTask DEF ManifestInit, NothingWritten, AtWork
<1> QED
  BY <1>1, <1>2 DEF ManifestInv, LoneTask

\* A task in its new state, r, with everything as it was beside it.
LEMMA OneTaskGoesOn ==
  ASSUME ManifestInv, NEW w \in Writer, AtWork(w), NEW r, IsTask(r),
         task' = [task EXCEPT ![w] = r], IsOutput(output'),
         UNCHANGED <<project, unsaved, graphs, stage, updates>>,
         r.at # "rest" /\ r.alone =>
           /\ task[w].alone
           /\ r.given = task[w].given
           /\ r.at # "list" => r.listed = FilesIn(project)
           /\ r.at \in {"check", "write"} =>
                /\ r.content.files = FilesIn(project)
                /\ r.content.schema = DefinitionsOf(project, FilesIn(project))
                /\ r.content.relations = RelationsOf(r.given)
           /\ r.at = "write" =>
                /\ r.content.diagnostics = UndefinedTables(project, FilesIn(project), r.given)
                /\ \A i \in 1..3 : i < r.next => output'[Outputs[i]] = r.content[Outputs[i]]
  PROVE  ManifestInv'
<1>1. task'[w] = r /\ task' = [v \in Writer |-> task'[v]] /\ \A v \in Writer \ {w} : task'[v] = task[v]
  BY DEF ManifestInv, ManifestTyped
<1>2. ManifestTyped'
  BY <1>1 DEF ManifestInv, ManifestTyped
<1>3. ASSUME NEW v \in Writer \ {w} PROVE LoneTask(v)'
  BY <1>1 DEF ManifestInv, LoneTask, AtWork
<1>4. LoneTask(w)'
  <2> SUFFICES ASSUME r.alone, r.at # "rest"
               PROVE  LoneTask(w)'
    BY <1>1 DEF LoneTask, AtWork
  <2>1. LoneTask(w)
    BY DEF ManifestInv
  <2>2. r.given = MergedGraph(graphs) /\ \A v \in Writer : AtWork(v) => v = w
    BY <2>1 DEF LoneTask
  <2>3. \A v \in Writer : AtWork(v)' => v = w
    BY <1>1, <2>2 DEF AtWork
  <2> QED
    BY <1>1, <2>2, <2>3 DEF LoneTask
<1> QED
  BY <1>2, <1>3, <1>4 DEF ManifestInv

\* The invariant, of one task.
LEMMA TaskParts ==
  ASSUME ManifestInv, NEW w \in Writer
  PROVE  IsTask(task[w]) /\ LoneTask(w)
  BY DEF ManifestInv, ManifestTyped

\* write_file_manifest lists the files.
LEMMA ListFilesKeeps ==
  ASSUME ManifestInv, NEW w \in Writer, ListFiles(w)
  PROVE  ManifestInv'
<1>0. PICK r : r = [task[w] EXCEPT !.listed = FilesIn(project), !.at = "read"]
  OBVIOUS
<1>1. /\ task[w].at = "list" /\ UNCHANGED <<project, unsaved, graphs, stage, output, updates>>
      /\ task' = [task EXCEPT ![w] = r]
  BY <1>0 DEF ListFiles, ManifestInv, ManifestTyped
<1>2. IsTask(r) /\ r.at = "read" /\ r.alone = task[w].alone /\ r.given = task[w].given
        /\ r.listed = FilesIn(project)
  <2>1. IsTask(task[w])
    BY TaskParts
  <2>2. r = TaskOf("read", task[w].given, FilesIn(project), task[w].content, task[w].next, task[w].alone)
    BY <1>0, <2>1, TaskListed
  <2>3. task[w].next \in 1..4 /\ task[w].alone \in BOOLEAN /\ IsOutput(task[w].content) /\ task[w].next = 1
    BY <1>1, <2>1 DEF IsTask
  <2> QED
    BY <2>2, <2>3, TaskFields
<1>3. IsOutput(output') /\ AtWork(w)
  BY <1>1 DEF ManifestInv, ManifestTyped, AtWork
<1> QED
  BY <1>1, <1>2, <1>3, OneTaskGoesOn

\* write_file_manifest reads their definitions.
LEMMA ReadDefinitionsKeeps ==
  ASSUME ManifestInv, NEW w \in Writer, ReadDefinitions(w)
  PROVE  ManifestInv'
<1>c. PICK c : c = [task[w].content EXCEPT !["files"] = task[w].listed,
                                !["schema"] = DefinitionsOf(project, task[w].listed),
                                !["relations"] = RelationsOf(task[w].given)]
  OBVIOUS
<1>r. PICK r : r = [task[w] EXCEPT !.content = c, !.at = "check"]
  OBVIOUS
<1>1. /\ task[w].at = "read" /\ UNCHANGED <<project, unsaved, graphs, stage, output, updates>>
      /\ task' = [task EXCEPT ![w] = r]
  BY <1>c, <1>r DEF ReadDefinitions, ManifestInv, ManifestTyped
<1>a. /\ IsOutput(c) /\ c.files = task[w].listed /\ c.schema = DefinitionsOf(project, task[w].listed)
      /\ c.relations = RelationsOf(task[w].given)
  <2>1. IsOutput(task[w].content)
    BY TaskParts DEF IsTask
  <2>2. c = [files |-> task[w].listed, schema |-> DefinitionsOf(project, task[w].listed),
             relations |-> RelationsOf(task[w].given), diagnostics |-> task[w].content.diagnostics]
    BY <1>c, <2>1, ChangedOutput
  <2> QED
    BY <2>2 DEF IsOutput
<1>2. IsTask(r) /\ r.at = "check" /\ r.alone = task[w].alone /\ r.given = task[w].given
        /\ r.listed = task[w].listed /\ r.content = c
  <2>1. IsTask(task[w])
    BY TaskParts
  <2>2. r = TaskOf("check", task[w].given, task[w].listed, c, task[w].next, task[w].alone)
    BY <1>r, <2>1, TaskContent
  <2>3. task[w].next \in 1..4 /\ task[w].alone \in BOOLEAN /\ task[w].next = 1
    BY <1>1, <2>1 DEF IsTask
  <2> QED
    BY <1>a, <2>2, <2>3, TaskFields
<1>3. IsOutput(output') /\ AtWork(w)
  BY <1>1 DEF ManifestInv, ManifestTyped, AtWork
<1>4. task[w].alone => task[w].listed = FilesIn(project)
  BY <1>1, <1>3, TaskParts DEF LoneTask
<1> QED
  BY <1>1, <1>a, <1>2, <1>3, <1>4, OneTaskGoesOn

\* build_check_results reads them again.
LEMMA CheckFilesKeeps ==
  ASSUME ManifestInv, NEW w \in Writer, CheckFiles(w)
  PROVE  ManifestInv'
<1>c. PICK c : c = [task[w].content EXCEPT
                   !["diagnostics"] = UndefinedTables(project, task[w].listed, task[w].given)]
  OBVIOUS
<1>r. PICK r : r = [task[w] EXCEPT !.content = c, !.at = "write"]
  OBVIOUS
<1>1. /\ task[w].at = "check" /\ UNCHANGED <<project, unsaved, graphs, stage, output, updates>>
      /\ task' = [task EXCEPT ![w] = r]
  BY <1>c, <1>r DEF CheckFiles, ManifestInv, ManifestTyped
<1>a. /\ IsOutput(c) /\ c.files = task[w].content.files /\ c.schema = task[w].content.schema
      /\ c.relations = task[w].content.relations
      /\ c.diagnostics = UndefinedTables(project, task[w].listed, task[w].given)
  <2>1. IsOutput(task[w].content)
    BY TaskParts DEF IsTask
  <2>2. c = [files |-> task[w].content.files, schema |-> task[w].content.schema,
             relations |-> task[w].content.relations,
             diagnostics |-> UndefinedTables(project, task[w].listed, task[w].given)]
    BY <1>c, <2>1, ChangedOutput
  <2> QED
    BY <2>2 DEF IsOutput
<1>2. IsTask(r) /\ r.at = "write" /\ r.alone = task[w].alone /\ r.given = task[w].given
        /\ r.listed = task[w].listed /\ r.content = c /\ r.next = task[w].next
  <2>1. IsTask(task[w])
    BY TaskParts
  <2>2. r = TaskOf("write", task[w].given, task[w].listed, c, task[w].next, task[w].alone)
    BY <1>r, <2>1, TaskContent
  <2>3. task[w].next \in 1..4 /\ task[w].alone \in BOOLEAN
    BY <1>1, <2>1 DEF IsTask
  <2> QED
    BY <1>a, <2>2, <2>3, TaskFields
<1>3. IsOutput(output') /\ AtWork(w)
  BY <1>1 DEF ManifestInv, ManifestTyped, AtWork
<1>4. task[w].alone =>
        /\ task[w].listed = FilesIn(project) /\ task[w].content.files = FilesIn(project)
        /\ task[w].content.schema = DefinitionsOf(project, FilesIn(project))
        /\ task[w].content.relations = RelationsOf(task[w].given)
  BY <1>1, <1>3, TaskParts DEF LoneTask
<1>5. r.next = 1
  BY <1>1, <1>2, TaskParts DEF IsTask
<1>6. \A i \in 1..3 : ~(i < r.next)
  BY <1>5
<1> QED
  BY <1>1, <1>a, <1>2, <1>3, <1>4, <1>6, OneTaskGoesOn

\* One output is written, or is not.
LEMMA WriteOutputKeeps ==
  ASSUME ManifestInv, NEW w \in Writer, WriteOutput(w)
  PROVE  ManifestInv'
<1> DEFINE n == task[w].next
           o == Outputs[n]
           c == task[w].content
           New(fails) == IF n = Len(Outputs) THEN Resting
                         ELSE [task[w] EXCEPT !.next = @ + 1, !.alone = @ /\ ~fails]
<1>0. /\ task[w].at = "write" /\ UNCHANGED <<project, graphs, unsaved, stage, updates>>
      /\ \E fails \in BOOLEAN :
           /\ output' = IF fails THEN output ELSE [output EXCEPT ![o] = c[o]]
           /\ task' = [task EXCEPT ![w] = New(fails)]
  BY DEF WriteOutput
<1>p. PICK fails \in BOOLEAN :
           /\ output' = IF fails THEN output ELSE [output EXCEPT ![o] = c[o]]
           /\ task' = [task EXCEPT ![w] = New(fails)]
  <2> HIDE DEF New
  <2> QED
    BY <1>0
<1>1. /\ Len(Outputs) = 4 /\ Outputs[1] = "files" /\ Outputs[2] = "schema"
      /\ Outputs[3] = "relations" /\ Outputs[4] = "diagnostics"
  BY DEF Outputs
<1>2. n \in 1..4 /\ IsTask(task[w]) /\ LoneTask(w) /\ AtWork(w)
  BY <1>0, TaskParts DEF IsTask, AtWork
<1>o. o \in {"files", "schema", "relations", "diagnostics"}
  BY <1>1, <1>2
<1>3. IsOutput(output') /\ (~fails => output'[o] = c[o])
      /\ \A q \in {"files", "schema", "relations", "diagnostics"} \ {o} : output'[q] = output[q]
  <2>1. IsOutput(output)
    BY DEF ManifestInv, ManifestTyped
  <2> HIDE DEF o, c
  <2> QED
    BY <1>p, <1>o, <2>1 DEF IsOutput
<1>b. PICK b \in BOOLEAN : b = (task[w].alone /\ ~fails)
  OBVIOUS
<1>r. PICK r : r = New(fails)
  OBVIOUS
<1>4. task' = [task EXCEPT ![w] = r]
  <2> HIDE DEF New
  <2> QED
    BY <1>p, <1>r
<1>a. /\ n = 4 => r = Resting
      /\ n # 4 => r = [task[w] EXCEPT !.next = n + 1, !.alone = b]
  BY <1>1, <1>b, <1>r, Zenon
<1> HIDE DEF New
<1>5. CASE n = 4
  BY <1>0, <1>2, <1>3, <1>4, <1>5, <1>a, RestingIsTask, OneTaskGoesOn
<1>6. CASE n # 4
  <2>1. /\ IsTask(r) /\ r.at = "write" /\ r.alone = b /\ r.given = task[w].given
        /\ r.listed = task[w].listed /\ r.content = c /\ r.next = n + 1
    <3>1. n + 1 \in 1..4
      BY <1>2, <1>6
    <3>2. r = [task[w] EXCEPT !.next = n + 1, !.alone = b]
      BY <1>6, <1>a
    <3>3. r = TaskOf("write", task[w].given, task[w].listed, c, n + 1, b)
      <4>1. r = TaskOf(task[w].at, task[w].given, task[w].listed, task[w].content, n + 1, b)
        <5> HIDE DEF n
        <5> QED
          BY <1>2, <3>2, TaskWritten
      <4> QED
        BY <1>0, <4>1
    <3>4. IsOutput(c)
      BY <1>2 DEF IsTask
    <3> HIDE DEF n, c
    <3> QED
      BY <3>1, <3>3, <3>4, TaskFields
  <2>2. ASSUME r.alone
        PROVE  /\ task[w].alone /\ r.listed = FilesIn(project)
               /\ r.content.files = FilesIn(project)
               /\ r.content.schema = DefinitionsOf(project, FilesIn(project))
               /\ r.content.relations = RelationsOf(r.given)
               /\ r.content.diagnostics = UndefinedTables(project, FilesIn(project), r.given)
    BY <1>0, <1>2, <1>b, <2>1, <2>2 DEF LoneTask
  <2>3. ASSUME r.alone, NEW i \in 1..3, i < r.next
        PROVE  output'[Outputs[i]] = r.content[Outputs[i]]
    <3>1. CASE i = n
      BY <1>3, <1>b, <2>1, <2>3, <3>1
    <3>2. CASE i # n
      <4>1. i < n
        BY <1>2, <2>1, <2>3, <3>2
      <4>2. output[Outputs[i]] = c[Outputs[i]]
        BY <1>0, <1>2, <1>b, <2>1, <2>3, <4>1 DEF LoneTask
      <4>3. Outputs[i] \in {"files", "schema", "relations", "diagnostics"} \ {o}
        BY <1>1, <1>2, <4>1
      <4> QED
        BY <1>3, <2>1, <4>2, <4>3
    <3> QED
      BY <3>1, <3>2
  <2> HIDE DEF o, c, n
  <2> QED
    BY <1>0, <1>2, <1>3, <1>4, <2>1, <2>2, <2>3, OneTaskGoesOn
<1> QED
  BY <1>5, <1>6

\* create_dir_all fails.
LEMMA NoDirectoryKeeps ==
  ASSUME ManifestInv, NEW w \in Writer, NoDirectory(w)
  PROVE  ManifestInv'
<1>1. /\ AtWork(w) /\ UNCHANGED <<project, unsaved, graphs, stage, output, updates>>
      /\ task' = [task EXCEPT ![w] = Resting]
  BY DEF NoDirectory, AtWork
<1>2. IsOutput(output')
  BY <1>1 DEF ManifestInv, ManifestTyped
<1> QED
  BY <1>1, <1>2, RestingIsTask, OneTaskGoesOn

\* Something happened beside the tasks.
LEMMA DisturbedIsTyped ==
  ASSUME ManifestInv
  PROVE  /\ Disturbed = [w \in Writer |-> Disturbed[w]]
         /\ \A w \in Writer : /\ IsTask(Disturbed[w]) /\ Disturbed[w].alone = FALSE
                               /\ Disturbed[w].at = task[w].at
<1>1. ASSUME NEW w \in Writer
      PROVE  /\ IsTask(Disturbed[w]) /\ Disturbed[w].alone = FALSE
             /\ Disturbed[w].at = task[w].at
  <2>1. IsTask(task[w])
    BY TaskParts
  <2>a. PICK q : q = Disturbed[w]
    OBVIOUS
  <2>c. PICK no : no = FALSE
    OBVIOUS
  <2>b. q = [task[w] EXCEPT !.alone = no]
    BY <2>a, <2>c DEF Disturbed
  <2>2. q = TaskOf(task[w].at, task[w].given, task[w].listed, task[w].content, task[w].next, no)
    BY <2>1, <2>b, TaskDisturbed
  <2>3. /\ task[w].at \in {"rest", "list", "read", "check", "write"} /\ task[w].next \in 1..4
        /\ IsOutput(task[w].content) /\ (task[w].at # "write" => task[w].next = 1)
    BY <2>1 DEF IsTask
  <2> QED
    <3>1. no \in BOOLEAN
      BY <2>c
    <3>2. IsTask(q) /\ q.alone = no /\ q.at = task[w].at
      BY <3>1, <2>2, <2>3, TaskFields
    <3> QED
      BY <2>a, <2>c, <3>2
<1>2. Disturbed = [w \in Writer |-> Disturbed[w]]
  BY DEF Disturbed
<1> QED
  BY <1>1, <1>2

\* A new task is given the schema of the cache (spawn_blocking).
LEMMA SpawnKeeps ==
  ASSUME ManifestInv, Spawn(MergedGraph(graphs')), UNCHANGED <<project, output>>,
         stage' \in {"start", "initialize", "initialized"}, stage' # "initialized" => graphs' = Unscanned
  PROVE  ManifestInv'
<1> DEFINE given == MergedGraph(graphs')
<1>1. PICK w \in Writer :
        /\ ~AtWork(w)
        /\ task' = [Disturbed EXCEPT ![w] =
             [Resting EXCEPT !.at = "list", !.given = given, !.alone = \A v \in Writer : ~AtWork(v)]]
  BY DEF Spawn
<1> DEFINE alone == \A v \in Writer : ~AtWork(v)
           r == [Resting EXCEPT !.at = "list", !.given = given, !.alone = alone]
<1>2. IsTask(r) /\ r.at = "list" /\ r.given = given /\ (r.alone <=> alone)
  <2> HIDE DEF alone, given
  <2>1. alone \in BOOLEAN
    BY DEF alone
  <2> QED
    <3>1. ASSUME NEW q, q = [Resting EXCEPT !.at = "list", !.given = given, !.alone = alone]
          PROVE  q = TaskOf("list", given, {}, NoOutput, 1, alone)
      BY <3>1 DEF Resting, TaskOf
    <3>2. r = TaskOf("list", given, {}, NoOutput, 1, alone)
      BY <3>1
    <3> HIDE DEF r
    <3> QED
      BY <2>1, <3>2, RestingIsTask, TaskFields
<1> HIDE DEF r
<1>3. /\ task'[w] = r /\ task' = [v \in Writer |-> task'[v]]
      /\ \A v \in Writer \ {w} : task'[v] = Disturbed[v]
  BY <1>1, DisturbedIsTyped DEF r
<1>4. \A v \in Writer : IsTask(task'[v])
  BY <1>2, <1>3, DisturbedIsTyped
<1>5. ManifestTyped'
  BY <1>3, <1>4 DEF ManifestInv, ManifestTyped
<1>6. ASSUME NEW v \in Writer \ {w} PROVE LoneTask(v)'
  <2>1. task'[v].alone = FALSE
    BY <1>3, DisturbedIsTyped
  <2> QED
    BY <2>1 DEF LoneTask
<1>7. LoneTask(w)'
  <2> SUFFICES ASSUME alone PROVE LoneTask(w)'
    BY <1>2, <1>3 DEF LoneTask
  <2>1. \A v \in Writer : AtWork(v)' => v = w
    BY <1>3, DisturbedIsTyped DEF AtWork
  <2>2. task'[w].at = "list" /\ task'[w].given = MergedGraph(graphs')
    BY <1>2, <1>3
  <2> QED
    BY <2>1, <2>2 DEF LoneTask
<1> QED
  BY <1>5, <1>6, <1>7 DEF ManifestInv

\* Every step keeps the invariant.
LEMMA ManifestGoesOn == ManifestInv /\ [ManifestNext]_manifestVars => ManifestInv'
<1> SUFFICES ASSUME ManifestInv, [ManifestNext]_manifestVars PROVE ManifestInv'
  OBVIOUS
<1>1. CASE Initialize
  <2>1. /\ stage' = "initialize" /\ Spawn(NoDefinitions) /\ stage = "start"
        /\ UNCHANGED <<project, unsaved, graphs, output, updates>>
    BY <1>1 DEF Initialize
  <2>2. graphs' = Unscanned
    BY <2>1 DEF ManifestInv, ManifestTyped
  <2>3. MergedGraph(graphs') = NoDefinitions
    BY <2>2, NothingMerged
  <2> QED
    BY <2>1, <2>2, <2>3, SpawnKeeps
<1>2. CASE Initialized
  <2>1. /\ stage' = "initialized" /\ stage = "initialize"
        /\ UNCHANGED <<project, unsaved, output, updates>>
        /\ \/ graphs' = project /\ Spawn(MergedGraph(project))
           \/ Spawn(NoDefinitions) /\ graphs' = graphs
    BY <1>2 DEF Initialized
  <2>2. CASE graphs' = project /\ Spawn(MergedGraph(project))
    <3>1. Spawn(MergedGraph(graphs'))
      BY <2>2
    <3> QED
      BY <2>1, <3>1, SpawnKeeps
  <2>3. CASE Spawn(NoDefinitions) /\ graphs' = graphs
    <3>1. graphs' = Unscanned
      BY <2>1, <2>3 DEF ManifestInv, ManifestTyped
    <3>2. Spawn(MergedGraph(graphs'))
      BY <2>3, <3>1, NothingMerged
    <3> QED
      BY <2>1, <3>2, SpawnKeeps
  <2> QED
    BY <2>1, <2>2, <2>3
<1>3. ASSUME NEW f \in ProjectFile, RebuildFile(f) PROVE ManifestInv'
  <2>1. /\ stage = "initialized" /\ Spawn(MergedGraph(graphs'))
        /\ UNCHANGED <<project, stage, output, updates>>
    BY <1>3 DEF RebuildFile
  <2> QED
    BY <2>1, SpawnKeeps
<1>4. ASSUME NEW f \in ProjectFile, WriteProject(f) PROVE ManifestInv'
  <2>1. PICK text \in ProjectText \cup {Absent} : project' = [project EXCEPT ![f] = text]
    BY <1>4 DEF WriteProject
  <2>2. task' = Disturbed /\ UNCHANGED <<graphs, stage, output>>
    BY <1>4 DEF WriteProject
  <2>3. project' \in [ProjectFile -> ProjectText \cup {Absent}]
    BY <2>1 DEF ManifestInv, ManifestTyped
  <2>4. task' = [w \in Writer |-> task'[w]] /\ \A w \in Writer : IsTask(task'[w])
    BY <2>2, DisturbedIsTyped
  <2>5. ManifestTyped'
    BY <2>2, <2>3, <2>4 DEF ManifestInv, ManifestTyped
  <2>6. \A w \in Writer : task'[w].alone = FALSE
    BY <2>2, DisturbedIsTyped
  <2> QED
    BY <2>5, <2>6 DEF ManifestInv, LoneTask
<1>5. CASE UNCHANGED manifestVars
  BY <1>5 DEF manifestVars, ManifestInv, ManifestTyped, LoneTask, AtWork
<1> QED
  BY <1>1, <1>2, <1>3, <1>4, <1>5, ListFilesKeeps, ReadDefinitionsKeeps, CheckFilesKeeps,
     WriteOutputKeeps, NoDirectoryKeeps DEF ManifestNext

\* The inductive invariant holds for every number of tasks and any files.
THEOREM ManifestInvariance == ManifestSpec => []ManifestInv
  BY ManifestStarts, ManifestGoesOn, PTL DEF ManifestSpec

\* What is derived of one directory, and of the graphs of its files, agrees.
LEMMA DerivedAgree ==
  ASSUME NEW d \in [ProjectFile -> ProjectText \cup {Absent}], NEW out,
         out.files = FilesIn(d), out.schema = DefinitionsOf(d, FilesIn(d)),
         out.relations = RelationsOf(MergedGraph(d)),
         out.diagnostics = UndefinedTables(d, FilesIn(d), MergedGraph(d))
  PROVE  Consistent(out, d)
<1> DEFINE F == FilesIn(d)
           texts == {d[f] : f \in F}
           relations == out["relations"]
           defined == DOMAIN relations
           used == UNION {{f} \X d[f].uses : f \in F}
           schema == MergedGraph(d)
<1>1. F = {f \in ProjectFile : d[f] # Absent} /\ \A f \in F : d[f] \in ProjectText
  BY DEF FilesIn
<1>2. schema.tables = UNION {d[f].tables : f \in F} /\ schema.links = UNION {d[f].links : f \in F}
  BY <1>1 DEF MergedGraph
<1>3. /\ DOMAIN out.schema = {f \in F : d[f].lines # {}}
      /\ \A f \in DOMAIN out.schema : out.schema[f] = d[f].lines
  BY DEF DefinitionsOf
<1>4. defined = schema.tables
  BY DEF RelationsOf
<1>5. (\A text \in texts : text.lines = text.tables) => schema.tables = UNION Range(out.schema)
  BY <1>2, <1>3 DEF Range
<1>a. schema.tables = UNION {text.tables : text \in texts}
  BY <1>2
<1>6. \A t \in schema.tables :
         /\ relations[t].to = {link[2] : link \in {l \in schema.links : l[1] = t}}
         /\ relations[t].from = {link[1] : link \in {l \in schema.links : l[2] = t}}
  BY DEF RelationsOf
<1>7. \A l \in schema.links : l = <<l[1], l[2]>>
  BY <1>1, <1>2, ManifestAssumption
<1> HIDE DEF schema, relations, defined, F
<1>8. ASSUME NEW t \in schema.tables, NEW u \in schema.tables
      PROVE  /\ u \in relations[t].to <=> <<t, u>> \in schema.links
             /\ t \in relations[u].from <=> <<t, u>> \in schema.links
  BY <1>6, <1>7
<1>9. \A t, u : <<t, u>> \in schema.links <=> \E text \in texts : <<t, u>> \in text.links
  BY <1>2
<1>10. \A p : p \in used <=> \E f \in F : \E t : p = <<f, t>> /\ t \in d[f].uses
  OBVIOUS
<1>11. \A p : p \in out.diagnostics <=>
          schema.tables # {} /\ \E f \in F : \E t : p = <<f, t>> /\ t \in d[f].uses \ schema.tables
  <2>1. out.diagnostics =
          IF schema.tables = {} THEN {} ELSE UNION {{f} \X (d[f].uses \ schema.tables) : f \in F}
    BY DEF UndefinedTables, F, schema
  <2> QED
    BY <2>1
<1>12. /\ out["diagnostics"] \subseteq used
       /\ \A use \in used : defined # {} => (use \in out["diagnostics"] <=> use[2] \notin defined)
  BY <1>4, <1>10, <1>11
<1>13. \A f \in DOMAIN out["schema"] : f \in out["files"] /\ d[f].lines = out["schema"][f]
  BY <1>3 DEF F
<1>14. \A t \in defined, u \in defined :
           /\ u \in relations[t].to <=> t \in relations[u].from
           /\ u \in relations[t].to <=> \E text \in texts : <<t, u>> \in text.links
  BY <1>4, <1>8, <1>9
<1> QED
  BY <1>4, <1>5, <1>a, <1>12, <1>13, <1>14 DEF Consistent, F, defined, relations

\* A task that nothing happens beside leaves outputs that agree with the files
\* and with each other, whatever other tasks left before (manifest.rs).
THEOREM LoneManifest == ManifestSpec => AloneManifestIsExact
<1> DEFINE Exact ==
      \A w \in Writer :
       CompletesAlone(w) /\ graphs = project /\ output'["diagnostics"] = task[w].content["diagnostics"]
         => Consistent(output', project)
<1>1. ManifestInv /\ [ManifestNext]_manifestVars => Exact
  <2> SUFFICES ASSUME ManifestInv, [ManifestNext]_manifestVars, NEW w \in Writer,
                      CompletesAlone(w), graphs = project,
                      output'["diagnostics"] = task[w].content["diagnostics"]
               PROVE  Consistent(output', project)
    OBVIOUS
  <2>1. task[w].alone /\ AtWork(w) /\ ~AtWork(w)' /\ task[w].next = 4
    BY DEF CompletesAlone, Outputs
  <2>2. task[w].at = "write" /\ IsTask(task[w]) /\ LoneTask(w)
    <3>1. IsTask(task[w]) /\ LoneTask(w)
      BY TaskParts
    <3>2. task[w].at # "write" => task[w].next = 1
      BY <3>1 DEF IsTask
    <3> QED
      BY <2>1, <3>1, <3>2
  <2>3. /\ task[w].given = MergedGraph(project)
        /\ task[w].content.files = FilesIn(project)
        /\ task[w].content.schema = DefinitionsOf(project, FilesIn(project))
        /\ task[w].content.relations = RelationsOf(MergedGraph(project))
        /\ task[w].content.diagnostics = UndefinedTables(project, FilesIn(project), MergedGraph(project))
    BY <2>1, <2>2 DEF LoneTask
  <2>4. output.files = task[w].content.files /\ output.schema = task[w].content.schema
          /\ output.relations = task[w].content.relations
    <3>1. \A i \in 1..3 : output[Outputs[i]] = task[w].content[Outputs[i]]
      BY <2>1, <2>2 DEF LoneTask
    <3>2. Outputs[1] = "files" /\ Outputs[2] = "schema" /\ Outputs[3] = "relations"
      BY DEF Outputs
    <3> QED
      BY <3>1, <3>2
  <2>5. output'.files = output.files /\ output'.schema = output.schema /\ output'.relations = output.relations
    <3>a. task = [v \in Writer |-> task[v]]
      BY DEF ManifestInv, ManifestTyped
    <3>1. ASSUME NEW v \in Writer, WriteOutput(v) PROVE output' = output \/ output' = [output EXCEPT !["diagnostics"] = task[w].content["diagnostics"]]
      <4>1. v = w
        BY <2>1, <3>1, <3>a DEF WriteOutput, AtWork
      <4>2. Outputs[task[w].next] = "diagnostics"
        BY <2>1 DEF Outputs
      <4>3. PICK fails \in BOOLEAN :
              output' = IF fails THEN output
                        ELSE [output EXCEPT ![Outputs[task[w].next]] = task[w].content[Outputs[task[w].next]]]
        BY <3>1, <4>1 DEF WriteOutput
      <4> QED
        BY <4>2, <4>3
    <3>2. output' = output \/ output' = [output EXCEPT !["diagnostics"] = task[w].content["diagnostics"]]
      BY <3>1 DEF ManifestNext, manifestVars, Initialize, Initialized, RebuildFile, WriteProject,
           ListFiles, ReadDefinitions, CheckFiles, NoDirectory
    <3>3. IsOutput(output)
      BY DEF ManifestInv, ManifestTyped
    <3>4. output' = output \/
          output' = [files |-> output.files, schema |-> output.schema, relations |-> output.relations,
                     diagnostics |-> task[w].content["diagnostics"]]
      BY <3>2, <3>3, ChangedOutput
    <3> QED
      BY <3>4
  <2>6. project \in [ProjectFile -> ProjectText \cup {Absent}]
    BY DEF ManifestInv, ManifestTyped
  <2> QED
    BY <2>3, <2>4, <2>5, <2>6, DerivedAgree
<1>2. ManifestSpec => []ManifestInv
  BY ManifestInvariance
<1>3. ManifestSpec => [][ManifestNext]_manifestVars
  BY DEF ManifestSpec
<1> QED
  BY <1>1, <1>2, <1>3, PTL DEF AloneManifestIsExact


\* What is derived from the schema and shown to the user is exact: the
\* comparison of two schemas and the files written for editors (diff.rs,
\* manifest.rs).
THEOREM DerivedExactly == GraphSpec /\ ManifestSpec => DerivedIsExact
  BY ComparisonIsExact, LoneManifest DEF DerivedIsExact

-----------------------------------------------------------------------------
(* The traversals of the record links.                                    *)

\* The links of a table have an order: the place of a link is the number of
\* links before it, and an injection between finite sets of one size is onto.
LEMMA AnOrderExists ==
  ASSUME NEW L \in SUBSET (Int \X Int), IsFiniteSet(L)
  PROVE  \E s \in [1..Cardinality(L) -> L] : \A i, j \in DOMAIN s : i < j => Before(s[i], s[j])
<1> DEFINE n == Cardinality(L)
           Below(x) == {y \in L : Before(y, x)}
           rank == [x \in L |-> Cardinality(Below(x)) + 1]
<1>1. n \in Nat /\ IsFiniteSet(1..n) /\ Cardinality(1..n) = n
  <2>1. n \in Nat
    BY FS_CardinalityType
  <2> HIDE DEF n
  <2> QED
    BY <2>1, FS_Interval
<1>2. ASSUME NEW x \in L, NEW y \in L
      PROVE  /\ ~Before(x, x) /\ (x # y => Before(x, y) \/ Before(y, x))
             /\ \A z \in L : Before(z, x) /\ Before(x, y) => Before(z, y)
  <2>1. \A v \in L : v[1] \in Int /\ v[2] \in Int /\ v = <<v[1], v[2]>>
    OBVIOUS
  <2> QED
    BY <2>1 DEF Before
<1>3. ASSUME NEW x \in L
      PROVE  IsFiniteSet(Below(x)) /\ Cardinality(Below(x)) \in Nat /\ Cardinality(Below(x)) + 1 \in 1..n
  <2>1. Below(x) \in SUBSET L /\ Below(x) # L
    BY <1>2
  <2>2. IsFiniteSet(Below(x)) /\ Cardinality(Below(x)) <= n /\ Cardinality(Below(x)) # n
    <3> HIDE DEF Below
    <3> QED
      BY <2>1, FS_Subset
  <2>3. Cardinality(Below(x)) \in Nat
    BY <2>2, FS_CardinalityType
  <2> HIDE DEF Below, n
  <2> QED
    BY <1>1, <2>2, <2>3
<1>4. ASSUME NEW x \in L, NEW y \in L, Before(x, y) PROVE rank[x] < rank[y]
  <2>1. Below(x) \in SUBSET Below(y) /\ Below(x) # Below(y)
    BY <1>2, <1>4
  <2>2. IsFiniteSet(Below(y)) /\ Cardinality(Below(y)) \in Nat /\ Cardinality(Below(x)) \in Nat
    BY <1>3
  <2>3. Cardinality(Below(x)) <= Cardinality(Below(y)) /\ Cardinality(Below(x)) # Cardinality(Below(y))
    <3> HIDE DEF Below
    <3> QED
      BY <2>1, <2>2, FS_Subset
  <2> HIDE DEF Below
  <2> QED
    BY <2>2, <2>3
<1>5. rank \in [L -> 1..n] /\ \A x \in L : rank[x] \in 1..n /\ rank[x] \in Nat
  <2> HIDE DEF Below, n
  <2> QED
    BY <1>1, <1>3
<1> HIDE DEF rank
<1>6. ASSUME NEW x \in L, NEW y \in L, rank[x] = rank[y] PROVE x = y
  <2>1. ~(rank[x] < rank[y]) /\ ~(rank[y] < rank[x])
    BY <1>5, <1>6
  <2> QED
    BY <1>2, <1>4, <2>1
<1>7. rank \in Injection(L, 1..n)
  <2> HIDE DEF n
  <2> QED
    BY <1>5, <1>6 DEF Injection, IsInjective
<1>8. rank \in Surjection(L, 1..n)
  <2>1. IsFiniteSet(1..n) /\ Cardinality(L) = Cardinality(1..n)
    BY <1>1
  <2> QED
    BY <1>7, <2>1, FS_Injection
<1>9. \A i \in 1..n : \E x \in L : rank[x] = i
  BY <1>8 DEF Surjection
<1> DEFINE s == [i \in 1..n |-> CHOOSE x \in L : rank[x] = i]
<1>10. \A i \in 1..n : s[i] \in L /\ rank[s[i]] = i
  BY <1>9
<1>11. s \in [1..n -> L] /\ DOMAIN s = 1..n
  BY <1>10
<1> HIDE DEF s
<1>12. ASSUME NEW i \in 1..n, NEW j \in 1..n, i < j PROVE Before(s[i], s[j])
  <2>1. s[i] \in L /\ s[j] \in L /\ rank[s[i]] = i /\ rank[s[j]] = j
    BY <1>10
  <2>2. s[i] # s[j] /\ ~(rank[s[j]] < rank[s[i]])
    BY <1>12, <2>1
  <2> QED
    BY <1>2, <1>4, <2>1, <2>2
<1> QED
  BY <1>11, <1>12

\* All links of a table are followed, in order.
LEMMA InOrderIsOrder ==
  ASSUME NEW L \in SUBSET (Int \X Int), IsFiniteSet(L)
  PROVE  /\ InOrder(L) \in Seq(L) /\ Range(InOrder(L)) = L
         /\ \A i, j \in DOMAIN InOrder(L) : InOrder(L)[i] = InOrder(L)[j] => i = j
<1> DEFINE n == Cardinality(L)
           s == InOrder(L)
<1>1. n \in Nat /\ IsFiniteSet(1..n) /\ Cardinality(1..n) = n
  <2>1. n \in Nat
    BY FS_CardinalityType
  <2> HIDE DEF n
  <2> QED
    BY <2>1, FS_Interval
<1>2. s \in [1..n -> L] /\ \A i, j \in DOMAIN s : i < j => Before(s[i], s[j])
  BY AnOrderExists DEF InOrder
<1> HIDE DEF s, n
<1>3. DOMAIN s = 1..n
  BY <1>2
<1>4. ASSUME NEW i \in 1..n, NEW j \in 1..n, s[i] = s[j] PROVE i = j
  <2>1. \A x \in L : ~Before(x, x)
    <3>1. \A v \in L : v[1] \in Int /\ v[2] \in Int
      OBVIOUS
    <3> QED
      BY <3>1 DEF Before
  <2>2. ~(i < j) /\ ~(j < i)
    BY <1>2, <1>3, <1>4, <2>1
  <2> QED
    BY <2>2
<1>5. s \in Injection(1..n, L)
  BY <1>2, <1>3, <1>4 DEF Injection, IsInjective
<1>6. s \in Surjection(1..n, L)
  BY <1>1, <1>5, FS_Injection DEF n
<1>7. s \in Seq(L)
  BY <1>1, <1>2
<1>8. Range(s) = L
  BY <1>3, <1>6 DEF Surjection, Range
<1> QED
  BY <1>3, <1>4, <1>7, <1>8 DEF s

-----------------------------------------------------------------------------
\* Levels: the tables within n hops.

\* The schema and the question, as the search is given them.
Asked ==
  /\ links = [t \in Defined |-> links[t]] /\ Defined \subseteq LinkedTable
  /\ \A t \in Defined : links[t] \in LinkSets
  /\ start \in LinkedTable /\ maxDepth \in Nat

\* What the links of a table are.
LEMMA LinksAreLinks ==
  ASSUME Asked, NEW t \in Defined
  PROVE  /\ links[t] \in SUBSET (Int \X LinkedTable) /\ links[t] \in SUBSET (Int \X Int)
         /\ IsFiniteSet(links[t]) /\ t \in LinkedTable /\ t \in Int
         /\ \A l \in links[t] : l = <<l[1], l[2]>> /\ l[1] \in Int /\ l[2] \in LinkedTable
<1>1. links[t] \in SUBSET (Int \X LinkedTable) /\ IsFiniteSet(links[t]) /\ LinkedTable \in SUBSET Int
  BY LinksAssumption DEF Asked
<1> QED
  BY <1>1 DEF Asked

\* The tables one hop from S.
Onward(S) == S \cup UNION {{l[2] : l \in links[t]} : t \in S \cap Defined}

\* The recursive definition of Within.
LEMMA WithinUnfolds ==
  ASSUME Asked
  PROVE  /\ Within \in [Nat -> SUBSET LinkedTable] /\ Within[0] = {start}
         /\ \A n \in Nat : Within[n + 1] = Onward(Within[n])
<1> DEFINE A == SUBSET LinkedTable
           step == [S \in A |-> Onward(S)]
           Unfolds(B) == B = [n \in Nat |-> IF n = 0 THEN {start} ELSE Onward(B[n - 1])]
           it == CHOOSE B : Unfolds(B)
<1>1. \A S \in A : Onward(S) \in A
  BY LinksAreLinks DEF Onward
<1>2. step \in [A -> A] /\ {start} \in A
  BY <1>1 DEF Asked
<1>3. PICK g \in [Nat -> A] : g[0] = {start} /\ \A n \in Nat : g[n + 1] = step[g[n]]
  <2> HIDE DEF A, step
  <2> QED
    BY <1>2, IterationExists
<1>4. \A n \in Nat : g[n + 1] = Onward(g[n])
  BY <1>3
<1>5. Unfolds(g)
  <2>1. \A n \in Nat : n # 0 => n - 1 \in Nat /\ (n - 1) + 1 = n
    OBVIOUS
  <2>2. \A n \in Nat : n # 0 => g[n] = Onward(g[n - 1])
    BY <1>4, <2>1
  <2>3. g = [n \in Nat |-> g[n]]
    BY <1>3
  <2> QED
    BY <1>3, <2>2, <2>3
<1>6. Within = it
  BY DEF Within, Onward
<1>7. Unfolds(it)
  <2> HIDE DEF Unfolds
  <2> QED
    BY <1>5
<1> HIDE DEF it
<1>8. it[0] = {start} /\ \A n \in Nat : it[n + 1] = Onward(it[n])
  <2>1. \A n \in Nat : n + 1 \in Nat /\ n + 1 # 0 /\ (n + 1) - 1 = n
    OBVIOUS
  <2> QED
    BY <1>7, <2>1
<1>9. \A n \in Nat : it[n] \in A
  <2> DEFINE Good == {n \in Nat : it[n] \in A}
  <2>1. 0 \in Good /\ \A n \in Nat : n \in Good => n + 1 \in Good
    BY <1>1, <1>2, <1>8
  <2> HIDE DEF Good
  <2>2. Nat \subseteq Good
    BY <2>1, EveryNatural
  <2> QED
    BY <2>2 DEF Good
<1>10. it \in [Nat -> A]
  <2>1. it = [n \in Nat |-> it[n]]
    BY <1>7
  <2> QED
    BY <1>9, <2>1
<1> QED
  BY <1>6, <1>8, <1>10

\* More hops lead to more tables.
LEMMA WithinGrows ==
  ASSUME Asked, NEW m \in Nat, NEW n \in Nat, m <= n
  PROVE  Within[m] \subseteq Within[n]
<1> DEFINE Good == {k \in Nat : Within[m] \subseteq Within[m + k]}
<1>1. 0 \in Good
  OBVIOUS
<1>2. ASSUME NEW k \in Nat, k \in Good PROVE k + 1 \in Good
  <2>1. m + (k + 1) = (m + k) + 1 /\ m + k \in Nat
    OBVIOUS
  <2>2. Within[m + k] \subseteq Within[(m + k) + 1]
    BY <2>1, WithinUnfolds DEF Onward
  <2> QED
    BY <1>2, <2>1, <2>2
<1> HIDE DEF Good
<1>3. n - m \in Good
  BY <1>1, <1>2, EveryNatural
<1>4. m + (n - m) = n
  OBVIOUS
<1> QED
  BY <1>3, <1>4 DEF Good

\* A table and its distance.
IsAt(t, d) == t \in Within[d] /\ \A m \in 0..d - 1 : t \notin Within[m]

\* A table has one distance.
LEMMA OneDistance ==
  ASSUME Asked, NEW t, NEW m \in Nat, NEW n \in Nat, IsAt(t, m), IsAt(t, n)
  PROVE  m = n
<1>1. ~(m < n) /\ ~(n < m)
  BY DEF IsAt
<1> QED
  BY <1>1

\* A table on a level and not on the one before is at that distance.
LEMMA NewOnLevel ==
  ASSUME Asked, NEW t, NEW n \in Nat \ {0}
  PROVE  IsAt(t, n) <=> t \in Within[n] /\ t \notin Within[n - 1]
<1>1. n - 1 \in Nat /\ n - 1 < n
  OBVIOUS
<1>2. \A m \in Nat : m < n => Within[m] \subseteq Within[n - 1]
  <2>1. \A m \in Nat : m < n => m <= n - 1
    OBVIOUS
  <2> QED
    BY <1>1, <2>1, WithinGrows
<1> QED
  BY <1>1, <1>2 DEF IsAt

\* A link from a table at distance d to one that is not within d hops.
LEMMA NextLevel ==
  ASSUME Asked, NEW d \in Nat, NEW t \in Defined, t \in Within[d], NEW l \in links[t],
         l[2] \notin Within[d]
  PROVE  IsAt(l[2], d + 1)
<1>1. l[2] \in Within[d + 1]
  BY WithinUnfolds DEF Onward
<1>2. d + 1 \in Nat \ {0} /\ (d + 1) - 1 = d
  OBVIOUS
<1> QED
  BY <1>1, <1>2, NewOnLevel

-----------------------------------------------------------------------------
\* One iteration of the search.

Hop == [table : LinkedTable, depth : Nat, path : Seq(LinkedTable \X Int)]
NextHop(node, link) ==
  [table |-> link[2], depth |-> node.depth + 1,
   path |-> Append(node.path, <<node.table, link[1]>>)]

\* What following the links L from a node collects, when V was visited.
Collects(node, V, L, seen) ==
  /\ seen = [visited |-> seen.visited, new |-> seen.new]
  /\ seen.visited = V \cup {l[2] : l \in L}
  /\ seen.new \in Seq(Hop)
  /\ \A i \in DOMAIN seen.new : \E l \in L : l[2] \notin V /\ seen.new[i] = NextHop(node, l)
  /\ \A i, j \in DOMAIN seen.new : seen.new[i].table = seen.new[j].table => i = j
  /\ \A u \in seen.visited : u \in V \/ \E i \in DOMAIN seen.new : seen.new[i].table = u

\* The next hop is one.
LEMMA NextHopIsHop ==
  ASSUME NEW node \in Hop, NEW l \in Int \X LinkedTable
  PROVE  NextHop(node, l) \in Hop /\ NextHop(node, l).table = l[2]
<1>1. /\ node.table \in LinkedTable /\ node.depth \in Nat /\ node.path \in Seq(LinkedTable \X Int)
      /\ l[1] \in Int /\ l[2] \in LinkedTable
  BY DEF Hop
<1>2. node.depth + 1 \in Nat /\ Append(node.path, <<node.table, l[1]>>) \in Seq(LinkedTable \X Int)
  BY <1>1
<1> QED
  BY <1>1, <1>2 DEF NextHop, Hop

\* One link more.
LEMMA FollowCollects ==
  ASSUME NEW node \in Hop, NEW V, NEW L, NEW l \in Int \X LinkedTable, NEW acc, Collects(node, V, L, acc)
  PROVE  Collects(node, V, L \cup {l}, Follow(node, acc, l))
<1> DEFINE after == Follow(node, acc, l)
           h == NextHop(node, l)
           n == Len(acc.new)
<1>1. h \in Hop /\ h.table = l[2]
  BY NextHopIsHop
<1>2. {k[2] : k \in L \cup {l}} = {k[2] : k \in L} \cup {l[2]}
  OBVIOUS
<1>3. CASE l[2] \in acc.visited
  <2>1. after = acc
    BY <1>3 DEF Follow
  <2>2. V \cup {k[2] : k \in L \cup {l}} = acc.visited
    BY <1>2, <1>3 DEF Collects
  <2>3. /\ acc = [visited |-> acc.visited, new |-> acc.new] /\ acc.new \in Seq(Hop)
        /\ \A i \in DOMAIN acc.new : \E k \in L \cup {l} : k[2] \notin V /\ acc.new[i] = NextHop(node, k)
        /\ \A i, j \in DOMAIN acc.new : acc.new[i].table = acc.new[j].table => i = j
        /\ \A u \in acc.visited : u \in V \/ \E i \in DOMAIN acc.new : acc.new[i].table = u
    BY DEF Collects
  <2> QED
    BY <2>1, <2>2, <2>3 DEF Collects
<1>4. CASE l[2] \notin acc.visited
  <2>1. after = [visited |-> acc.visited \cup {l[2]}, new |-> Append(acc.new, h)]
    BY <1>4 DEF Follow, NextHop
  <2>2. after.visited = acc.visited \cup {l[2]} /\ after.new = Append(acc.new, h)
    BY <2>1
  <2>3. acc.new \in Seq(Hop) /\ acc.visited = V \cup {k[2] : k \in L}
    BY DEF Collects
  <2>4. /\ after.new \in Seq(Hop) /\ n \in Nat /\ DOMAIN acc.new = 1..n
        /\ DOMAIN after.new = 1..(n + 1) /\ after.new[n + 1] = h
        /\ \A i \in 1..n : after.new[i] = acc.new[i] /\ i \in 1..(n + 1)
        /\ \A i \in 1..(n + 1) : i = n + 1 \/ i \in 1..n
    BY <1>1, <2>2, <2>3
  <2>5. after.visited = V \cup {k[2] : k \in L \cup {l}}
    BY <1>2, <2>2, <2>3
  <2>6. \A i \in 1..n : \E k \in L : k[2] \notin V /\ acc.new[i] = NextHop(node, k)
    BY <2>4 DEF Collects
  <2>7. l[2] \notin V
    BY <1>4, <2>3
  <2>8. ASSUME NEW i \in 1..(n + 1)
        PROVE  \E k \in L \cup {l} : k[2] \notin V /\ after.new[i] = NextHop(node, k)
    BY <2>4, <2>6, <2>7
  <2>9. \A i \in 1..n : acc.new[i].table # l[2]
    <3>1. ASSUME NEW i \in 1..n PROVE acc.new[i].table \in acc.visited
      <4>1. PICK k \in L : acc.new[i] = NextHop(node, k)
        BY <2>6
      <4>2. acc.new[i].table = k[2]
        BY <4>1 DEF NextHop
      <4> QED
        BY <2>3, <4>2
    <3> QED
      BY <1>4, <3>1
  <2>10. ASSUME NEW i \in 1..(n + 1), NEW j \in 1..(n + 1), after.new[i].table = after.new[j].table
         PROVE  i = j
    <3>1. \A a, b \in 1..n : acc.new[a].table = acc.new[b].table => a = b
      BY <2>4 DEF Collects
    <3> HIDE DEF h, n, after
    <3> QED
      BY <1>1, <2>4, <2>9, <2>10, <3>1
  <2>11. ASSUME NEW u \in after.visited
         PROVE  u \in V \/ \E i \in 1..(n + 1) : after.new[i].table = u
    <3>1. \A v \in acc.visited : v \in V \/ \E i \in 1..n : acc.new[i].table = v
      BY <2>4 DEF Collects
    <3>2. n + 1 \in 1..(n + 1)
      BY <2>4
    <3> HIDE DEF h, n, after
    <3> QED
      BY <1>1, <2>2, <2>4, <3>1, <3>2
  <2>12. after = [visited |-> after.visited, new |-> after.new]
    BY <2>1
  <2> HIDE DEF after, h, n
  <2>13. Collects(node, V, L \cup {l}, after)
    BY <2>4, <2>5, <2>8, <2>10, <2>11, <2>12 DEF Collects
  <2> QED
    BY <2>13 DEF after
<1> QED
  BY <1>3, <1>4

\* All links of a node, by induction over their list (FoldInduction).
LEMMA VisitCollects ==
  ASSUME NEW node \in Hop, NEW V, NEW seq \in Seq(Int \X LinkedTable)
  PROVE  Collects(node, V, Range(seq),
           FoldLeft(LAMBDA acc, l : Follow(node, acc, l), [visited |-> V, new |-> <<>>], seq))
<1> DEFINE n == Len(seq)
           first == [visited |-> V, new |-> <<>>]
           fold == FoldLeft(LAMBDA acc, l : Follow(node, acc, l), first, seq)
           B == [visited : SUBSET (V \cup LinkedTable), new : Seq(Hop)]
           step == [p \in (1..n) \X B |-> Follow(node, p[2], seq[p[1]])]
           Next1(s, r) == Follow(node, r, seq[Max(s)])
           Unfolds(g) == g = [s \in SUBSET (DOMAIN seq) |-> IF s = {} THEN first ELSE Next1(s, g[s \ {Max(s)}])]
           it == CHOOSE g : Unfolds(g)
<1>1. n \in Nat /\ DOMAIN seq = 1..n /\ \A i \in 1..n : seq[i] \in Int \X LinkedTable
  OBVIOUS
<1>0. fold = it[DOMAIN seq]
  BY DEF FoldLeft, MapThenFoldSet
<1>2. step \in [(1..n) \X B -> B]
  <2>1. ASSUME NEW acc \in B, NEW l \in Int \X LinkedTable PROVE Follow(node, acc, l) \in B
    <3>1. acc.visited \in SUBSET (V \cup LinkedTable) /\ acc.new \in Seq(Hop) /\ l[2] \in LinkedTable
      OBVIOUS
    <3>2. NextHop(node, l) \in Hop
      BY NextHopIsHop
    <3>3. Append(acc.new, NextHop(node, l)) \in Seq(Hop) /\ acc.visited \cup {l[2]} \in SUBSET (V \cup LinkedTable)
      BY <3>1, <3>2
    <3>4. [visited |-> acc.visited \cup {l[2]}, new |-> Append(acc.new, NextHop(node, l))] \in B
      BY <3>3
    <3> HIDE DEF B
    <3> QED
      BY <3>4 DEF Follow, NextHop
  <2> HIDE DEF B, n
  <2> QED
    BY <1>1, <2>1
<1>b. first \in B
  OBVIOUS
<1> HIDE DEF n
<1>3. PICK g : IsFold(g, n, B, first, step)
  <2> HIDE DEF step, B, first
  <2> QED
    BY <1>1, <1>2, <1>b, FoldExists, Zenon
<1>4. \A s \in SUBSET (1..n) : s # {} => Max(s) \in 1..n /\ s \ {Max(s)} \in SUBSET (1..n)
  BY <1>1, LastPosition
<1>5. \A s \in SUBSET (1..n) : s # {} => g[s] = Next1(s, g[s \ {Max(s)}])
  <2> HIDE DEF B, first
  <2> QED
    BY <1>3, <1>4 DEF IsFold
<1>6. Unfolds(g)
  <2>1. g = [s \in SUBSET (1..n) |-> g[s]]
    BY <1>3 DEF IsFold
  <2> HIDE DEF Next1, first
  <2> QED
    BY <1>1, <1>3, <1>5, <2>1 DEF IsFold
<1>7. Unfolds(it)
  <2> HIDE DEF Unfolds
  <2> QED
    BY <1>6
<1> HIDE DEF it
<1>a. it[{}] = first /\ \A s \in SUBSET (1..n) : s # {} => it[s] = Next1(s, it[s \ {Max(s)}])
  <2> HIDE DEF Next1, first
  <2> QED
    BY <1>1, <1>7
<1> HIDE DEF Unfolds
<1> DEFINE Kept(s) == {r \in B : Collects(node, V, {seq[i] : i \in s}, r)}
           J == [s \in SUBSET (1..n) |-> Kept(s)]
<1>8. Collects(node, V, {}, first)
  BY DEF Collects
<1>9. it[{}] \in J[{}]
  <2>1. {seq[i] : i \in {}} = {}
    OBVIOUS
  <2>2. first \in Kept({})
    <3> HIDE DEF first, B
    <3> QED
      BY <1>8, <1>b, <2>1
  <2>3. J[{}] = Kept({})
    OBVIOUS
  <2> HIDE DEF J, Kept, first
  <2> QED
    BY <1>a, <2>2, <2>3
<1>10. ASSUME NEW s \in SUBSET (1..n), s # {}, it[s \ {Max(s)}] \in J[s \ {Max(s)}]
       PROVE  it[s] \in J[s]
  <2>1. PICK m : m = Max(s)
    OBVIOUS
  <2>2. m \in 1..n /\ m \in s /\ s \ {m} \in SUBSET (1..n)
    BY <1>1, <1>10, <2>1, LastPosition
  <2>3. PICK r : r = it[s \ {m}]
    OBVIOUS
  <2>4. r \in B /\ Collects(node, V, {seq[i] : i \in s \ {m}}, r)
    BY <1>10, <2>1, <2>2, <2>3
  <2>5. it[s] = Follow(node, r, seq[m])
    BY <1>a, <1>10, <2>1, <2>3
  <2>6. {seq[i] : i \in s} = {seq[i] : i \in s \ {m}} \cup {seq[m]}
    BY <2>2
  <2>7. seq[m] \in Int \X LinkedTable
    BY <1>1, <2>2
  <2>8. Collects(node, V, {seq[i] : i \in s}, it[s])
    <3>1. PICK T : T = {seq[i] : i \in s \ {m}}
      OBVIOUS
    <3>2. PICK l : l = seq[m]
      OBVIOUS
    <3>3. Collects(node, V, T, r) /\ l \in Int \X LinkedTable
      BY <2>4, <2>7, <3>1, <3>2
    <3>4. Collects(node, V, T \cup {l}, Follow(node, r, l))
      BY <3>3, FollowCollects
    <3> QED
      BY <2>5, <2>6, <3>1, <3>2, <3>4
  <2>9. it[s] \in B
    <3>1. <<m, r>> \in (1..n) \X B /\ step[<<m, r>>] = it[s]
      <4> HIDE DEF B
      <4> QED
        BY <2>2, <2>4, <2>5
    <3> HIDE DEF B, step
    <3> QED
      BY <1>2, <3>1
  <2> HIDE DEF B
  <2> QED
    BY <2>8, <2>9
<1>11. \A s \in SUBSET (1..n) : it[s] \in J[s]
  <2> HIDE DEF J
  <2> QED
    BY <1>1, <1>9, <1>10, FoldInduction
<1>12. Collects(node, V, {seq[i] : i \in 1..n}, it[1..n])
  BY <1>11
<1>13. {seq[i] : i \in 1..n} = Range(seq)
  BY <1>1 DEF Range
<1> HIDE DEF fold
<1>14. Collects(node, V, Range(seq), fold)
  BY <1>0, <1>1, <1>12, <1>13
<1> QED
  BY <1>14 DEF fold, first

-----------------------------------------------------------------------------
\* The inductive invariant of the search.

\* A hop to a table leads to it, and is no longer than the way must be.
IsHop(h) ==
  /\ h \in Hop /\ h.depth <= maxDepth /\ start \in Defined
  /\ IsAt(h.table, h.depth) /\ Len(h.path) = h.depth
  /\ h.depth > 0 => LeadsTo(h.path, h.table)

\* The links of a table were followed, or it is too far away.
WasFollowed(t) ==
  \/ \A n \in 0..maxDepth - 1 : t \notin Within[n]
  \/ \A l \in links[t] : l[2] \in visited

LinksIInv ==
  /\ Asked /\ visited \subseteq LinkedTable
  /\ frontier \in Seq(Hop)
  /\ \A i \in DOMAIN frontier : IsHop(frontier[i]) /\ frontier[i].table \in visited
  /\ \A i, j \in DOMAIN frontier :
       /\ i < j => frontier[i].depth <= frontier[j].depth
       /\ frontier[j].depth <= frontier[1].depth + 1
  /\ \A r \in found : IsHop(r) /\ r.depth >= 1
  /\ visited = {start} \cup {r.table : r \in found}
  /\ \A r, s \in found : r.table = s.table => r = s
  /\ \A t \in visited \cap Defined :
       (\E i \in DOMAIN frontier : frontier[i].table = t) \/ WasFollowed(t)

\* While nothing nearer than N hops is in the queue, all that is within N hops
\* was seen.
LEMMA NearIsVisited ==
  ASSUME LinksIInv, NEW N \in Nat, N <= maxDepth, \A i \in DOMAIN frontier : frontier[i].depth >= N
  PROVE  Within[N] \subseteq visited
<1> DEFINE Good == {n \in Nat : n <= N => Within[n] \subseteq visited}
<1>0. Asked /\ maxDepth \in Nat
  BY DEF LinksIInv, Asked
<1>1. 0 \in Good
  BY <1>0, WithinUnfolds DEF LinksIInv
<1>2. ASSUME NEW n \in Nat, n \in Good PROVE n + 1 \in Good
  <2> SUFFICES ASSUME n + 1 <= N PROVE Within[n + 1] \subseteq visited
    OBVIOUS
  <2>1. Within[n] \subseteq visited /\ n < N /\ n \in 0..maxDepth - 1
    BY <1>0, <1>2
  <2>2. ASSUME NEW t \in Within[n] \cap Defined, NEW l \in links[t] PROVE l[2] \in visited
    <3>1. ASSUME NEW i \in DOMAIN frontier PROVE frontier[i].table # t
      <4>1. frontier[i].depth \in Nat /\ frontier[i].depth >= N /\ IsAt(frontier[i].table, frontier[i].depth)
        BY DEF LinksIInv, IsHop, Hop
      <4>2. n \in 0..frontier[i].depth - 1
        BY <2>1, <4>1
      <4> QED
        BY <2>2, <4>1, <4>2 DEF IsAt
    <3>2. WasFollowed(t)
      BY <2>1, <2>2, <3>1 DEF LinksIInv
    <3> QED
      BY <2>1, <2>2, <3>2 DEF WasFollowed
  <2>3. Within[n + 1] = Onward(Within[n])
    BY <1>0, WithinUnfolds
  <2> QED
    BY <2>1, <2>2, <2>3 DEF Onward
<1> HIDE DEF Good
<1>3. N \in Good
  BY <1>1, <1>2, EveryNatural
<1> QED
  BY <1>3 DEF Good

\* At first.
LEMMA LinksStart == LinksInit => LinksIInv
<1> SUFFICES ASSUME LinksInit PROVE LinksIInv
  OBVIOUS
<1> DEFINE root == [table |-> start, depth |-> 0, path |-> <<>>]
<1>1. Asked
  <2>1. PICK T \in SUBSET LinkedTable : links \in [T -> LinkSets]
    BY DEF LinksInit
  <2>2. maxDepth \in Nat /\ start \in LinkedTable
    BY LinksAssumption DEF LinksInit
  <2> QED
    BY <2>1, <2>2 DEF Asked, Defined
<1>2. Within[0] = {start}
  BY <1>1, WithinUnfolds
<1>3. root \in Hop /\ root.depth = 0 /\ root.path = <<>> /\ root.table = start
  <2>1. <<>> \in Seq(LinkedTable \X Int) /\ start \in LinkedTable
    BY <1>1 DEF Asked
  <2> QED
    BY <2>1 DEF Hop
<1>4. start \in Defined => IsHop(root)
  <2>1. IsAt(root.table, root.depth)
    BY <1>2, <1>3 DEF IsAt
  <2>2. Len(root.path) = root.depth
    BY <1>3
  <2> HIDE DEF root
  <2> QED
    BY <1>1, <1>3, <2>1, <2>2 DEF IsHop, Asked
<1>5. /\ visited = {start} /\ found = {}
      /\ frontier = IF start \in Defined THEN <<root>> ELSE <<>>
  BY DEF LinksInit
<1> HIDE DEF root
<1>6. frontier \in Seq(Hop)
  BY <1>3, <1>5
<1>7. ASSUME NEW i \in DOMAIN frontier PROVE start \in Defined /\ frontier = <<root>> /\ i = 1 /\ frontier[i] = root
  BY <1>5
<1>8. visited \subseteq LinkedTable /\ visited = {start} \cup {r.table : r \in found}
  BY <1>1, <1>5 DEF Asked
<1>9. ASSUME NEW i \in DOMAIN frontier PROVE IsHop(frontier[i]) /\ frontier[i].table \in visited
  BY <1>3, <1>4, <1>5, <1>7
<1>10. ASSUME NEW i \in DOMAIN frontier, NEW j \in DOMAIN frontier
       PROVE  /\ i < j => frontier[i].depth <= frontier[j].depth
              /\ frontier[j].depth <= frontier[1].depth + 1
  BY <1>3, <1>7
<1>11. ASSUME NEW t \in visited \cap Defined PROVE \E i \in DOMAIN frontier : frontier[i].table = t
  <2>1. start \in Defined /\ frontier = <<root>> /\ t = start
    BY <1>5, <1>11
  <2> QED
    BY <1>3, <2>1
<1> QED
  BY <1>1, <1>5, <1>6, <1>8, <1>9, <1>10, <1>11 DEF LinksIInv

\* A way with one link more leads on.
LEMMA LeadsOn ==
  ASSUME Asked, NEW h \in Hop, IsHop(h), NEW l \in links[h.table], h.table \in Defined
  PROVE  LeadsTo(NextHop(h, l).path, l[2]) /\ Len(NextHop(h, l).path) = h.depth + 1
<1> DEFINE p == h.path
           n == Len(p)
           q == NextHop(h, l).path
           e == <<h.table, l[1]>>
<1>1. /\ p \in Seq(LinkedTable \X Int) /\ n = h.depth /\ n \in Nat
      /\ h.depth > 0 => LeadsTo(p, h.table)
      /\ l = <<l[1], l[2]>>
  BY LinksAreLinks DEF IsHop, Hop
<1>2. q = Append(p, e)
  BY DEF NextHop
<1>3. /\ Len(q) = n + 1 /\ DOMAIN q = 1..(n + 1) /\ q[n + 1] = e
      /\ \A i \in 1..n : q[i] = p[i] /\ i \in 1..(n + 1)
      /\ DOMAIN p = 1..n
  BY <1>1, <1>2
<1>4. e[1] = h.table /\ e[2] = l[1]
  OBVIOUS
<1>5. h.depth = 0 => h.table = start
  BY WithinUnfolds DEF IsHop, IsAt
<1>6. q # <<>>
  BY <1>1, <1>2
<1>9. q[1][1] = start
  <2>1. CASE n = 0
    BY <1>1, <1>3, <1>4, <1>5, <2>1
  <2>2. CASE n > 0
    <3>1. p[1][1] = start
      BY <1>1, <2>2 DEF LeadsTo
    <3>2. 1 \in 1..n /\ q[1] = p[1]
      BY <1>1, <1>3, <2>2
    <3> QED
      BY <3>1, <3>2
  <2> QED
    BY <1>1, <2>1, <2>2
<1>7. ASSUME NEW i \in DOMAIN q
      PROVE  LET to == IF i = Len(q) THEN l[2] ELSE q[i + 1][1]
             IN  q[i][1] \in Defined /\ <<q[i][2], to>> \in links[q[i][1]]
  <2>1. CASE i = n + 1
    BY <1>1, <1>3, <1>4, <2>1
  <2>2. CASE i # n + 1
    <3>1. i \in 1..n /\ n > 0 /\ i \in DOMAIN p
      BY <1>1, <1>3, <2>2
    <3>2. LET to == IF i = n THEN h.table ELSE p[i + 1][1]
          IN  p[i][1] \in Defined /\ <<p[i][2], to>> \in links[p[i][1]]
      BY <1>1, <3>1 DEF LeadsTo
    <3>3. q[i] = p[i] /\ i # Len(q)
      BY <1>1, <1>3, <2>2, <3>1
    <3>4. q[i + 1][1] = IF i = n THEN h.table ELSE p[i + 1][1]
      <4>1. CASE i = n
        BY <1>3, <1>4, <4>1
      <4>2. CASE i # n
        <5>1. i + 1 \in 1..n
          BY <1>1, <3>1, <4>2
        <5> QED
          BY <1>3, <4>2, <5>1
      <4> QED
        BY <4>1, <4>2
    <3> HIDE DEF p, n, q, e
    <3> QED
      BY <3>2, <3>3, <3>4
  <2> QED
    BY <2>1, <2>2
<1> HIDE DEF p, n, q, e
<1>8. LeadsTo(q, l[2])
  BY <1>6, <1>7, <1>9 DEF LeadsTo
<1> QED
  BY <1>1, <1>3, <1>8 DEF q

\* The first of a list and the others.
LEMMA HeadAndTail ==
  ASSUME NEW S, NEW s \in Seq(S), s # <<>>
  PROVE  LET m == Len(s) - 1
         IN  /\ m \in Nat /\ Len(s) = m + 1 /\ DOMAIN s = 1..(m + 1)
             /\ Head(s) = s[1] /\ 1 \in DOMAIN s
             /\ Tail(s) \in Seq(S) /\ Len(Tail(s)) = m
             /\ \A i \in 1..m : Tail(s)[i] = s[i + 1] /\ i + 1 \in 1..(m + 1)
  OBVIOUS

\* One iteration keeps the search's invariant.
LEMMA VisitKeeps ==
  ASSUME LinksIInv, Visit
  PROVE  LinksIInv'
<1> DEFINE node == Head(frontier)
           seq == IF Expands(node) THEN InOrder(links[node.table]) ELSE <<>>
           L == Range(seq)
           seen == FoldLeft(LAMBDA acc, l : Follow(node, acc, l), [visited |-> visited, new |-> <<>>], seq)
           new == seen.new
           d == node.depth
           m == Len(frontier) - 1
           k == Len(new)
<1>1. /\ Asked /\ maxDepth \in Nat /\ frontier \in Seq(Hop) /\ frontier # <<>>
      /\ visited' = seen.visited /\ found' = found \cup Range(seen.new)
      /\ frontier' = Tail(frontier) \o seen.new
      /\ UNCHANGED <<links, start, maxDepth>>
  BY DEF LinksIInv, Visit, Asked
<1>2. /\ m \in Nat /\ Len(frontier) = m + 1 /\ DOMAIN frontier = 1..(m + 1)
      /\ node = frontier[1] /\ 1 \in DOMAIN frontier
      /\ Tail(frontier) \in Seq(Hop) /\ Len(Tail(frontier)) = m
      /\ \A i \in 1..m : Tail(frontier)[i] = frontier[i + 1] /\ i + 1 \in 1..(m + 1)
  BY <1>1, HeadAndTail
<1>3. node \in Hop /\ IsHop(node) /\ node.table \in visited /\ d \in Nat /\ d <= maxDepth
  <2>1. node \in Hop /\ IsHop(node) /\ node.table \in visited
    BY <1>2 DEF LinksIInv, IsHop
  <2> HIDE DEF node
  <2>2. node.depth \in Nat /\ node.depth <= maxDepth
    BY <2>1 DEF Hop, IsHop
  <2> QED
    BY <2>1, <2>2
<1>4. /\ seq \in Seq(Int \X LinkedTable)
      /\ Expands(node) => node.table \in Defined /\ d < maxDepth /\ L = links[node.table]
      /\ ~Expands(node) => L = {} /\ seq = <<>>
  <2>1. CASE Expands(node)
    <3>1. node.table \in Defined /\ d < maxDepth
      BY <2>1 DEF Expands
    <3>2. links[node.table] \in SUBSET (Int \X LinkedTable) /\ links[node.table] \in SUBSET (Int \X Int)
          /\ IsFiniteSet(links[node.table])
      BY <1>1, <3>1, LinksAreLinks
    <3>3. InOrder(links[node.table]) \in Seq(links[node.table]) /\ Range(InOrder(links[node.table])) = links[node.table]
      BY <3>2, InOrderIsOrder
    <3>4. InOrder(links[node.table]) \in Seq(Int \X LinkedTable)
      BY <3>2, <3>3
    <3> QED
      BY <2>1, <3>1, <3>3, <3>4
  <2>2. CASE ~Expands(node)
    <3>1. seq = <<>>
      BY <2>2
    <3>2. Range(<<>>) = {}
      BY DEF Range
    <3> QED
      BY <2>2, <3>1, <3>2
  <2> QED
    BY <2>1, <2>2
<1>5. Collects(node, visited, L, seen)
  <2> HIDE DEF node, seq
  <2>1. node \in Hop /\ seq \in Seq(Int \X LinkedTable)
    BY <1>3, <1>4
  <2> QED
    BY <2>1, VisitCollects
<1> HIDE DEF node, seq, L, seen
<1>6. /\ seen.visited = visited \cup {l[2] : l \in L}
      /\ new \in Seq(Hop) /\ k \in Nat /\ DOMAIN new = 1..k
      /\ \A i \in 1..k : \E l \in L : l[2] \notin visited /\ new[i] = NextHop(node, l)
      /\ \A i, j \in 1..k : new[i].table = new[j].table => i = j
      /\ \A u \in seen.visited : u \in visited \/ \E i \in 1..k : new[i].table = u
  BY <1>5 DEF Collects
<1>7. Within[d] \subseteq visited
  <2>1. \A i \in DOMAIN frontier : frontier[i].depth >= d
    <3>1. ASSUME NEW i \in DOMAIN frontier PROVE frontier[i].depth >= d
      <4>1. 1 < i => frontier[1].depth <= frontier[i].depth
        BY <1>2 DEF LinksIInv
      <4>2. frontier[i].depth \in Nat
        <5>1. frontier[i] \in Hop
          BY <1>1
        <5> QED
          BY <5>1 DEF Hop
      <4>3. frontier[1].depth = d
        BY <1>2
      <4> QED
        BY <1>2, <1>3, <4>1, <4>2, <4>3
    <3> QED
      BY <3>1
  <2> QED
    BY <1>3, <2>1, NearIsVisited
<1> HIDE DEF d
<1>8. ASSUME NEW i \in 1..k
      PROVE  /\ new[i] \in Hop /\ IsHop(new[i]) /\ new[i].depth = d + 1 /\ Expands(node)
             /\ new[i].table \notin visited /\ new[i].table \in seen.visited
  <2>1. PICK l \in L : l[2] \notin visited /\ new[i] = NextHop(node, l)
    BY <1>6
  <2>2. Expands(node) /\ node.table \in Defined /\ d < maxDepth /\ l \in links[node.table]
    BY <1>4, <2>1
  <2>3. l \in Int \X LinkedTable
    BY <1>1, <2>2, LinksAreLinks
  <2>4. new[i] \in Hop /\ new[i].table = l[2] /\ new[i].depth = d + 1
    BY <1>3, <2>1, <2>3, NextHopIsHop DEF NextHop, d
  <2>5. IsAt(l[2], d + 1)
    <3>1. node.table \in Within[d]
      BY <1>3 DEF IsHop, IsAt, d
    <3> QED
      BY <1>1, <1>3, <1>7, <2>1, <2>2, <3>1, NextLevel
  <2>6. LeadsTo(new[i].path, l[2]) /\ Len(new[i].path) = d + 1
    BY <1>1, <1>3, <2>1, <2>2, LeadsOn DEF d
  <2>7. IsHop(new[i])
    <3>1. d + 1 <= maxDepth
      BY <1>1, <1>3, <2>2
    <3>2. start \in Defined
      BY <1>3 DEF IsHop
    <3> QED
      BY <2>4, <2>5, <2>6, <3>1, <3>2 DEF IsHop
  <2> QED
    BY <1>6, <2>1, <2>2, <2>4, <2>7
<1>9. /\ Len(frontier') = m + k /\ DOMAIN frontier' = 1..(m + k) /\ frontier' \in Seq(Hop)
      /\ \A i \in 1..m : frontier'[i] = frontier[i + 1]
      /\ \A i \in 1..(m + k) : i \notin 1..m => i - m \in 1..k /\ frontier'[i] = new[i - m]
      /\ \A i \in 1..k : i + m \in 1..(m + k) /\ frontier'[i + m] = new[i]
  BY <1>1, <1>2, <1>6
<1>10. /\ Within' = Within /\ Defined' = Defined /\ Asked' 
       /\ \A h : IsHop(h)' <=> IsHop(h)
  BY <1>1 DEF Within, Defined, Asked, IsHop, IsAt, LeadsTo, Hop
<1>11. visited' \subseteq LinkedTable
  <2>1. \A l \in L : l[2] \in LinkedTable
    BY <1>1, <1>4, LinksAreLinks
  <2> QED
    BY <1>1, <1>6, <2>1 DEF LinksIInv
<1>12. ASSUME NEW i \in DOMAIN frontier'
       PROVE  /\ IsHop(frontier'[i]) /\ frontier'[i].table \in visited'
              /\ frontier'[i].depth \in Nat /\ d <= frontier'[i].depth /\ frontier'[i].depth <= d + 1
  <2>1. CASE i \in 1..m
    <3>1. frontier'[i] = frontier[i + 1] /\ i + 1 \in DOMAIN frontier /\ 1 < i + 1
      BY <1>2, <1>9, <2>1
    <3>2. /\ IsHop(frontier[i + 1]) /\ frontier[i + 1].table \in visited
          /\ frontier[1].depth <= frontier[i + 1].depth /\ frontier[i + 1].depth <= frontier[1].depth + 1
      BY <1>2, <3>1 DEF LinksIInv
    <3>3. frontier[i + 1].depth \in Nat
      BY <3>2 DEF IsHop, Hop
    <3>4. frontier[1].depth = d
      BY <1>2 DEF d
    <3> QED
      BY <1>1, <1>6, <3>1, <3>2, <3>3, <3>4
  <2>2. CASE i \notin 1..m
    <3>1. i - m \in 1..k /\ frontier'[i] = new[i - m]
      BY <1>9, <2>2
    <3> QED
      BY <1>1, <1>3, <1>8, <3>1
  <2> QED
    BY <2>1, <2>2
<1>13. ASSUME NEW i \in DOMAIN frontier', NEW j \in DOMAIN frontier', i < j
       PROVE  frontier'[i].depth <= frontier'[j].depth
  <2>1. CASE j \in 1..m
    <3>1. i \in 1..m /\ i + 1 \in DOMAIN frontier /\ j + 1 \in DOMAIN frontier /\ i + 1 < j + 1
      BY <1>2, <1>9, <1>13, <2>1
    <3>2. frontier[i + 1].depth <= frontier[j + 1].depth
      BY <3>1 DEF LinksIInv
    <3> QED
      BY <1>9, <2>1, <3>1, <3>2
  <2>2. CASE j \notin 1..m
    <3>1. frontier'[j].depth = d + 1
      <4>1. j - m \in 1..k /\ frontier'[j] = new[j - m]
        BY <1>9, <2>2
      <4> QED
        BY <1>8, <4>1
    <3>2. frontier'[i].depth <= d + 1
      BY <1>12
    <3> QED
      BY <3>1, <3>2
  <2> QED
    BY <2>1, <2>2
<1>14. ASSUME NEW j \in DOMAIN frontier' PROVE frontier'[j].depth <= frontier'[1].depth + 1
  <2>1. 1 \in DOMAIN frontier'
    BY <1>2, <1>6, <1>9
  <2>2. /\ d <= frontier'[1].depth /\ frontier'[1].depth \in Nat
        /\ frontier'[j].depth <= d + 1 /\ frontier'[j].depth \in Nat
    BY <1>12, <2>1
  <2> QED
    BY <1>3, <2>2
<1>15. ASSUME NEW r \in found'
       PROVE  IsHop(r) /\ r.depth >= 1 /\ (r \in found \/ \E i \in 1..k : r = new[i])
  <2>1. r \in found \/ \E i \in 1..k : r = new[i]
    BY <1>1, <1>6 DEF Range
  <2>2. CASE r \in found
    BY <2>1, <2>2 DEF LinksIInv
  <2>3. ASSUME NEW i \in 1..k, r = new[i] PROVE IsHop(r) /\ r.depth >= 1
    BY <1>3, <1>8, <2>3
  <2> QED
    BY <2>1, <2>2, <2>3
<1>16. \A r \in found : r.table \in visited /\ r \in found'
  BY <1>1 DEF LinksIInv
<1>17. ASSUME NEW i \in 1..k PROVE new[i] \in found'
  BY <1>1, <1>6 DEF Range
<1>18. visited' = {start} \cup {r.table : r \in found'}
  <2>1. ASSUME NEW u \in visited' PROVE u = start \/ \E r \in found' : u = r.table
    <3>1. u \in visited \/ \E i \in 1..k : new[i].table = u
      BY <1>1, <1>6
    <3>2. visited = {start} \cup {r.table : r \in found}
      BY DEF LinksIInv
    <3> QED
      BY <1>16, <1>17, <3>1, <3>2
  <2>2. ASSUME NEW r \in found' PROVE r.table \in visited'
    <3>1. r \in found \/ \E i \in 1..k : r = new[i]
      BY <1>15
    <3> QED
      BY <1>1, <1>6, <1>8, <1>16, <3>1
  <2>3. start \in visited'
    BY <1>1, <1>6 DEF LinksIInv
  <2> QED
    BY <2>1, <2>2, <2>3
<1>19. ASSUME NEW r \in found', NEW s \in found', r.table = s.table PROVE r = s
  <2>1. CASE r \in found /\ s \in found
    BY <1>19, <2>1 DEF LinksIInv
  <2>2. ASSUME NEW i \in 1..k, r = new[i] PROVE r = s
    <3>1. s \notin found
      BY <1>8, <1>16, <1>19, <2>2
    <3>2. PICK j \in 1..k : s = new[j]
      BY <1>15, <3>1
    <3> QED
      BY <1>6, <1>19, <2>2, <3>2
  <2>3. ASSUME NEW i \in 1..k, s = new[i] PROVE r = s
    <3>1. r \notin found
      BY <1>8, <1>16, <1>19, <2>3
    <3>2. PICK j \in 1..k : r = new[j]
      BY <1>15, <3>1
    <3> QED
      BY <1>6, <1>19, <2>3, <3>2
  <2> QED
    BY <1>15, <2>1, <2>2, <2>3
<1>20. ASSUME NEW t \in visited' \cap Defined
       PROVE  (\E i \in DOMAIN frontier' : frontier'[i].table = t) \/ WasFollowed(t)'
  <2>1. CASE \E i \in 1..k : new[i].table = t
    <3>1. PICK i \in 1..k : new[i].table = t
      BY <2>1
    <3> QED
      BY <1>9, <3>1
  <2>2. CASE t \in visited /\ WasFollowed(t)
    <3>1. visited \subseteq visited'
      BY <1>1, <1>6
    <3> QED
      BY <1>1, <1>10, <2>2, <3>1 DEF WasFollowed
  <2>3. ASSUME NEW i \in DOMAIN frontier, frontier[i].table = t
        PROVE  (\E j \in DOMAIN frontier' : frontier'[j].table = t) \/ WasFollowed(t)'
    <3>1. CASE i # 1
      <4>1. i - 1 \in 1..m /\ (i - 1) + 1 = i /\ i - 1 \in DOMAIN frontier'
        BY <1>2, <1>6, <1>9, <3>1
      <4>2. frontier'[i - 1] = frontier[i]
        BY <1>9, <4>1
      <4> QED
        BY <2>3, <4>1, <4>2
    <3>2. CASE i = 1
      <4>1. t = node.table
        BY <1>2, <2>3, <3>2
      <4>2. CASE Expands(node)
        <5>1. \A l \in links[t] : l[2] \in visited'
          BY <1>1, <1>4, <1>6, <4>1, <4>2
        <5> QED
          BY <1>1, <5>1 DEF WasFollowed
      <4>3. CASE ~Expands(node)
        <5>1. d = maxDepth
          BY <1>1, <1>3, <1>20, <4>1, <4>3 DEF Expands, d
        <5>2. \A n \in 0..maxDepth - 1 : t \notin Within[n]
          BY <1>3, <4>1, <5>1 DEF IsHop, IsAt, d
        <5> QED
          BY <1>1, <1>10, <5>2 DEF WasFollowed
      <4> QED
        BY <4>2, <4>3
    <3> QED
      BY <3>1, <3>2
  <2>4. t \in visited \/ \E i \in 1..k : new[i].table = t
    BY <1>1, <1>6, <1>20
  <2>5. t \in visited => WasFollowed(t) \/ \E i \in DOMAIN frontier : frontier[i].table = t
    BY <1>20 DEF LinksIInv
  <2> QED
    BY <2>1, <2>2, <2>3, <2>4, <2>5
<1> HIDE DEF new, m, k
<1> QED
  BY <1>1, <1>9, <1>10, <1>11, <1>12, <1>13, <1>14, <1>15, <1>18, <1>19, <1>20 DEF LinksIInv

\* Where nothing of the search changes, its invariant is kept.
LEMMA LinksUnchanged == LinksIInv /\ UNCHANGED linkVars => LinksIInv'
<1> SUFFICES ASSUME LinksIInv, UNCHANGED linkVars PROVE LinksIInv'
  OBVIOUS
<1>1. UNCHANGED <<links, start, maxDepth, visited, found, frontier>>
  BY DEF linkVars
<1>2. /\ Within' = Within /\ Defined' = Defined /\ Asked'
      /\ \A h : IsHop(h)' <=> IsHop(h)
  BY <1>1 DEF Within, Defined, Asked, IsHop, IsAt, LeadsTo, Hop, LinksIInv
<1>3. \A t : WasFollowed(t)' <=> WasFollowed(t)
  BY <1>1, <1>2 DEF WasFollowed
<1> QED
  BY <1>1, <1>2, <1>3 DEF LinksIInv

\* The search's invariant says that its result is right.
LEMMA FoundIsNearest == LinksIInv => ReachableIsNearest
<1> SUFFICES ASSUME LinksIInv, frontier = <<>> PROVE
      /\ {<<r.table, r.depth>> : r \in found} =
           {p \in LinkedTable \X (1..maxDepth) :
              start \in Defined /\ p[1] \in Within[p[2]] \ Within[p[2] - 1]}
      /\ \A r \in found : Len(r.path) = r.depth /\ LeadsTo(r.path, r.table)
      /\ \A r, s \in found : r.table = s.table => r = s
  BY DEF ReachableIsNearest
<1> DEFINE Near == {p \in LinkedTable \X (1..maxDepth) :
                      start \in Defined /\ p[1] \in Within[p[2]] \ Within[p[2] - 1]}
<1>1. /\ Asked /\ maxDepth \in Nat
      /\ \A r \in found : IsHop(r) /\ r.depth >= 1
      /\ \A r, s \in found : r.table = s.table => r = s
      /\ visited = {start} \cup {r.table : r \in found}
  BY DEF LinksIInv, Asked
<1>2. ASSUME NEW r \in found
      PROVE  /\ r.table \in LinkedTable /\ r.depth \in 1..maxDepth /\ start \in Defined
             /\ IsAt(r.table, r.depth) /\ Len(r.path) = r.depth /\ LeadsTo(r.path, r.table)
  <2>1. IsHop(r) /\ r.depth >= 1
    BY <1>1
  <2>2. r.table \in LinkedTable /\ r.depth \in Nat
    BY <2>1 DEF IsHop, Hop
  <2>3. r.depth <= maxDepth /\ r.depth > 0
    BY <2>1, <2>2 DEF IsHop
  <2> QED
    BY <1>1, <2>1, <2>2, <2>3 DEF IsHop
<1>3. Within[maxDepth] \subseteq visited
  BY <1>1, NearIsVisited
<1>4. ASSUME NEW r \in found PROVE <<r.table, r.depth>> \in Near
  <2>1. r.table \in Within[r.depth] /\ r.table \notin Within[r.depth - 1]
    <3>1. r.depth \in Nat \ {0}
      BY <1>1, <1>2
    <3> QED
      BY <1>1, <1>2, <3>1, NewOnLevel
  <2> QED
    BY <1>2, <2>1
<1>5. ASSUME NEW p \in Near PROVE \E r \in found : p = <<r.table, r.depth>>
  <2>1. PICK t, d : p = <<t, d>> /\ t \in LinkedTable /\ d \in 1..maxDepth
    OBVIOUS
  <2>2. t \in Within[d] /\ t \notin Within[d - 1] /\ d \in Nat \ {0}
    BY <1>1, <2>1
  <2>3. IsAt(t, d)
    BY <1>1, <2>2, NewOnLevel
  <2>4. t \in visited
    <3>1. Within[d] \subseteq Within[maxDepth]
      BY <1>1, <2>1, WithinGrows
    <3> QED
      BY <1>3, <2>2, <3>1
  <2>5. t # start
    <3>1. 0 \in 0..d - 1
      BY <2>2
    <3>2. t \notin Within[0] /\ Within[0] = {start}
      BY <1>1, <2>3, <3>1, WithinUnfolds DEF IsAt
    <3> QED
      BY <3>2
  <2>6. PICK r \in found : r.table = t
    BY <1>1, <2>4, <2>5
  <2>7. r.depth = d
    <3>1. r.depth \in Nat /\ d \in Nat /\ IsAt(t, r.depth)
      BY <1>1, <1>2, <2>2, <2>6
    <3> QED
      BY <1>1, <2>3, <3>1, OneDistance
  <2> QED
    BY <2>1, <2>6, <2>7
<1>6. {<<r.table, r.depth>> : r \in found} = Near
  <2> HIDE DEF Near
  <2> QED
    BY <1>4, <1>5
<1> QED
  BY <1>1, <1>2, <1>6

\* And the search's types.
LEMMA LinksAreTyped == LinksIInv => LinksTypeOK
<1> SUFFICES ASSUME LinksIInv PROVE LinksTypeOK
  OBVIOUS
<1>1. Asked /\ maxDepth \in Nat
  BY DEF LinksIInv, Asked
<1>2. ASSUME NEW r \in found PROVE r.table \in visited \ {start} /\ r.depth \in 1..maxDepth
  <2>1. IsHop(r) /\ r.depth >= 1 /\ r.table \in visited
    BY DEF LinksIInv
  <2>2. r.depth \in Nat /\ r.depth <= maxDepth /\ IsAt(r.table, r.depth)
    BY <2>1 DEF IsHop, Hop
  <2>3. 0 \in 0..r.depth - 1
    BY <2>1, <2>2
  <2>4. r.table # start
    BY <1>1, <2>2, <2>3, WithinUnfolds DEF IsAt
  <2> QED
    BY <1>1, <2>1, <2>2, <2>4
<1>3. visited \subseteq LinkedTable
  BY DEF LinksIInv
<1>4. \A i, j \in DOMAIN frontier : i < j => frontier[i].depth <= frontier[j].depth
  BY DEF LinksIInv
<1> QED
  BY <1>2, <1>3, <1>4 DEF LinksTypeOK

\* The search's inductive invariant holds in every schema, from every table
\* and at every depth (tables_reachable_from).
THEOREM LinksInvariant == LinksSpec => []LinksIInv
<1>1. LinksInit => LinksIInv
  BY LinksStart
<1>2. LinksIInv /\ [LinksNext]_linkVars => LinksIInv'
  BY VisitKeeps, LinksUnchanged DEF LinksNext
<1> QED
  BY <1>1, <1>2, PTL DEF LinksSpec

\* tables_reachable_from returns the tables within max_depth hops and no
\* others, once, at their distance and with a path that leads there.
THEOREM ReachableAreNearest == LinksSpec => []ReachableIsNearest
BY LinksInvariant, FoundIsNearest, PTL

\* The search's variables keep their types, and the queue is in the order of
\* distance.
THEOREM LinksTypeCorrect == LinksSpec => []LinksTypeOK
BY LinksInvariant, LinksAreTyped, PTL

\* The first k of a list.
LEMMA PrefixIs ==
  ASSUME NEW S, NEW w \in Seq(S), NEW k \in 0..Len(w)
  PROVE  /\ SubSeq(w, 1, k) \in Seq(S) /\ Len(SubSeq(w, 1, k)) = k
         /\ \A i \in 1..k : SubSeq(w, 1, k)[i] = w[i]
         /\ \A j \in 0..k : SubSeq(SubSeq(w, 1, k), 1, j) = SubSeq(w, 1, j)
         /\ SubSeq(w, 1, Len(w)) = w
<1> DEFINE p == SubSeq(w, 1, k)
<1>1. p \in Seq(S) /\ Len(p) = k /\ \A i \in 1..k : p[i] = w[i]
  OBVIOUS
<1>2. ASSUME NEW j \in 0..k PROVE SubSeq(p, 1, j) = SubSeq(w, 1, j)
  OBVIOUS
<1>3. SubSeq(w, 1, Len(w)) = w
  OBVIOUS
<1> QED
  BY <1>1, <1>2, <1>3

\* A list with one element more.
LEMMA AppendedIs ==
  ASSUME NEW S, NEW w \in Seq(S), NEW e \in S
  PROVE  /\ Append(w, e) \in Seq(S) /\ Len(Append(w, e)) = Len(w) + 1 /\ Append(w, e) # <<>>
         /\ Append(w, e)[Len(w) + 1] = e /\ \A i \in 1..Len(w) : Append(w, e)[i] = w[i]
         /\ \A j \in 0..Len(w) : SubSeq(Append(w, e), 1, j) = SubSeq(w, 1, j)
         /\ SubSeq(Append(w, e), 1, Len(w)) = w /\ Front(Append(w, e)) = w
  BY DEF Front

\* The first k + 1 of a list.
LEMMA OneMore ==
  ASSUME NEW S, NEW w \in Seq(S), NEW k \in Nat, k < Len(w)
  PROVE  SubSeq(w, 1, k + 1) = Append(SubSeq(w, 1, k), w[k + 1]) /\ w[k + 1] \in S
OBVIOUS

\* A link is followed from the end of w.
GoesOn(w, l) == ~IsCycle(w) /\ TableOf(w) \in Defined /\ l \in links[TableOf(w)]

\* What a walk is, and its parts.
LEMMA WalkIs ==
  ASSUME Asked, NEW w
  PROVE  w \in Walks <=>
           /\ w \in Seq(AllLinks) /\ Len(w) <= maxDepth
           /\ \A i \in 1..Len(w) : GoesOn(SubSeq(w, 1, i - 1), w[i])
<1>1. w \in UNION {[1..n -> AllLinks] : n \in 0..maxDepth} <=> w \in Seq(AllLinks) /\ Len(w) <= maxDepth
  <2>1. ASSUME NEW n \in 0..maxDepth, w \in [1..n -> AllLinks] PROVE w \in Seq(AllLinks) /\ Len(w) <= maxDepth
    BY <2>1 DEF Asked
  <2>2. ASSUME w \in Seq(AllLinks), Len(w) <= maxDepth PROVE Len(w) \in 0..maxDepth /\ w \in [1..Len(w) -> AllLinks]
    BY <2>2 DEF Asked
  <2> QED
    BY <2>1, <2>2
<1>2. w \in Seq(AllLinks) => DOMAIN w = 1..Len(w)
  OBVIOUS
<1>3. w \in Walks <=> /\ w \in UNION {[1..n -> AllLinks] : n \in 0..maxDepth}
                      /\ \A i \in DOMAIN w : GoesOn(SubSeq(w, 1, i - 1), w[i])
  BY DEF Walks, GoesOn
<1> QED
  BY <1>1, <1>2, <1>3

\* The root is a walk.
LEMMA EmptyWalk == Asked => <<>> \in Walks
<1> SUFFICES ASSUME Asked PROVE <<>> \in Walks
  OBVIOUS
<1>1. <<>> \in Seq(AllLinks) /\ Len(<<>>) <= maxDepth
  BY DEF Asked
<1>2. 1..Len(<<>>) = {}
  OBVIOUS
<1> QED
  BY <1>1, <1>2, WalkIs

\* A walk with one link more is a walk.
LEMMA WalkGoesOn ==
  ASSUME Asked, NEW w \in Walks, NEW l, Len(w) < maxDepth, GoesOn(w, l)
  PROVE  Append(w, l) \in Walks /\ l \in AllLinks
<1>1. l \in AllLinks
  BY DEF GoesOn, AllLinks
<1>2. w \in Seq(AllLinks) /\ \A i \in 1..Len(w) : GoesOn(SubSeq(w, 1, i - 1), w[i])
  BY WalkIs
<1> DEFINE v == Append(w, l)
           n == Len(w)
<1>3. /\ v \in Seq(AllLinks) /\ Len(v) = n + 1 /\ n \in Nat
      /\ v[n + 1] = l /\ (\A i \in 1..n : v[i] = w[i])
      /\ (\A j \in 0..n : SubSeq(v, 1, j) = SubSeq(w, 1, j))
      /\ SubSeq(v, 1, n) = w
  BY <1>1, <1>2, AppendedIs
<1>4. maxDepth \in Nat
  BY DEF Asked
<1> HIDE DEF v, n
<1>5. ASSUME NEW i \in 1..(n + 1) PROVE GoesOn(SubSeq(v, 1, i - 1), v[i])
  <2>1. CASE i = n + 1
    <3>1. i - 1 = n
      BY <1>3, <2>1
    <3> QED
      BY <1>3, <2>1, <3>1
  <2>2. CASE i # n + 1
    <3>1. i \in 1..n /\ i - 1 \in 0..n
      BY <1>3, <2>2
    <3> QED
      BY <1>2, <1>3, <3>1 DEF n
  <2> QED
    BY <2>1, <2>2
<1>6. n + 1 <= maxDepth
  BY <1>3, <1>4 DEF n
<1>7. v \in Walks
  BY <1>3, <1>5, <1>6, WalkIs
<1> QED
  BY <1>1, <1>7 DEF v

\* What a walk begins with is a walk, and goes on as the walk does.
LEMMA WalkBegins ==
  ASSUME Asked, NEW w \in Walks, NEW k \in 0..Len(w)
  PROVE  /\ SubSeq(w, 1, k) \in Walks
         /\ k < Len(w) => GoesOn(SubSeq(w, 1, k), w[k + 1])
<1>1. /\ w \in Seq(AllLinks) /\ Len(w) <= maxDepth /\ maxDepth \in Nat /\ Len(w) \in Nat
      /\ \A i \in 1..Len(w) : GoesOn(SubSeq(w, 1, i - 1), w[i])
  BY WalkIs DEF Asked
<1> DEFINE p == SubSeq(w, 1, k)
<1>2. /\ p \in Seq(AllLinks) /\ Len(p) = k /\ (\A i \in 1..k : p[i] = w[i])
      /\ \A j \in 0..k : SubSeq(p, 1, j) = SubSeq(w, 1, j)
  BY <1>1, PrefixIs
<1> HIDE DEF p
<1>3. ASSUME NEW i \in 1..k PROVE GoesOn(SubSeq(p, 1, i - 1), p[i])
  <2>1. i - 1 \in 0..k /\ i \in 1..Len(w)
    BY <1>1
  <2> QED
    BY <1>1, <1>2, <2>1
<1>4. Len(p) <= maxDepth
  BY <1>1, <1>2
<1>5. p \in Walks
  BY <1>2, <1>3, <1>4, WalkIs
<1>6. ASSUME k < Len(w) PROVE GoesOn(p, w[k + 1])
  <2>1. k + 1 \in 1..Len(w) /\ (k + 1) - 1 = k
    BY <1>1, <1>6
  <2> QED
    BY <1>1, <2>1 DEF p
<1> QED
  BY <1>5, <1>6 DEF p

\* A node that is waiting for its subtree leads to w.
Leads(v, w) == Len(v) <= Len(w) /\ SubSeq(w, 1, Len(v)) = v

TreeIInv ==
  /\ LinksIInv
  /\ IsFiniteSet(tree) /\ Cardinality(tree) <= NodeCap
  /\ tree \subseteq Walks /\ waiting \in Seq(Walks)
  /\ \A w \in tree : w # <<>> => Front(w) \in tree
  /\ \A i \in DOMAIN waiting :
       /\ waiting[i] \notin tree
       /\ waiting[i] # <<>> => Front(waiting[i]) \in tree
       /\ \A j \in DOMAIN waiting : waiting[i] = waiting[j] => i = j
  /\ \/ Cardinality(tree) = NodeCap
     \/ \A w \in Walks : w \in tree \/ \E i \in DOMAIN waiting : Leads(waiting[i], w)

\* Two lists, one after the other.
LEMMA JoinedIs ==
  ASSUME NEW S, NEW s \in Seq(S), NEW t \in Seq(S), NEW k, NEW m, k = Len(s), m = Len(t)
  PROVE  /\ s \o t \in Seq(S) /\ Len(s \o t) = k + m /\ DOMAIN (s \o t) = 1..(k + m)
         /\ \A i \in 1..k : i \in 1..(k + m) /\ (s \o t)[i] = s[i]
         /\ \A i \in 1..(k + m) : i \notin 1..k => i - k \in 1..m /\ (s \o t)[i] = t[i - k]
         /\ \A i \in 1..m : i + k \in 1..(k + m) /\ (s \o t)[i + k] = t[i]
OBVIOUS

\* At first, no node is made and the root is waiting.
LEMMA TreeStart == TreeInit => TreeIInv
<1> SUFFICES ASSUME TreeInit PROVE TreeIInv
  OBVIOUS
<1>1. LinksIInv /\ Asked /\ tree = {} /\ waiting = << <<>> >>
  BY LinksStart DEF TreeInit, LinksIInv
<1>2. IsFiniteSet({}) /\ Cardinality({}) = 0
  BY FS_EmptySet
<1>3. waiting \in Seq(Walks) /\ DOMAIN waiting = {1} /\ waiting[1] = <<>>
  BY <1>1, EmptyWalk
<1>4. ASSUME NEW w \in Walks PROVE Leads(waiting[1], w)
  <2>1. w \in Seq(AllLinks)
    BY <1>1, WalkIs
  <2>2. Len(<<>>) = 0 /\ 0 <= Len(w) /\ SubSeq(w, 1, 0) = <<>>
    BY <2>1
  <2> QED
    BY <1>3, <2>2 DEF Leads
<1> QED
  BY <1>1, <1>2, <1>3, <1>4, NodeCapAssumption DEF TreeIInv

\* The children of a node.
LEMMA ChildrenAre ==
  ASSUME Asked, NEW node \in Walks
  PROVE  /\ Children(node) \in Seq(Walks)
         /\ \A i \in DOMAIN Children(node) :
              /\ ExpandsNode(node)
              /\ \E l \in links[TableOf(node)] : Children(node)[i] = Append(node, l)
              /\ \A j \in DOMAIN Children(node) : Children(node)[i] = Children(node)[j] => i = j
         /\ ExpandsNode(node) => \A l \in links[TableOf(node)] :
              \E i \in DOMAIN Children(node) : Children(node)[i] = Append(node, l)
<1> DEFINE order == InOrder(links[TableOf(node)])
<1>1. CASE ~ExpandsNode(node)
  <2>1. Children(node) = <<>>
    BY <1>1 DEF Children
  <2> QED
    BY <1>1, <2>1
<1>2. CASE ExpandsNode(node)
  <2>1. Len(node) < maxDepth /\ TableOf(node) \in Defined /\ ~IsCycle(node)
    BY <1>2 DEF ExpandsNode
  <2>2. links[TableOf(node)] \in SUBSET (Int \X Int) /\ IsFiniteSet(links[TableOf(node)])
    BY <2>1, LinksAreLinks
  <2>3. /\ order \in Seq(links[TableOf(node)]) /\ Range(order) = links[TableOf(node)]
        /\ \A i, j \in DOMAIN order : order[i] = order[j] => i = j
    BY <2>2, InOrderIsOrder
  <2>4. Children(node) = [i \in DOMAIN order |-> Append(node, order[i])]
    BY <1>2 DEF Children
  <2> HIDE DEF order
  <2>5. DOMAIN Children(node) = DOMAIN order /\ DOMAIN order = 1..Len(order) /\ Len(order) \in Nat
    BY <2>3, <2>4
  <2>6. ASSUME NEW i \in DOMAIN order
        PROVE  /\ Children(node)[i] = Append(node, order[i]) /\ order[i] \in links[TableOf(node)]
               /\ Append(node, order[i]) \in Walks
               /\ Append(node, order[i])[Len(node) + 1] = order[i]
    <3>1. order[i] \in links[TableOf(node)]
      BY <2>3
    <3>2. GoesOn(node, order[i])
      BY <2>1, <3>1 DEF GoesOn
    <3>3. Append(node, order[i]) \in Walks /\ order[i] \in AllLinks
      BY <2>1, <3>2, WalkGoesOn
    <3>4. node \in Seq(AllLinks)
      BY WalkIs
    <3>5. Append(node, order[i])[Len(node) + 1] = order[i]
      BY <3>3, <3>4, AppendedIs
    <3> QED
      BY <2>4, <3>1, <3>3, <3>5
  <2>7. Children(node) \in Seq(Walks)
    <3>1. Children(node) \in [1..Len(order) -> Walks]
      BY <2>4, <2>5, <2>6
    <3> QED
      BY <2>5, <3>1
  <2>8. ASSUME NEW i \in DOMAIN order, NEW j \in DOMAIN order, Children(node)[i] = Children(node)[j]
        PROVE  i = j
    BY <2>3, <2>6, <2>8
  <2>9. ASSUME NEW l \in links[TableOf(node)] PROVE \E i \in DOMAIN order : Children(node)[i] = Append(node, l)
    <3>1. PICK i \in DOMAIN order : order[i] = l
      BY <2>3 DEF Range
    <3> QED
      BY <2>6, <3>1
  <2> QED
    BY <1>2, <2>5, <2>6, <2>7, <2>8, <2>9
<1> QED
  BY <1>1, <1>2

\* A node that is made leaves the tree below the cap, and its children are
\* new and waiting.
LEMMA TreeSteps ==
  ASSUME TreeIInv, BuildSubtree
  PROVE  TreeIInv'
<1> DEFINE node == Head(waiting)
           m == Len(waiting) - 1
           kids == Children(node)
           k == Len(kids)
<1>1. /\ Asked /\ waiting \in Seq(Walks) /\ waiting # <<>> /\ Cardinality(tree) < NodeCap
      /\ IsFiniteSet(tree) /\ Cardinality(tree) <= NodeCap /\ tree \subseteq Walks
      /\ tree' = tree \cup {node} /\ waiting' = kids \o Tail(waiting)
      /\ UNCHANGED linkVars
      /\ \A w \in tree : w # <<>> => Front(w) \in tree
      /\ \A i \in DOMAIN waiting :
            /\ waiting[i] \notin tree
            /\ waiting[i] # <<>> => Front(waiting[i]) \in tree
            /\ \A j \in DOMAIN waiting : waiting[i] = waiting[j] => i = j
      /\ \A w \in Walks : w \in tree \/ \E i \in DOMAIN waiting : Leads(waiting[i], w)
  <2>1. Cardinality(tree) # NodeCap
    <3>1. Cardinality(tree) \in Nat
      BY FS_CardinalityType DEF TreeIInv
    <3> QED
      BY <3>1, NodeCapAssumption DEF BuildSubtree
  <2> QED
    BY <2>1 DEF TreeIInv, BuildSubtree, LinksIInv
<1>2. LinksIInv' /\ Asked' /\ Walks' = Walks /\ UNCHANGED <<links, start, maxDepth>>
      /\ \A v, w : Leads(v, w)' <=> Leads(v, w)
  <2>1. LinksIInv' /\ UNCHANGED <<links, start, maxDepth>>
    BY <1>1, LinksUnchanged DEF TreeIInv, linkVars
  <2>2. Walks' = Walks
    BY <2>1 DEF Walks, AllLinks, IsCycle, TableOf, Ancestors, Defined
  <2> QED
    BY <2>1, <2>2 DEF LinksIInv, Leads
<1>3. /\ m \in Nat /\ Len(waiting) = m + 1 /\ DOMAIN waiting = 1..(m + 1)
      /\ node = waiting[1] /\ 1 \in DOMAIN waiting
      /\ Tail(waiting) \in Seq(Walks) /\ Len(Tail(waiting)) = m
      /\ \A i \in 1..m : Tail(waiting)[i] = waiting[i + 1] /\ i + 1 \in 1..(m + 1)
  BY <1>1, HeadAndTail
<1>4. node \in Walks /\ node \notin tree /\ (node # <<>> => Front(node) \in tree) /\ node \in Seq(AllLinks)
  <2>1. node \in Walks
    BY <1>1, <1>3
  <2> QED
    BY <1>1, <1>3, <2>1, WalkIs
<1> HIDE DEF node
<1>5. /\ kids \in Seq(Walks) /\ k \in Nat /\ DOMAIN kids = 1..k
      /\ \A i \in 1..k :
           /\ ExpandsNode(node)
           /\ \E l \in links[TableOf(node)] : kids[i] = Append(node, l)
           /\ \A j \in 1..k : kids[i] = kids[j] => i = j
      /\ ExpandsNode(node) => \A l \in links[TableOf(node)] : \E i \in 1..k : kids[i] = Append(node, l)
  <2>1. kids \in Seq(Walks)
    BY <1>1, <1>4, ChildrenAre
  <2>2. k \in Nat /\ DOMAIN kids = 1..k
    BY <2>1
  <2> QED
    BY <1>1, <1>4, <2>1, <2>2, ChildrenAre
<1> HIDE DEF kids
<1>6. /\ Len(waiting') = k + m /\ DOMAIN waiting' = 1..(k + m) /\ waiting' \in Seq(Walks)
      /\ \A i \in 1..k : i \in 1..(k + m) /\ waiting'[i] = kids[i]
      /\ \A i \in 1..(k + m) : i \notin 1..k => i - k \in 1..m /\ waiting'[i] = waiting[(i - k) + 1]
      /\ \A i \in 1..m : i + k \in 1..(k + m) /\ waiting'[i + k] = waiting[i + 1]
  <2> HIDE DEF m, k
  <2>1. Tail(waiting) \in Seq(Walks) /\ Len(Tail(waiting)) = m /\ kids \in Seq(Walks) /\ Len(kids) = k
        /\ m \in Nat /\ k \in Nat
    BY <1>3, <1>5 DEF k
  <2>2. /\ Len(waiting') = k + m /\ DOMAIN waiting' = 1..(k + m) /\ waiting' \in Seq(Walks)
        /\ \A i \in 1..k : i \in 1..(k + m) /\ waiting'[i] = kids[i]
        /\ \A i \in 1..(k + m) : i \notin 1..k => i - k \in 1..m /\ waiting'[i] = Tail(waiting)[i - k]
        /\ \A i \in 1..m : i + k \in 1..(k + m) /\ waiting'[i + k] = Tail(waiting)[i]
    <3>1. waiting' = kids \o Tail(waiting)
      BY <1>1
    <3>2. PICK t : t = Tail(waiting)
      OBVIOUS
    <3>3. t \in Seq(Walks) /\ Len(t) = m
      BY <2>1, <3>2
    <3>4. /\ kids \o t \in Seq(Walks) /\ Len(kids \o t) = k + m /\ DOMAIN (kids \o t) = 1..(k + m)
          /\ \A i \in 1..k : i \in 1..(k + m) /\ (kids \o t)[i] = kids[i]
          /\ \A i \in 1..(k + m) : i \notin 1..k => i - k \in 1..m /\ (kids \o t)[i] = t[i - k]
          /\ \A i \in 1..m : i + k \in 1..(k + m) /\ (kids \o t)[i + k] = t[i]
      BY <2>1, <3>3, JoinedIs
    <3>5. waiting' = kids \o t
      BY <3>1, <3>2
    <3> QED
      BY <3>2, <3>4, <3>5
  <2> QED
    BY <1>3, <2>2
<1> HIDE DEF k, m
<1>7. ASSUME NEW i \in 1..k
      PROVE  Front(kids[i]) = node /\ kids[i] # <<>> /\ kids[i] \notin tree' /\ kids[i] \in Walks
  <2>1. PICK l \in links[TableOf(node)] : kids[i] = Append(node, l)
    BY <1>5
  <2>2. kids[i] \in Walks
    BY <1>5
  <2>3. l \in AllLinks
    <3>1. GoesOn(node, l)
      BY <1>5 DEF ExpandsNode, GoesOn
    <3> QED
      BY <3>1 DEF GoesOn, AllLinks
  <2>4. Front(kids[i]) = node /\ kids[i] # <<>> /\ Len(kids[i]) = Len(node) + 1 /\ Len(node) \in Nat
    BY <1>4, <2>1, <2>3, AppendedIs
  <2>5. kids[i] # node
    BY <2>4
  <2> QED
    BY <1>1, <1>4, <2>2, <2>4, <2>5
<1>8. IsFiniteSet(tree') /\ Cardinality(tree') <= NodeCap /\ Cardinality(tree') = Cardinality(tree) + 1
      /\ Cardinality(tree) \in Nat
  <2>1. IsFiniteSet(tree \cup {node}) /\ Cardinality(tree \cup {node}) = Cardinality(tree) + 1
        /\ Cardinality(tree) \in Nat
    BY <1>1, <1>4, FS_AddElement, FS_CardinalityType
  <2> QED
    BY <1>1, <2>1, NodeCapAssumption
<1>9. tree' \subseteq Walks /\ \A w \in tree' : w # <<>> => Front(w) \in tree'
  BY <1>1, <1>4
<1>10. ASSUME NEW i \in DOMAIN waiting'
       PROVE  /\ waiting'[i] \notin tree'
              /\ waiting'[i] # <<>> => Front(waiting'[i]) \in tree'
              /\ \A j \in DOMAIN waiting' : waiting'[i] = waiting'[j] => i = j
  <2>1. ASSUME NEW j \in DOMAIN waiting', j \notin 1..k
        PROVE  /\ j - k \in 1..m /\ (j - k) + 1 \in DOMAIN waiting /\ waiting'[j] = waiting[(j - k) + 1]
               /\ waiting'[j] \notin tree'
               /\ waiting'[j] # <<>> => Front(waiting'[j]) \in tree
    <3>1. j - k \in 1..m /\ (j - k) + 1 \in DOMAIN waiting /\ waiting'[j] = waiting[(j - k) + 1]
      BY <1>3, <1>6, <2>1
    <3>2. (j - k) + 1 # 1
      BY <1>3, <1>5, <3>1
    <3>3. waiting[(j - k) + 1] # node /\ waiting[(j - k) + 1] \notin tree
      BY <1>1, <1>3, <3>1, <3>2
    <3> QED
      BY <1>1, <3>1, <3>3
  <2>2. ASSUME NEW j \in DOMAIN waiting', j \in 1..k
        PROVE  /\ waiting'[j] = kids[j] /\ waiting'[j] \notin tree' /\ waiting'[j] # <<>>
               /\ Front(waiting'[j]) = node
    BY <1>6, <1>7, <2>2
  <2>3. ASSUME NEW j \in DOMAIN waiting', waiting'[i] = waiting'[j] PROVE i = j
    <3>1. CASE i \in 1..k /\ j \in 1..k
      BY <1>5, <1>6, <2>3, <3>1
    <3>2. CASE i \notin 1..k /\ j \notin 1..k
      <4>1. (i - k) + 1 = (j - k) + 1
        BY <1>1, <2>1, <2>3, <3>2
      <4> QED
        BY <1>3, <1>5, <1>6, <4>1
    <3>3. CASE i \in 1..k /\ j \notin 1..k
      BY <1>4, <2>1, <2>2, <2>3, <3>3
    <3>4. CASE i \notin 1..k /\ j \in 1..k
      BY <1>4, <2>1, <2>2, <2>3, <3>4
    <3> QED
      BY <3>1, <3>2, <3>3, <3>4
  <2> QED
    BY <1>1, <2>1, <2>2, <2>3
<1>11. ASSUME Cardinality(tree') # NodeCap, NEW w \in Walks
       PROVE  w \in tree' \/ \E i \in DOMAIN waiting' : Leads(waiting'[i], w)
  <2>1. CASE w \in tree
    BY <1>1, <2>1
  <2>2. ASSUME NEW i \in DOMAIN waiting, i # 1, Leads(waiting[i], w)
        PROVE  \E j \in DOMAIN waiting' : Leads(waiting'[j], w)
    <3>1. i - 1 \in 1..m /\ (i - 1) + 1 = i
      BY <1>3, <2>2
    <3>2. (i - 1) + k \in DOMAIN waiting' /\ waiting'[(i - 1) + k] = waiting[i]
      BY <1>6, <3>1
    <3> QED
      BY <2>2, <3>2
  <2>3. ASSUME Leads(node, w)
        PROVE  w \in tree' \/ \E i \in DOMAIN waiting' : Leads(waiting'[i], w)
    <3> DEFINE n == Len(node)
    <3>1. w \in Seq(AllLinks) /\ Len(w) <= maxDepth /\ maxDepth \in Nat /\ n \in Nat /\ Len(w) \in Nat
      BY <1>1, <1>4, WalkIs DEF Asked
    <3>2. n <= Len(w) /\ SubSeq(w, 1, n) = node
      BY <2>3 DEF Leads
    <3>3. CASE n = Len(w)
      <4>1. SubSeq(w, 1, Len(w)) = w
        BY <3>1, PrefixIs
      <4>2. w = node
        BY <3>2, <3>3, <4>1
      <4> QED
        BY <1>1, <4>2
    <3>4. CASE n < Len(w)
      <4>1. GoesOn(node, w[n + 1])
        <5>1. n \in 0..Len(w)
          BY <3>1, <3>4
        <5> QED
          BY <1>1, <3>2, <3>4, <5>1, WalkBegins
      <4>2. ExpandsNode(node)
        <5>1. Len(node) < maxDepth /\ Cardinality(tree) + 1 < NodeCap
          <6>1. Len(node) < maxDepth
            BY <3>1, <3>4
          <6>2. Cardinality(tree) + 1 # NodeCap /\ Cardinality(tree) + 1 <= NodeCap /\ NodeCap \in Nat
            BY <1>8, <1>11, NodeCapAssumption
          <6> QED
            BY <1>8, <6>1, <6>2
        <5> QED
          BY <4>1, <5>1 DEF ExpandsNode, GoesOn
      <4>3. PICK i \in 1..k : kids[i] = Append(node, w[n + 1])
        BY <1>5, <4>1, <4>2 DEF GoesOn
      <4>4. kids[i] = SubSeq(w, 1, n + 1) /\ Len(kids[i]) = n + 1
        <5>1. SubSeq(w, 1, n + 1) = Append(SubSeq(w, 1, n), w[n + 1]) /\ w[n + 1] \in AllLinks
          <6> HIDE DEF n
          <6> QED
            BY <3>1, <3>4, OneMore
        <5> QED
          BY <1>4, <3>2, <4>3, <5>1, AppendedIs
      <4>5. Leads(kids[i], w)
        <5>1. n + 1 <= Len(w)
          BY <3>1, <3>4
        <5> QED
          BY <4>4, <5>1 DEF Leads
      <4> QED
        BY <1>6, <4>5
    <3> QED
      BY <3>1, <3>2, <3>3, <3>4
  <2>4. w \in tree \/ \E i \in DOMAIN waiting : Leads(waiting[i], w)
    BY <1>1
  <2> QED
    BY <1>3, <2>1, <2>2, <2>3, <2>4
<1> QED
  BY <1>2, <1>6, <1>8, <1>9, <1>10, <1>11 DEF TreeIInv

\* The walks depend on the schema and the question only.
LEMMA WalksStay ==
  ASSUME Asked, UNCHANGED <<links, start, maxDepth>>
  PROVE  Walks' = Walks
BY DEF Walks, AllLinks, IsCycle, TableOf, Ancestors, Defined

\* A step of the search leaves the tree alone.
LEMMA TreeUnchanged ==
  ASSUME TreeIInv, LinksIInv', UNCHANGED <<links, start, maxDepth, tree, waiting>>
  PROVE  TreeIInv'
<1>1. Walks' = Walks
  BY WalksStay DEF TreeIInv, LinksIInv
<1>2. \A v, w : Leads(v, w)' <=> Leads(v, w)
  BY DEF Leads
<1> QED
  BY <1>1, <1>2 DEF TreeIInv

\* The recursion stops at the cap only.
LEMMA TreeBreaksOff ==
  ASSUME TreeIInv, BreakOff
  PROVE  TreeIInv'
<1>1. tree' = tree /\ waiting' = <<>> /\ UNCHANGED linkVars /\ Cardinality(tree) >= NodeCap
  BY DEF BreakOff
<1>2. LinksIInv' /\ Walks' = Walks
  <2>1. UNCHANGED <<links, start, maxDepth>> /\ LinksIInv /\ Asked
    BY <1>1 DEF linkVars, TreeIInv, LinksIInv
  <2> QED
    BY <1>1, <2>1, LinksUnchanged, WalksStay
<1>3. Cardinality(tree) = NodeCap
  <2>1. Cardinality(tree) \in Nat /\ Cardinality(tree) <= NodeCap
    BY FS_CardinalityType DEF TreeIInv
  <2> QED
    BY <1>1, <2>1, NodeCapAssumption
<1>4. waiting' \in Seq(Walks) /\ DOMAIN waiting' = {}
  BY <1>1
<1> QED
  BY <1>1, <1>2, <1>3, <1>4 DEF TreeIInv

\* The tree's inductive invariant: what is made, waiting and to be reached
\* from what is waiting (build_dependency_subtree).
THEOREM TreeInvariant == TreeSpec => []TreeIInv
<1>1. TreeInit => TreeIInv
  BY TreeStart
<1>2. TreeIInv /\ [TreeNext]_treeVars => TreeIInv'
  <2> SUFFICES ASSUME TreeIInv, [TreeNext]_treeVars PROVE TreeIInv'
    OBVIOUS
  <2>1. CASE Visit /\ UNCHANGED <<tree, waiting>>
    <3>1. LinksIInv' /\ UNCHANGED <<links, start, maxDepth, tree, waiting>>
      BY <2>1, VisitKeeps DEF TreeIInv, Visit
    <3> QED
      BY <3>1, TreeUnchanged
  <2>2. CASE BuildSubtree
    BY <2>2, TreeSteps
  <2>3. CASE BreakOff
    BY <2>3, TreeBreaksOff
  <2>4. CASE UNCHANGED treeVars
    <3>1. UNCHANGED linkVars /\ UNCHANGED <<links, start, maxDepth, tree, waiting>>
      BY <2>4 DEF treeVars, linkVars
    <3> QED
      BY <3>1, LinksUnchanged, TreeUnchanged DEF TreeIInv
  <2> QED
    BY <2>1, <2>2, <2>3, <2>4 DEF TreeNext
<1> QED
  BY <1>1, <1>2, PTL DEF TreeSpec

-----------------------------------------------------------------------------
\* What the tree of all walks has to do with the search.

\* The root.
LEMMA FirstTable == TableOf(<<>>) = start /\ ~IsCycle(<<>>)
BY DEF TableOf, IsCycle

\* A walk of n links ends within n hops.
LEMMA WalksAreWithin ==
  ASSUME Asked, NEW w \in Walks
  PROVE  TableOf(w) \in Within[Len(w)] /\ Len(w) \in 0..maxDepth
<1> DEFINE n == Len(w)
           Good == {k \in Nat : k <= n => TableOf(SubSeq(w, 1, k)) \in Within[k]}
<1>1. w \in Seq(AllLinks) /\ n \in Nat /\ n <= maxDepth /\ maxDepth \in Nat
  BY WalkIs DEF Asked
<1> HIDE DEF n
<1>2. 0 \in Good
  <2>1. SubSeq(w, 1, 0) = <<>>
    BY <1>1
  <2> QED
    BY <2>1, FirstTable, WithinUnfolds
<1>3. ASSUME NEW k \in Nat, k \in Good PROVE k + 1 \in Good
  <2> SUFFICES ASSUME k + 1 <= n PROVE TableOf(SubSeq(w, 1, k + 1)) \in Within[k + 1]
    OBVIOUS
  <2> DEFINE p == SubSeq(w, 1, k)
             l == w[k + 1]
  <2>1. k \in 0..Len(w) /\ k < Len(w) /\ k < n
    BY <1>1 DEF n
  <2>2. p \in Walks /\ GoesOn(p, l) /\ p \in Seq(AllLinks)
    BY <1>1, <2>1, WalkBegins, WalkIs
  <2>3. SubSeq(w, 1, k + 1) = Append(p, l) /\ l \in AllLinks
    BY <1>1, <2>1, OneMore
  <2>4. TableOf(p) \in Within[k]
    BY <1>1, <1>3, <2>1
  <2> HIDE DEF p, l
  <2>5. TableOf(Append(p, l)) = l[2]
    <3>1. Append(p, l) # <<>> /\ Append(p, l)[Len(Append(p, l))] = l
      BY <2>2, <2>3, AppendedIs
    <3> QED
      BY <3>1 DEF TableOf
  <2>6. l[2] \in Within[k + 1]
    <3>1. Within[k + 1] = Onward(Within[k])
      BY WithinUnfolds
    <3>2. PICK s : s = TableOf(p)
      OBVIOUS
    <3>3. s \in Within[k] /\ s \in Defined /\ l \in links[s]
      BY <2>2, <2>4, <3>2 DEF GoesOn
    <3> QED
      BY <3>1, <3>3 DEF Onward
  <2> QED
    BY <2>3, <2>5, <2>6
<1> HIDE DEF Good
<1>4. n \in Good
  BY <1>1, <1>2, <1>3, EveryNatural
<1>5. SubSeq(w, 1, n) = w
  BY <1>1, PrefixIs DEF n
<1>6. TableOf(w) \in Within[n]
  <2>1. n <= n => TableOf(SubSeq(w, 1, n)) \in Within[n]
    BY <1>4 DEF Good
  <2>2. n <= n
    BY <1>1
  <2> QED
    BY <1>5, <2>1, <2>2
<1>7. n \in 0..maxDepth
  BY <1>1
<1> QED
  BY <1>6, <1>7 DEF n

\* A walk on which every table is new.
Nearest(w, t, n) ==
  /\ w \in Walks /\ Len(w) = n /\ TableOf(w) = t
  /\ \A k \in 0..n : IsAt(TableOf(SubSeq(w, 1, k)), k)

\* It has no cycle.
LEMMA NearestHasNoCycle ==
  ASSUME Asked, NEW n \in Nat, NEW t, NEW w, Nearest(w, t, n)
  PROVE  ~IsCycle(w)
<1> SUFFICES ASSUME w # <<>>, TableOf(w) \in Ancestors(w) PROVE FALSE
  BY DEF IsCycle
<1>1. /\ w \in Seq(AllLinks) /\ Len(w) = n /\ TableOf(w) = t
      /\ \A k \in 0..n : IsAt(TableOf(SubSeq(w, 1, k)), k)
  BY WalkIs DEF Nearest
<1>2. SubSeq(w, 1, n) = w /\ n \in 0..n /\ n # 0
  BY <1>1, PrefixIs
<1>3. IsAt(t, n)
  BY <1>1, <1>2
<1>4. CASE TableOf(w) = start
  <2>1. SubSeq(w, 1, 0) = <<>> /\ 0 \in 0..n
    BY <1>1
  <2>2. IsAt(start, 0)
    BY <1>1, <2>1, FirstTable
  <2> QED
    BY <1>1, <1>2, <1>3, <1>4, <2>2, OneDistance
<1>5. ASSUME NEW i \in 1..n - 1, TableOf(w) = w[i][2] PROVE FALSE
  <2>1. i \in 0..n /\ i # 0 /\ i \in 0..Len(w) /\ i # n /\ i \in 1..i
    BY <1>1
  <2> DEFINE p == SubSeq(w, 1, i)
  <2>2. Len(p) = i /\ p[i] = w[i]
    BY <1>1, <2>1, PrefixIs
  <2>3. IsAt(TableOf(p), i)
    BY <1>1, <2>1
  <2> HIDE DEF p
  <2>4. TableOf(p) = w[i][2]
    <3>1. p # <<>>
      BY <2>1, <2>2
    <3> QED
      BY <2>2, <3>1 DEF TableOf
  <2> QED
    BY <1>1, <1>3, <1>5, <2>1, <2>3, <2>4, OneDistance
<1> QED
  BY <1>1, <1>4, <1>5 DEF Ancestors

\* It leads to every table that is near enough.
LEMMA NearestExists ==
  ASSUME Asked, NEW n \in Nat, n <= maxDepth, NEW t, IsAt(t, n)
  PROVE  \E w : Nearest(w, t, n)
<1> DEFINE Good == {k \in Nat : k <= maxDepth => \A u \in LinkedTable : IsAt(u, k) => \E w : Nearest(w, u, k)}
<1>0. maxDepth \in Nat
  BY DEF Asked
<1>1. 0 \in Good
  <2> SUFFICES ASSUME NEW u \in LinkedTable, IsAt(u, 0) PROVE \E w : Nearest(w, u, 0)
    OBVIOUS
  <2>1. u = start
    BY WithinUnfolds DEF IsAt
  <2>2. <<>> \in Walks /\ Len(<<>>) = 0 /\ SubSeq(<<>>, 1, 0) = <<>>
    BY EmptyWalk
  <2>3. \A k \in 0..0 : k = 0
    OBVIOUS
  <2>4. Nearest(<<>>, u, 0)
    BY <2>1, <2>2, <2>3, FirstTable DEF Nearest
  <2> QED
    BY <2>4
<1>2. ASSUME NEW k \in Nat, k \in Good PROVE k + 1 \in Good
  <2> SUFFICES ASSUME k + 1 <= maxDepth, NEW u \in LinkedTable, IsAt(u, k + 1)
               PROVE  \E w : Nearest(w, u, k + 1)
    OBVIOUS
  <2>1. u \in Within[k + 1] /\ u \notin Within[k] /\ Within[k + 1] = Onward(Within[k])
    <3>1. k \in 0..(k + 1) - 1
      OBVIOUS
    <3> QED
      BY <3>1, WithinUnfolds DEF IsAt
  <2>2. PICK s, l : s \in Within[k] /\ s \in Defined /\ l \in links[s] /\ l[2] = u
    BY <2>1 DEF Onward
  <2>3. IsAt(s, k)
    <3>1. ASSUME NEW m \in 0..k - 1, s \in Within[m] PROVE FALSE
      <4>1. u \in Within[m + 1]
        BY <2>2, <3>1, WithinUnfolds DEF Onward
      <4>2. m + 1 \in 0..(k + 1) - 1
        BY <3>1
      <4> QED
        BY <4>1, <4>2 DEF IsAt
    <3> QED
      BY <2>2, <3>1 DEF IsAt
  <2>4. s \in LinkedTable /\ k <= maxDepth
    BY <1>0, <2>2 DEF Asked
  <2>5. PICK w : Nearest(w, s, k)
    BY <1>2, <2>3, <2>4
  <2>6. ~IsCycle(w)
    BY <2>5, NearestHasNoCycle
  <2>7. /\ w \in Walks /\ Len(w) = k /\ TableOf(w) = s /\ w \in Seq(AllLinks)
        /\ \A j \in 0..k : IsAt(TableOf(SubSeq(w, 1, j)), j)
    BY <2>5, WalkIs DEF Nearest
  <2>8. GoesOn(w, l) /\ Len(w) < maxDepth
    BY <1>0, <2>2, <2>6, <2>7 DEF GoesOn
  <2>9. Append(w, l) \in Walks /\ l \in AllLinks
    BY <2>7, <2>8, WalkGoesOn
  <2> DEFINE v == Append(w, l)
  <2>10. /\ Len(v) = k + 1 /\ v # <<>> /\ v[k + 1] = l /\ v \in Seq(AllLinks)
         /\ \A j \in 0..k : SubSeq(v, 1, j) = SubSeq(w, 1, j)
    BY <2>7, <2>9, AppendedIs
  <2>11. SubSeq(v, 1, k + 1) = v
    BY <2>10, PrefixIs
  <2> HIDE DEF v
  <2>12. TableOf(v) = u
    BY <2>2, <2>10 DEF TableOf
  <2>13. ASSUME NEW j \in 0..(k + 1) PROVE IsAt(TableOf(SubSeq(v, 1, j)), j)
    <3>1. CASE j = k + 1
      BY <2>11, <2>12, <3>1
    <3>2. CASE j # k + 1
      <4>1. j \in 0..k
        BY <3>2
      <4> QED
        BY <2>7, <2>10, <4>1
    <3> QED
      BY <3>1, <3>2
  <2>14. Nearest(v, u, k + 1)
    BY <2>9, <2>10, <2>12, <2>13 DEF Nearest, v
  <2> QED
    BY <2>14
<1> HIDE DEF Good
<1>3. n \in Good
  BY <1>1, <1>2, EveryNatural
<1>4. t \in LinkedTable
  BY WithinUnfolds DEF IsAt
<1> QED
  BY <1>3, <1>4 DEF Good

\* The walks end at the tables the search found.
LEMMA WalksEndWhereFound ==
  ASSUME LinksIInv, frontier = <<>>
  PROVE  {TableOf(w) : w \in Walks} \ {start} = {r.table : r \in found}
<1>1. /\ Asked /\ maxDepth \in Nat
      /\ visited = {start} \cup {r.table : r \in found}
  BY DEF LinksIInv, Asked
<1>2. Within[maxDepth] \subseteq visited
  BY <1>1, NearIsVisited
<1>3. ASSUME NEW w \in Walks PROVE TableOf(w) \in visited
  <2>1. TableOf(w) \in Within[Len(w)] /\ Len(w) \in 0..maxDepth
    BY <1>1, WalksAreWithin
  <2>2. Within[Len(w)] \subseteq Within[maxDepth]
    BY <1>1, <2>1, WithinGrows
  <2> QED
    BY <1>2, <2>1, <2>2
<1>4. ASSUME NEW r \in found PROVE r.table # start /\ \E w \in Walks : TableOf(w) = r.table
  <2>1. IsHop(r) /\ r.depth >= 1
    BY DEF LinksIInv
  <2>2. r.depth \in Nat /\ r.depth <= maxDepth /\ IsAt(r.table, r.depth)
    BY <2>1 DEF IsHop, Hop
  <2>3. PICK w : Nearest(w, r.table, r.depth)
    BY <1>1, <2>2, NearestExists
  <2>4. r.table # start
    <3>1. 0 \in 0..r.depth - 1
      BY <2>1, <2>2
    <3>2. r.table \notin Within[0] /\ Within[0] = {start}
      BY <1>1, <2>2, <3>1, WithinUnfolds DEF IsAt
    <3> QED
      BY <3>2
  <2> QED
    BY <2>3, <2>4 DEF Nearest
<1> QED
  BY <1>1, <1>3, <1>4

\* The walks of one link.
LEMMA FirstWalks ==
  ASSUME Asked, maxDepth > 0
  PROVE  /\ \A l : <<l>> \in Walks <=> start \in Defined /\ l \in links[start]
         /\ \A w \in Walks : Len(w) = 1 => w = <<w[1]>>
<1>1. ASSUME NEW l, <<l>> \in Walks PROVE start \in Defined /\ l \in links[start]
  <2> DEFINE w == <<l>>
  <2>1. Len(w) = 1 /\ 0 \in 0..Len(w) /\ 0 < Len(w) /\ SubSeq(w, 1, 0) = <<>> /\ w[0 + 1] = l /\ w \in Walks
    BY <1>1
  <2> HIDE DEF w
  <2>2. GoesOn(<<>>, l)
    <3>1. GoesOn(SubSeq(w, 1, 0), w[0 + 1])
      BY <2>1, WalkBegins
    <3> QED
      BY <2>1, <3>1
  <2> QED
    BY <2>2, FirstTable DEF GoesOn
<1>2. ASSUME NEW l, start \in Defined, l \in links[start] PROVE <<l>> \in Walks
  <2>1. GoesOn(<<>>, l)
    BY <1>2, FirstTable DEF GoesOn
  <2>2. <<>> \in Walks /\ Len(<<>>) = 0 /\ Append(<<>>, l) = <<l>>
    BY EmptyWalk
  <2> QED
    BY <2>1, <2>2, WalkGoesOn
<1>3. ASSUME NEW w \in Walks, Len(w) = 1 PROVE w = <<w[1]>>
  <2>1. w \in Seq(AllLinks)
    BY WalkIs
  <2> QED
    BY <1>3, <2>1
<1> QED
  BY <1>1, <1>2, <1>3

\* The first level of the tree are the links that are reported.
LEMMA FirstLevel ==
  ASSUME Asked, maxDepth > 0, NEW t, NEW l \in AllLinks, l[2] = t
  PROVE  <<l>> \in Walks <=> <<start, l[1]>> \in Referencing(t)
<1>1. l = <<l[1], l[2]>>
  BY LinksAreLinks DEF AllLinks
<1>2. <<start, l[1]>> \in Referencing(t) <=>
        \E s \in Defined : \E k \in links[s] : k[2] = t /\ s = start /\ k[1] = l[1]
  BY DEF Referencing
<1>3. \A s \in Defined : \A k \in links[s] : k = <<k[1], k[2]>>
  BY LinksAreLinks
<1>4. <<start, l[1]>> \in Referencing(t) <=> start \in Defined /\ l \in links[start]
  BY <1>1, <1>2, <1>3
<1> QED
  BY <1>4, FirstWalks

\* The siblings of the root.
LEMMA RootSiblings ==
  ASSUME Asked, maxDepth > 0
  PROVE  Siblings(start) =
           UNION {{<<r[1], TableOf(w), r[2]>> : r \in {p \in Referencing(TableOf(w)) : p[1] # start}} :
                    w \in {v \in Walks : Len(v) = 1}}
<1> DEFINE R(w) == {<<r[1], TableOf(w), r[2]>> : r \in {p \in Referencing(TableOf(w)) : p[1] # start}}
           Rs == UNION {R(w) : w \in {v \in Walks : Len(v) = 1}}
           S(s) == {<<s, l[2], l[1]>> : l \in {k \in links[s] : k[2] \in {h[2] : h \in links[start]}}}
<1>1. ASSUME NEW w \in Walks, Len(w) = 1
      PROVE  start \in Defined /\ w[1] \in links[start] /\ TableOf(w) = w[1][2]
  <2>1. w = <<w[1]>>
    BY <1>1, FirstWalks
  <2>2. w # <<>> /\ TableOf(w) = w[1][2]
    <3>1. PICK h : h = w[1]
      OBVIOUS
    <3>2. w = <<h>>
      BY <2>1, <3>1
    <3>3. TableOf(<<h>>) = h[2] /\ <<h>> # <<>>
      BY DEF TableOf
    <3> QED
      BY <3>1, <3>2, <3>3
  <2> QED
    BY <2>1, <2>2, FirstWalks
<1>2. ASSUME NEW t, NEW r
      PROVE  r \in Referencing(t) <=> \E s \in Defined : \E k \in links[s] : k[2] = t /\ r = <<s, k[1]>>
  BY DEF Referencing
<1>3. ASSUME start \notin Defined PROVE Siblings(start) = Rs
  <2>1. Siblings(start) = {}
    BY <1>3 DEF Siblings
  <2>2. {v \in Walks : Len(v) = 1} = {}
    BY <1>1, <1>3
  <2> QED
    BY <2>1, <2>2
<1>4. ASSUME start \in Defined PROVE Siblings(start) = Rs
  <2>1. Siblings(start) = UNION {S(s) : s \in Defined \ {start}}
    BY <1>4 DEF Siblings
  <2>2. ASSUME NEW s \in Defined, s # start, NEW k \in links[s], NEW h \in links[start], k[2] = h[2]
        PROVE  <<s, k[2], k[1]>> \in Rs
    <3> DEFINE w == <<h>>
    <3>1. w \in Walks /\ Len(w) = 1 /\ w[1] = h
      BY <1>4, FirstWalks
    <3> HIDE DEF w
    <3>2. TableOf(w) = h[2]
      BY <1>1, <3>1
    <3>3. <<s, k[1]>> \in Referencing(TableOf(w))
      BY <1>2, <2>2, <3>2
    <3>4. <<s, k[1]>>[1] = s /\ <<s, k[1]>>[2] = k[1]
      OBVIOUS
    <3>5. <<s, TableOf(w), k[1]>> \in R(w)
      BY <2>2, <3>3, <3>4
    <3> HIDE DEF R
    <3> QED
      BY <2>2, <3>1, <3>2, <3>5
  <2>3. ASSUME NEW x \in Rs PROVE \E s \in Defined \ {start} : x \in S(s)
    <3>1. PICK w \in Walks : Len(w) = 1 /\ x \in R(w)
      OBVIOUS
    <3>2. PICK r \in Referencing(TableOf(w)) : r[1] # start /\ x = <<r[1], TableOf(w), r[2]>>
      BY <3>1
    <3>3. PICK s, k : s \in Defined /\ k \in links[s] /\ k[2] = TableOf(w) /\ r = <<s, k[1]>>
      BY <1>2, <3>2
    <3>4. TableOf(w) \in {h[2] : h \in links[start]}
      BY <1>1, <3>1
    <3>5. x = <<s, k[2], k[1]>> /\ s # start
      BY <3>2, <3>3
    <3> QED
      BY <3>3, <3>4, <3>5
  <2>4. ASSUME NEW x \in Siblings(start) PROVE x \in Rs
    <3>1. PICK s \in Defined \ {start} : x \in S(s)
      BY <2>1
    <3>2. PICK k \in links[s] : k[2] \in {h[2] : h \in links[start]} /\ x = <<s, k[2], k[1]>>
      BY <3>1
    <3> HIDE DEF Rs
    <3> QED
      BY <2>2, <3>2
  <2> QED
    BY <2>1, <2>3, <2>4
<1> QED
  BY <1>3, <1>4

\* The tree's invariant says that the tree is right when nothing is waiting.
LEMMA TreeInvariantSuffices == TreeIInv => TreeIsComplete
<1> SUFFICES ASSUME TreeIInv, frontier = <<>>, waiting = <<>> PROVE
      /\ tree \subseteq Walks /\ Cardinality(tree) <= NodeCap
      /\ tree = Walks \/ Cardinality(tree) = NodeCap
      /\ \A w \in tree : w # <<>> => Front(w) \in tree
      /\ tree = Walks =>
           /\ {TableOf(w) : w \in tree} \ {start} = {r.table : r \in found}
           /\ maxDepth > 0 => \A t \in LinkedTable, l \in AllLinks :
                l[2] = t => (<<l>> \in tree <=> <<start, l[1]>> \in Referencing(t))
           /\ maxDepth > 0 =>
                Siblings(start) = UNION {{<<r[1], TableOf(w), r[2]>> : r \in {p \in Referencing(TableOf(w)) : p[1] # start}} :
                                           w \in {v \in tree : Len(v) = 1}}
  BY DEF TreeIsComplete
<1>1. LinksIInv /\ Asked
  BY DEF TreeIInv, LinksIInv
<1>2. tree \subseteq Walks /\ Cardinality(tree) <= NodeCap /\ \A w \in tree : w # <<>> => Front(w) \in tree
  BY DEF TreeIInv
<1>3. tree = Walks \/ Cardinality(tree) = NodeCap
  <2>1. DOMAIN waiting = {}
    OBVIOUS
  <2> QED
    BY <1>2, <2>1 DEF TreeIInv
<1>4. tree = Walks => {TableOf(w) : w \in tree} \ {start} = {r.table : r \in found}
  BY <1>1, WalksEndWhereFound
<1>5. tree = Walks /\ maxDepth > 0 => \A t \in LinkedTable, l \in AllLinks :
        l[2] = t => (<<l>> \in tree <=> <<start, l[1]>> \in Referencing(t))
  BY <1>1, FirstLevel
<1>6. tree = Walks /\ maxDepth > 0 =>
        Siblings(start) = UNION {{<<r[1], TableOf(w), r[2]>> : r \in {p \in Referencing(TableOf(w)) : p[1] # start}} :
                                   w \in {v \in tree : Len(v) = 1}}
  BY <1>1, RootSiblings
<1> QED
  BY <1>2, <1>3, <1>4, <1>5, <1>6

\* In every schema: the tree has a node for every walk or as many as the cap,
\* and agrees with the search and with the references where it is whole
\* (tables_reachable_from, dependency_tree, tables_referencing, siblings_of).
THEOREM TraversalCompleteness == TreeSpec => []TraversalsAreComplete
<1>1. TreeIInv => TraversalsAreComplete
  BY TreeInvariantSuffices, FoundIsNearest DEF TraversalsAreComplete, TreeIInv
<1> QED
  BY <1>1, TreeInvariant, PTL
=============================================================================
