-------------------------- MODULE TopologicalSort --------------------------
(***************************************************************************)
(* topological_sort (overshift/src/schema.rs): Kahn's algorithm over the   *)
(* schema modules of a manifest, in the order they were listed.  A module  *)
(* is a name, here a number so that sorting names is sorting numbers, and  *)
(* the sequence of names it depends on.  Nothing forbids two modules of    *)
(* the same name or a dependency that is listed twice.  An iteration of    *)
(* the loop is one step.                                                   *)
(***************************************************************************)
EXTENDS Integers, Sequences, FiniteSets

CONSTANTS
  ModuleConfig,   \* modules: a name, a number, and the names it depends on
  MaxModules,     \* bound: modules in the manifest
  MaxDependsOn    \* no depends_on is longer

ASSUME SortAssumption ==
  /\ MaxModules \in Nat /\ MaxDependsOn \in Nat
  /\ \A c \in ModuleConfig :
       c.name \in Nat /\ c.dependsOn \in Seq(Nat) /\ Len(c.dependsOn) <= MaxDependsOn

VARIABLES
  modules,        \* the list to sort
  inDegree,       \* for each name, the dependencies that are not placed yet
  queue,          \* names that may be placed
  result,         \* positions in the list, in the order found
  outcome         \* "running", "ok", "unknown" or "circular"

sortVars == <<modules, inDegree, queue, result, outcome>>

Names == {modules[i].name : i \in DOMAIN modules}

\* An entry of a depends_on: the module's position and the entry's.
Entries == {e \in (DOMAIN modules) \X (1..MaxDependsOn) : e[2] \in DOMAIN modules[e[1]].dependsOn}
Dependent(e) == modules[e[1]].name
DependsOn(e) == modules[e[1]].dependsOn[e[2]]

\* Faulty variant: a dependency listed twice counts once, although it is
\* subtracted twice.
InDegreeOnce(n) == Cardinality({DependsOn(e) : e \in {d \in Entries : Dependent(d) = n}})

InitialInDegree(n) == Cardinality({e \in Entries : Dependent(e) = n})

\* The names in order: at each place, the one with as many smaller ones.
Sorted(S) == [i \in 1..Cardinality(S) |-> CHOOSE n \in S : Cardinality({m \in S : m < n}) = i - 1]

\* A HashMap from name to module: the last of a name is kept.
ModuleMap(n) == CHOOSE i \in DOMAIN modules :
  modules[i].name = n /\ \A j \in DOMAIN modules : modules[j].name = n => j <= i

Unknown == \E e \in Entries : DependsOn(e) \notin Names

SortInit ==
  /\ \E n \in 0..MaxModules : modules \in [1..n -> ModuleConfig]
  /\ inDegree = [n \in Names |-> InitialInDegree(n)]
  /\ queue = Sorted({n \in Names : InitialInDegree(n) = 0})
  /\ result = <<>>
  /\ outcome = IF Unknown THEN "unknown" ELSE "running"

\* How many of n's entries name d.
Released(d, n) == Cardinality({e \in Entries : Dependent(e) = n /\ DependsOn(e) = d})

\* Faulty variant: a module is queued as soon as one dependency is placed.
FreedBy(d, left) == {n \in Names : Released(d, n) > 0}

\* The names whose last dependency was d.
Freed(d, left) == {n \in Names : Released(d, n) > 0 /\ left[n] = 0}

\* One iteration: the name at the front is placed, and what only waited for
\* it is queued.
Place ==
  /\ outcome = "running" /\ queue # <<>>
  /\ LET d == Head(queue)
         left == [n \in Names |-> inDegree[n] - Released(d, n)]
     IN  /\ result' = Append(result, ModuleMap(d))
         /\ inDegree' = left
         /\ queue' = Tail(queue) \o Sorted(Freed(d, left))
  /\ UNCHANGED <<modules, outcome>>

\* The queue is empty: every module was placed, or there is a cycle.
EndSort ==
  /\ outcome = "running" /\ queue = <<>>
  /\ outcome' = IF Len(result) = Len(modules) THEN "ok" ELSE "circular"
  /\ UNCHANGED <<modules, inDegree, queue, result>>

SortNext == Place \/ EndSort

SortSpec == SortInit /\ [][SortNext]_sortVars

-----------------------------------------------------------------------------
\* The sort's variables keep their types: no counter goes below zero.
SortTypeOK ==
  /\ modules \in Seq(ModuleConfig)
  /\ inDegree \in [Names -> Nat]
  /\ queue \in Seq(Names)
  /\ result \in Seq(DOMAIN modules)
  /\ outcome \in {"running", "ok", "unknown", "circular"}

\* A set of names that all depend on another one of the set.
Cyclic == \E S \in (SUBSET Names) \ {{}} :
  \A n \in S : \E e \in Entries : Dependent(e) = n /\ DependsOn(e) \in S

DuplicateNames == Cardinality(Names) < Len(modules)

\* What topological_sort returns has every module once, and after all the
\* modules it depends on.
SortedIsTopological ==
  outcome = "ok" =>
    /\ {result[i] : i \in DOMAIN result} = DOMAIN modules
    /\ \A i, j \in DOMAIN result, e \in Entries :
         e[1] = result[i] /\ DependsOn(e) = modules[result[j]].name => j < i

\* A manifest is refused as circular only when its modules do depend on each
\* other in a circle, or, which the message does not say, when two of them
\* have the same name.
RefusedIsCircular == outcome = "circular" => Cyclic \/ DuplicateNames

\* The sort gives every module after those it depends on and refuses only
\* circular dependencies and duplicate names (schema.rs 73-150).
SortIsRight == SortedIsTopological /\ RefusedIsCircular
=============================================================================
