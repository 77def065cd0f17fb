---------------------------- MODULE RecordLinks ----------------------------
(***************************************************************************)
(* The record links of a schema (src/schema_graph.rs): a field of type     *)
(* record<t> links its table to t, which need not be defined.  Modelled    *)
(* here is tables_reachable_from, a breadth-first search with one step per *)
(* table taken from the queue, and tables_referencing, its reverse.        *)
(* Tables are numbers; a link is a pair of a field and a table, taken in   *)
(* ascending order where the code takes fields as they were defined.       *)
(***************************************************************************)
EXTENDS Integers, Sequences, SequencesExt, FiniteSets

CONSTANTS
  LinkedTable,   \* tables that may be defined or linked to
  LinkSets,      \* sets of links a table may have
  MaxHops        \* bound: the largest max_depth that is asked for

\* A schema has finitely many tables, each with finitely many fields.
ASSUME LinksAssumption ==
  /\ LinkedTable \in SUBSET Int /\ IsFiniteSet(LinkedTable)
  /\ \A L \in LinkSets : L \in SUBSET (Int \X LinkedTable) /\ IsFiniteSet(L)
  /\ MaxHops \in Nat

VARIABLES
  links,         \* the links of each defined table
  start,         \* where the search starts
  maxDepth,      \* how many hops it may take
  visited,       \* tables that were seen
  found,         \* the results: table, depth and path
  frontier       \* the queue

linkVars == <<links, start, maxDepth, visited, found, frontier>>

Defined == DOMAIN links
Before(a, b) == a[1] < b[1] \/ (a[1] = b[1] /\ a[2] < b[2])
InOrder(L) ==
  CHOOSE s \in [1..Cardinality(L) -> L] : \A i, j \in DOMAIN s : i < j => Before(s[i], s[j])

LinksInit ==
  /\ links \in UNION {[T -> LinkSets] : T \in SUBSET LinkedTable}
  /\ start \in LinkedTable
  /\ maxDepth \in 0..MaxHops
  /\ visited = {start}
  /\ found = {}
  /\ frontier = IF start \in Defined THEN <<[table |-> start, depth |-> 0, path |-> <<>>]>>
                ELSE <<>>

\* Faulty variant: one hop more.
ExpandsBeyond(node) == node.depth <= maxDepth /\ node.table \in Defined

Expands(node) == node.depth < maxDepth /\ node.table \in Defined

\* A link to a table that was not seen yet is a result and is queued.
Follow(node, acc, link) ==
  LET next == [table |-> link[2], depth |-> node.depth + 1,
               path |-> Append(node.path, <<node.table, link[1]>>)]
  IN  IF link[2] \in acc.visited THEN acc
      ELSE [visited |-> acc.visited \cup {link[2]}, new |-> Append(acc.new, next)]

\* One iteration of the loop.
Visit ==
  /\ frontier # <<>>
  /\ LET node == Head(frontier)
         seen == FoldLeft(LAMBDA acc, l : Follow(node, acc, l),
                          [visited |-> visited, new |-> <<>>],
                          IF Expands(node) THEN InOrder(links[node.table]) ELSE <<>>)
     IN  /\ visited' = seen.visited
         /\ found' = found \cup Range(seen.new)
         /\ frontier' = Tail(frontier) \o seen.new
  /\ UNCHANGED <<links, start, maxDepth>>

LinksNext == Visit

LinksSpec == LinksInit /\ [][LinksNext]_linkVars

\* tables_referencing: the tables and fields that link to t.
Referencing(t) == UNION {{<<s, l[1]>> : l \in {k \in links[s] : k[2] = t}} : s \in Defined}

\* siblings_of: the other tables that link to what t links to.
Siblings(t) ==
  IF t \notin Defined THEN {}
  ELSE LET targets == {l[2] : l \in links[t]}
       IN  UNION {{<<s, l[2], l[1]>> : l \in {k \in links[s] : k[2] \in targets}} : s \in Defined \ {t}}

-----------------------------------------------------------------------------
\* The tables within n hops of the start.
Within == LET B[n \in Nat] ==
                IF n = 0 THEN {start}
                ELSE B[n - 1] \cup UNION {{l[2] : l \in links[t]} : t \in B[n - 1] \cap Defined}
          IN  B

\* A path leads from the start, link by link, to a table.
LeadsTo(path, t) ==
  /\ path # <<>> /\ path[1][1] = start
  /\ \A i \in DOMAIN path :
       LET to == IF i = Len(path) THEN t ELSE path[i + 1][1]
       IN  path[i][1] \in Defined /\ <<path[i][2], to>> \in links[path[i][1]]

\* The search's variables keep their types, and the queue holds what was
\* found, in the order of distance.
LinksTypeOK ==
  /\ visited \subseteq LinkedTable
  /\ \A r \in found : r.table \in visited \ {start} /\ r.depth \in 1..maxDepth
  /\ \A i, j \in DOMAIN frontier : i < j => frontier[i].depth <= frontier[j].depth

\* tables_reachable_from returns every table within max_depth hops, defined
\* or not, once, at its distance and with a path of links that long that
\* does lead to it; and no other.
ReachableIsNearest ==
  frontier = <<>> =>
    /\ {<<r.table, r.depth>> : r \in found} =
         {p \in LinkedTable \X (1..maxDepth) :
            start \in Defined /\ p[1] \in Within[p[2]] \ Within[p[2] - 1]}
    /\ \A r \in found : Len(r.path) = r.depth /\ LeadsTo(r.path, r.table)
    /\ \A r, s \in found : r.table = s.table => r = s
=============================================================================
