--------------------------- MODULE DependencyTree ---------------------------
(***************************************************************************)
(* dependency_tree (src/schema_graph.rs): the record links followed from a *)
(* table, as a tree.  A node is the sequence of links that leads to it, a  *)
(* link being the pair of a field and its target; the root is <<>>.  A     *)
(* step is one call of the recursion, depth first; the calls that are      *)
(* still to be made are in "waiting".  The number of nodes made so far is  *)
(* capped.  The tree is asked for when the search is over.                 *)
(***************************************************************************)
EXTENDS RecordLinks

CONSTANT NodeCap   \* no node is added once there are so many: 1000 in the code

ASSUME NodeCapAssumption == NodeCap \in Nat \ {0}

VARIABLES
  tree,          \* the nodes
  waiting        \* children whose subtrees are not built yet, the next one first

treeVars == <<links, start, maxDepth, visited, found, frontier, tree, waiting>>

Ancestors(node) == {start} \cup {node[i][2] : i \in 1..Len(node) - 1}
TableOf(node) == IF node = <<>> THEN start ELSE node[Len(node)][2]
IsCycle(node) == node # <<>> /\ TableOf(node) \in Ancestors(node)

TreeInit ==
  /\ LinksInit
  /\ tree = {} /\ waiting = << <<>> >>

\* Faulty variant: a table is only expanded where it is met first.
ExpandsOnce(node) ==
  /\ Len(node) < maxDepth /\ Cardinality(tree) + 1 < NodeCap /\ TableOf(node) \in Defined
  /\ \A other \in tree : TableOf(other) # TableOf(node)

\* The node is counted by then.
ExpandsNode(node) ==
  /\ Len(node) < maxDepth /\ Cardinality(tree) + 1 < NodeCap /\ TableOf(node) \in Defined
  /\ ~IsCycle(node)

Children(node) ==
  LET order == InOrder(links[TableOf(node)])
  IN  IF ExpandsNode(node) THEN [i \in DOMAIN order |-> Append(node, order[i])] ELSE <<>>

\* build_dependency_subtree
BuildSubtree ==
  /\ frontier = <<>> /\ waiting # <<>> /\ Cardinality(tree) < NodeCap
  /\ tree' = tree \cup {Head(waiting)}
  /\ waiting' = Children(Head(waiting)) \o Tail(waiting)
  /\ UNCHANGED linkVars

\* The loops over children break.
BreakOff ==
  /\ frontier = <<>> /\ waiting # <<>> /\ Cardinality(tree) >= NodeCap
  /\ waiting' = <<>>
  /\ UNCHANGED tree /\ UNCHANGED linkVars

TreeNext == (Visit /\ UNCHANGED <<tree, waiting>>) \/ BuildSubtree \/ BreakOff

TreeSpec == TreeInit /\ [][TreeNext]_treeVars

-----------------------------------------------------------------------------
AllLinks == UNION {links[t] : t \in Defined}

\* The walks along links in which only the last table may come twice.
Walks ==
  {w \in UNION {[1..n -> AllLinks] : n \in 0..maxDepth} :
     \A i \in DOMAIN w :
       LET prefix == SubSeq(w, 1, i - 1)
       IN  ~IsCycle(prefix) /\ TableOf(prefix) \in Defined /\ w[i] \in links[TableOf(prefix)]}

\* dependency_tree has a node for every such walk, or exactly as many nodes
\* as the cap, each below its parent; the tables in a complete tree are those
\* tables_reachable_from finds, its first level are the links
\* tables_referencing reports, and the siblings of its root are the other
\* tables that reference one of them.
TreeIsComplete ==
  frontier = <<>> /\ waiting = <<>> =>
    /\ tree \subseteq Walks /\ Cardinality(tree) <= NodeCap
    /\ tree = Walks \/ Cardinality(tree) = NodeCap
    /\ \A w \in tree : w # <<>> => Front(w) \in tree
    /\ tree = Walks =>
         /\ {TableOf(w) : w \in tree} \ {start} = {r.table : r \in found}
         /\ maxDepth > 0 => \A t \in LinkedTable, l \in AllLinks :
              l[2] = t => (<<l>> \in tree <=> <<start, l[1]>> \in Referencing(t))
         /\ maxDepth > 0 =>
              Siblings(start) = UNION {{<<r[1], TableOf(w), r[2]>> : r \in {p \in Referencing(TableOf(w)) : p[1] # start}} :
                                         w \in {v \in tree : Len(v) = 1}}

\* A traversal that is cut at a depth and a number of nodes still gives the
\* nearest tables, at their depth, and the tree the right branches
\* (tables_reachable_from, dependency_tree, schema_graph.rs).
TraversalsAreComplete == TreeIsComplete /\ ReachableIsNearest
=============================================================================
