---------------------------- MODULE MCOvershift ----------------------------
EXTENDS Overshift, TLC

CONSTANTS r1, r2, r3, x, y

MCVersion == {1, 2}
TwoModules == {1, 2}

Files(second, schemaText, downs) ==
  [migrations |-> (1 :> x @@ 2 :> second),
   modules |-> [n \in Module |-> schemaText],
   downs |-> downs]

\* A database nothing was ever deployed to.
Nothing == [migrations |-> <<>>, modules |-> <<>>, downs |-> {}]

\* A release, the next one with another schema, one in which the second
\* migration was edited, and one whose second migration has no way down.
Release1 == Files(x, x, {1, 2})
Release2 == Files(x, y, {1, 2})
EditedRelease == Files(y, x, {1, 2})
OneWayRelease == Files(x, x, {1})

Interchangeable == Permutations(Instance)

FreshDatabase == {Nothing}
DeployedDatabase == {Release1}
NextRelease == {Release1, Release2, EditedRelease}
OneRelease == {Release1}
Rollbackable == {Release1, OneWayRelease}
=============================================================================
