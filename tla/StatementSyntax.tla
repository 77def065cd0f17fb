-------------------------- MODULE StatementSyntax --------------------------
(***************************************************************************)
(* How the statements of SurrealQL are read and written.  The text of a    *)
(* statement is a sequence of clauses; a clause is the pair of a keyword   *)
(* and its argument, which stands for an expression, a name or a list that *)
(* is written the way it is read.  The tree of a statement is a function   *)
(* from the keywords that were given to their arguments.                   *)
(*                                                                         *)
(* A parser of this code base is a sequence of stages: it tries the        *)
(* optional clauses of a statement one after the other, or loops over      *)
(* those that come in any order, and what it finds next decides how it     *)
(* goes on.                                                                *)
(***************************************************************************)
EXTENDS Integers, Sequences, FiniteSets, TLC, SequencesExt

\* A stage: the keywords it takes, whether it loops, whether it may be skipped.
Stage(K, loops, must) == [keys |-> K, loops |-> loops, must |-> must]
May(key) == Stage({key}, FALSE, FALSE)
Must(key) == Stage({key}, FALSE, TRUE)
MayOneOf(K) == Stage(K, FALSE, FALSE)
OneOf(K) == Stage(K, FALSE, TRUE)
Loop(K) == Stage(K, TRUE, FALSE)

\* Where the parser is: the stage it is in and the tree so far.
At(stage, tree) == [stage |-> stage, tree |-> tree]
Begin(default) == At(0, default)

\* The stages that can come next, and those that then take a keyword: the
\* present one if it loops, and a later one if nothing is skipped that must
\* be there.
Reachable(stages, p) ==
  {i \in DOMAIN stages :
     /\ i > p.stage \/ (i = p.stage /\ stages[i].loops)
     /\ \A j \in p.stage + 1..i - 1 : ~stages[j].must}
Takes(stages, p, key) == {i \in Reachable(stages, p) : key \in stages[i].keys}

\* The parser after one clause: trees are those the clause may leave,
\* none when the statement is refused.
Reads(stages, p, key, trees) ==
  LET takes == Takes(stages, p, key)
  IN  IF takes = {} THEN {} ELSE {At(Min(takes), t) : t \in trees}

\* The statement may end here.
Ends(stages, p) == \A j \in p.stage + 1..Len(stages) : ~stages[j].must

Given(t, key) == key \in DOMAIN t
Has(t, key, arg) == key \in DOMAIN t /\ t[key] = arg
NoTree == [k \in {} |-> "none"]
With(t, key, arg) == [k \in DOMAIN t \cup {key} |-> IF k = key THEN arg ELSE t[k]]
Without(t, keys) == [k \in DOMAIN t \ keys |-> t[k]]
\* t, and what it has not as in other.
Over(t, other) == [k \in DOMAIN t \cup DOMAIN other |-> IF k \in DOMAIN t THEN t[k] ELSE other[k]]
Refused == {}
Unless(refused, t) == IF refused THEN Refused ELSE {t}

-----------------------------------------------------------------------------
\* PERMISSIONS (parse_permission, parse_specific_permission): a sequence of
\* groups, a set of operations and the value they get; Every stands for the
\* operations of NONE and FULL, which are written without FOR.  The last
\* group that names an operation counts.
Operation == {"select", "create", "update", "delete"}
Every == {"all"}
Permissions(value) == [o \in Operation |-> value]

ReadPermissions(groups, field) ==
  LET About(o) == {i \in DOMAIN groups : groups[i][1] = Every \/ o \in groups[i][1]}
  IN  [o \in Operation |->
        IF About(o) # {} THEN groups[Max(About(o))][2] ELSE IF field THEN "FULL" ELSE "NONE"]

\* Operations with the same permission are written together; a DELETE that
\* is allowed in full is not written.
OperationOrder == <<"select", "create", "update", "delete">>
Spoken(p) == {o \in Operation : ~(o = "delete" /\ p[o] = "FULL")}
WriteGroup(p, i) ==
  LET o == OperationOrder[i]
      same == {other \in Spoken(p) : p[other] = p[o]}
  IN  IF o \in Spoken(p) /\ \A j \in 1..i - 1 : OperationOrder[j] \notin same THEN << <<same, p[o]>> >> ELSE <<>>
WritePermissions(p) ==
  CASE p = Permissions("NONE") -> << <<Every, "NONE">> >>
    [] p = Permissions("FULL") -> << <<Every, "FULL">> >>
    [] OTHER -> FlattenSeq([i \in DOMAIN OperationOrder |-> WriteGroup(p, i)])

\* What is left of a table's permissions once they were written and read: a
\* DELETE in full is read as none, unless everything is allowed in full.
KeptPermissions(p) ==
  IF p["delete"] = "FULL" /\ p # Permissions("FULL") THEN [p EXCEPT !["delete"] = "NONE"] ELSE p

-----------------------------------------------------------------------------
\* TYPE of a table (parse_relation_schema): the tables it leads from and to,
\* in any order and more than once, the last ones count; then ENFORCED.
LastSide(sides, side) ==
  LET about == {i \in DOMAIN sides : sides[i][1] = side}
  IN  IF about # {} THEN sides[Max(about)][2] ELSE <<>>
ReadTableType(text) ==
  [type |-> text.type, enforced |-> text.enforced,
   from |-> LastSide(text.sides, "IN"), to |-> LastSide(text.sides, "OUT")]

ShowSide(side, tables) == IF tables = <<>> THEN <<>> ELSE << <<side, tables>> >>
WriteTableType(t) ==
  [type |-> t.type, enforced |-> t.enforced,
   sides |-> ShowSide("IN", t.from) \o ShowSide("OUT", t.to)]

-----------------------------------------------------------------------------
\* A clause as it is written: not at all when it was not given.  The TYPE of
\* a field has the name KIND here, and the permission of a function or a
\* parameter, a single value, the name PERMISSION.
WriteArg(key, arg) ==
  CASE key = "PERMISSIONS" -> WritePermissions(arg)
    [] key = "TYPE" -> WriteTableType(arg)
    [] OTHER -> arg
Show(t, key) == IF Given(t, key) THEN << <<key, WriteArg(key, t[key])>> >> ELSE <<>>
ShowAll(t, keys) == FlattenSeq([i \in DOMAIN keys |-> Show(t, keys[i])])
=============================================================================
