-------------------------- MODULE DefineStatements -------------------------
(***************************************************************************)
(* DEFINE.  All begin with the same header: OVERWRITE or IF NOT EXISTS,    *)
(* the name, and ON what; then most take their clauses in any order.       *)
(* ...Default is the tree before the first clause: what it holds is always *)
(* written, even when it was never given.                                  *)
(***************************************************************************)
EXTENDS StatementSyntax

Headed(clauses) == <<May("kind"), Must("name"), clauses>>
HeadedOn(clauses) == <<May("kind"), Must("name"), Must("ON"), clauses>>

\* A COMMENT that is NONE is no comment.
WithComment(t, arg) == IF arg = "NONE" THEN Without(t, {"COMMENT"}) ELSE With(t, "COMMENT", arg)

ReadPlain(t, key, arg) ==
  IF key = "COMMENT" THEN {WithComment(t, arg)} ELSE {With(t, key, arg)}

NamespaceSyntax == Headed(Loop({"COMMENT"}))
NamespaceText == <<"kind", "name", "COMMENT">>

DatabaseSyntax == Headed(Loop({"COMMENT", "CHANGEFEED", "STRICT"}))
DatabaseText == <<"kind", "name", "STRICT", "COMMENT", "CHANGEFEED">>

FunctionSyntax ==
  <<May("kind"), Must("name"), Must("arguments"), May("->"), Must("block"),
    Loop({"COMMENT", "PERMISSION"})>>
FunctionText == <<"kind", "name", "arguments", "->", "block", "COMMENT", "PERMISSION">>

ModuleSyntax == <<May("kind"), May("mod"), Must("executable"), Loop({"COMMENT", "PERMISSION"})>>
ModuleText == <<"kind", "mod", "executable", "COMMENT", "PERMISSION">>

ParamSyntax == Headed(Loop({"VALUE", "COMMENT", "PERMISSION"}))
ParamText == <<"kind", "name", "VALUE", "COMMENT", "PERMISSION">>

AnalyzerSyntax == Headed(Loop({"FILTERS", "TOKENIZERS", "FUNCTION", "COMMENT"}))
AnalyzerText == <<"kind", "name", "FUNCTION", "TOKENIZERS", "FILTERS", "COMMENT">>

BucketSyntax == Headed(Loop({"BACKEND", "PERMISSION", "READONLY", "COMMENT"}))
BucketText == <<"kind", "name", "READONLY", "BACKEND", "PERMISSION", "COMMENT">>

SequenceSyntax == <<May("kind"), Must("name"), May("BATCH"), May("START"), May("TIMEOUT")>>
SequenceText == <<"kind", "name", "BATCH", "START", "TIMEOUT">>

PermissionDefault == [PERMISSION |-> "FULL"]
ParamDefault == [PERMISSION |-> "FULL", VALUE |-> "NONE"]
SequenceDefault == [BATCH |-> "1000", START |-> "0"]

-----------------------------------------------------------------------------
TableSyntax ==
  Headed(Loop({"COMMENT", "DROP", "TYPE", "SCHEMA", "PERMISSIONS", "CHANGEFEED", "AS"}))
TableText ==
  <<"kind", "name", "TYPE", "DROP", "SCHEMA", "COMMENT", "AS", "CHANGEFEED", "PERMISSIONS">>

PlainType(type) == ReadTableType([type |-> type, sides |-> <<>>, enforced |-> FALSE])
TableDefault ==
  [TYPE |-> PlainType("ANY"), SCHEMA |-> "LESS", PERMISSIONS |-> Permissions("NONE")]

\* SCHEMAFULL makes the type NORMAL as long as no TYPE was given; "typed"
\* remembers whether one was.
ReadTable(t, key, arg) ==
  CASE key = "TYPE" -> {With(With(t, "TYPE", ReadTableType(arg)), "typed", "yes")}
    [] key = "SCHEMA" /\ arg = "FULL" /\ ~Given(t, "typed") ->
         {With(With(t, "TYPE", PlainType("NORMAL")), "SCHEMA", arg)}
    [] key = "PERMISSIONS" -> {With(t, key, ReadPermissions(arg, FALSE))}
    [] OTHER -> ReadPlain(t, key, arg)

-----------------------------------------------------------------------------
FieldSyntax ==
  HeadedOn(Loop({"KIND", "FLEXIBLE", "READONLY", "VALUE", "ASSERT", "DEFAULT", "PERMISSIONS",
                      "COMMENT", "REFERENCE", "COMPUTED"}))
FieldText ==
  <<"kind", "name", "ON", "KIND", "DEFAULT", "READONLY", "VALUE", "ASSERT", "COMPUTED",
    "REFERENCE", "COMMENT", "PERMISSIONS">>
FieldDefault == [PERMISSIONS |-> Permissions("FULL")]

\* The type of a field and whether FLEXIBLE follows it, which only a type
\* with an object in it may; FLEXIBLE anywhere else is refused, and what was
\* once flexible stays so when another type is given.
KindOf(type, flexible) == [type |-> type, flexible |-> flexible]
ReadField(t, key, arg) ==
  CASE key = "FLEXIBLE" -> Refused
    [] key = "KIND" ->
         Unless(arg.flexible /\ arg.type # "object",
                With(t, key, KindOf(arg.type, arg.flexible \/ (Given(t, key) /\ t[key].flexible))))
    [] key = "PERMISSIONS" ->
         Unless(\E i \in DOMAIN arg : "delete" \in arg[i][1], With(t, key, ReadPermissions(arg, TRUE)))
    [] OTHER -> ReadPlain(t, key, arg)

-----------------------------------------------------------------------------
EventSyntax ==
  HeadedOn(Loop({"WHEN", "THEN", "COMMENT", "ASYNC", "RETRY", "MAXDEPTH"}))
EventText == <<"kind", "name", "ON", "ASYNC", "RETRY", "MAXDEPTH", "WHEN", "THEN", "COMMENT">>
EventDefault == [WHEN |-> "true"]
EventEnds(t) == Given(t, "THEN")

\* RETRY and MAXDEPTH only after ASYNC, which gives both their defaults.
ReadEvent(t, key, arg) ==
  CASE key = "ASYNC" -> {With(With(With(t, key, arg), "RETRY", "3"), "MAXDEPTH", "10")}
    [] key \in {"RETRY", "MAXDEPTH"} -> Unless(~Given(t, "ASYNC"), With(t, key, arg))
    [] OTHER -> ReadPlain(t, key, arg)

-----------------------------------------------------------------------------
IndexSyntax ==
  HeadedOn(Loop({"FIELDS", "UNIQUE", "COUNT", "FULLTEXT", "HNSW", "CONCURRENTLY", "COMMENT"}))
IndexText == <<"kind", "name", "ON", "FIELDS", "index", "COMMENT", "CONCURRENTLY">>

\* An index: its kind, its options, and M and M0 of HNSW.
NotGiven == -1
IndexOf(kind, options, m, m0) == [kind |-> kind, options |-> options, m |-> m, m0 |-> m0]
IndexDefault == [index |-> IndexOf("INDEX", <<>>, 0, 0)]
Capped(n) == IF n > 255 THEN 255 ELSE n

FullTextDefault == [ANALYZER |-> "like", BM25 |-> "(1.2,0.75)"]
HnswDefault == [DISTANCE |-> "EUCLIDEAN", TYPE |-> "F32", EFC |-> "150", LM |-> "1/ln M"]

ReadFullText(x) == IndexOf(x.kind, Over(x.options, FullTextDefault), 0, 0)
ReadHnsw(x) ==
  LET m == IF x.m = NotGiven THEN 12 ELSE x.m
  IN  IndexOf(x.kind, Over(x.options, HnswDefault), m, IF x.m0 = NotGiven THEN Capped(2 * m) ELSE x.m0)

\* A later kind of index replaces an earlier one.
ReadIndex(t, key, arg) ==
  CASE key = "FULLTEXT" -> {With(t, "index", ReadFullText(arg))}
    [] key = "HNSW" -> Unless(arg.m > 127, With(t, "index", ReadHnsw(arg)))
    [] key \in {"UNIQUE", "COUNT"} -> {With(t, "index", arg)}
    [] OTHER -> ReadPlain(t, key, arg)

\* COUNT takes no fields, FULLTEXT and HNSW exactly one, the others some.
Columns(t) == IF Given(t, "FIELDS") THEN Len(t["FIELDS"]) ELSE 0
IndexEnds(t) ==
  CASE t["index"].kind = "COUNT" -> Columns(t) = 0
    [] t["index"].kind \in {"FULLTEXT", "HNSW"} -> Columns(t) = 1
    [] OTHER -> Columns(t) > 0

ShowIndex(x) == IF x.kind = "INDEX" THEN <<>> ELSE << <<x.kind, x>> >>
WriteIndex(t) ==
  FlattenSeq([i \in DOMAIN IndexText |->
    IF IndexText[i] = "index" THEN ShowIndex(t["index"]) ELSE Show(t, IndexText[i])])
=============================================================================
