---------------------------- MODULE SchemaGraph ----------------------------
(***************************************************************************)
(* The schema graph (src/schema_graph.rs) and the comparison of two graphs *)
(* (src/diff.rs).  A graph is built from the definitions of each file and  *)
(* the graphs are merged, in the language server in the order of a         *)
(* HashMap, that is, in any order; effective_schema (lsp/src/server.rs)    *)
(* restricts the result to a namespace and database and merges the graph   *)
(* of the open document into it.                                           *)
(*                                                                         *)
(* A definition is a record with the kind of thing it defines, its name,   *)
(* the table it is on, and "as", what distinguishes two definitions of the *)
(* same name: whether a table is SCHEMAFULL, the type of a field.          *)
(***************************************************************************)
EXTENDS Integers, SequencesExt

CONSTANTS
  GraphFile,     \* the files of the workspace
  Definitions,   \* the statements of each file
  OpenDocument,  \* the files that may be open
  Scopes,        \* pairs of a namespace and a database that may be configured
  Unscoped       \* no namespace or no database

DefinitionKind == {"use", "table", "field", "index", "event", "function", "param"}
DefinitionsIn(F) == UNION {Range(Definitions[f]) : f \in F}

\* The statements are those that extract_definitions_from_ast distinguishes.
ASSUME GraphAssumption ==
  /\ "workspace" \notin OpenDocument /\ OpenDocument \subseteq GraphFile
  /\ \A f \in GraphFile : Definitions[f] \in Seq(DefinitionsIn({f}))
  /\ \A d \in DefinitionsIn(GraphFile) :
       /\ d = [kind |-> d.kind, name |-> d.name, on |-> d.on, as |-> d.as]
       /\ d.kind \in DefinitionKind /\ (d.kind = "table" => d.as \in BOOLEAN)

VARIABLES
  graph,         \* the graph built so far
  merged,        \* the files merged into it
  view           \* what it is: the workspace's graph or a document's

graphVars == <<graph, merged, view>>

-----------------------------------------------------------------------------
\* from_definitions

\* The elements of a list that are in S, in their order.
Those(seq, S) ==
  FoldLeft(LAMBDA kept, d : IF d \in S THEN Append(kept, d) ELSE kept, <<>>, seq)

OfKind(defs, k) == Those(defs, {d \in Range(defs) : d.kind = k})

\* extract_definitions_from_ast: the last namespace and the last database that
\* a USE names count, for the whole file; a USE keeps what it does not name.
UsedScope(defs) ==
  FoldLeft(LAMBDA s, d : IF d.kind # "use" THEN s
                         ELSE [i \in 1..2 |-> IF d.as[i] = Unscoped THEN s[i] ELSE d.as[i]],
           <<Unscoped, Unscoped>>, defs)

EmptyGraph == [tables |-> <<>>, functions |-> <<>>, params |-> {}, fieldIndex |-> {}]

NewTable(full, scope) ==
  [full |-> full, fields |-> <<>>, indexes |-> <<>>, events |-> <<>>, scope |-> scope]

\* HashMap::insert
Insert(map, k, v) == [x \in DOMAIN map \cup {k} |-> IF x = k THEN v ELSE map[x]]

NamesIn(seq) == {seq[i].name : i \in DOMAIN seq}

AddTable(g, d, scope) == [g EXCEPT !.tables = Insert(@, d.name, NewTable(d.as, scope))]

\* The first field of a name is kept; a field of a table the file does not
\* define creates the table.
AddField(g, d, scope) ==
  LET t == IF d.on \in DOMAIN g.tables THEN g.tables[d.on] ELSE NewTable(FALSE, scope)
      f == [name |-> d.name, as |-> d.as]
  IN  IF d.name \in NamesIn(t.fields) THEN g
      ELSE [g EXCEPT !.tables = Insert(@, d.on, [t EXCEPT !.fields = Append(@, f)])]

\* An index or event of a table the file does not mention is dropped.
AddIndex(g, d) ==
  IF d.on \in DOMAIN g.tables
    THEN [g EXCEPT !.tables[d.on].indexes = Append(@, [name |-> d.name, as |-> d.as])] ELSE g
AddEvent(g, d) ==
  IF d.on \in DOMAIN g.tables
    THEN [g EXCEPT !.tables[d.on].events = Append(@, [name |-> d.name, as |-> d.as])] ELSE g

AddFunction(g, d) == [g EXCEPT !.functions = Insert(@, d.name, d.as)]
AddParam(g, d) == [g EXCEPT !.params = @ \cup {d.name}]

\* rebuild_field_index: for each field name, the tables and positions.
FieldIndex(tables) ==
  UNION {{[field |-> tables[t].fields[i].name, table |-> t, at |-> i] :
            i \in DOMAIN tables[t].fields} : t \in DOMAIN tables}

AddDefinition(g, d, scope) ==
  CASE d.kind = "table" -> AddTable(g, d, scope)
    [] d.kind = "field" -> AddField(g, d, scope)
    [] d.kind = "index" -> AddIndex(g, d)
    [] d.kind = "event" -> AddEvent(g, d)
    [] d.kind = "function" -> AddFunction(g, d)
    [] d.kind = "param" -> AddParam(g, d)

\* One kind after the other, in the order of the statements.
InPasses(defs) ==
  OfKind(defs, "table") \o OfKind(defs, "field") \o OfKind(defs, "index")
    \o OfKind(defs, "event") \o OfKind(defs, "function") \o OfKind(defs, "param")

Collected(defs, scope) ==
  FoldLeft(LAMBDA g, d : AddDefinition(g, d, scope), EmptyGraph, InPasses(defs))

FromDefinitions(defs) ==
  LET g == Collected(defs, UsedScope(defs))
  IN  [g EXCEPT !.fieldIndex = FieldIndex(g.tables)]

-----------------------------------------------------------------------------
\* merge, scoped, find_field

\* What is in list y under names that are not taken in list x.
NewNames(x, y) == Those(y, {d \in Range(y) : d.name \notin NamesIn(x)})

\* Faulty variant: the later file decides whether the table is SCHEMAFULL.
MergeTablesLast(a, b) ==
  [a EXCEPT !.full = b.full, !.fields = @ \o NewNames(@, b.fields),
            !.indexes = @ \o NewNames(@, b.indexes), !.events = @ \o NewNames(@, b.events)]

\* A table of both graphs: SCHEMAFULL in one is SCHEMAFULL, and what has a
\* name that is taken is dropped.
MergeTables(a, b) ==
  [a EXCEPT !.full = @ \/ b.full, !.fields = @ \o NewNames(@, b.fields),
            !.indexes = @ \o NewNames(@, b.indexes), !.events = @ \o NewNames(@, b.events)]

Merge(g, h) ==
  LET tables == [t \in DOMAIN g.tables \cup DOMAIN h.tables |->
                   IF t \notin DOMAIN g.tables THEN h.tables[t]
                   ELSE IF t \notin DOMAIN h.tables THEN g.tables[t]
                   ELSE MergeTables(g.tables[t], h.tables[t])]
  IN  [tables |-> tables,
       functions |-> [f \in DOMAIN g.functions \cup DOMAIN h.functions |->
                        IF f \in DOMAIN g.functions THEN g.functions[f] ELSE h.functions[f]],
       params |-> g.params \cup h.params,
       fieldIndex |-> FieldIndex(tables)]

\* scope_matches: what is not set matches everything.
ScopeMatches(scope, filter) ==
  \A i \in 1..2 : scope[i] = Unscoped \/ filter[i] = Unscoped \/ scope[i] = filter[i]

Scoped(g, filter) ==
  LET tables == [t \in {u \in DOMAIN g.tables : ScopeMatches(g.tables[u].scope, filter)} |->
                   g.tables[t]]
  IN  [g EXCEPT !.tables = tables, !.fieldIndex = FieldIndex(tables)]

FindField(g, name) ==
  {[table |-> e.table, field |-> g.tables[e.table].fields[e.at]] :
     e \in {x \in g.fieldIndex : /\ x.field = name
                                 /\ x.table \in DOMAIN g.tables
                                 /\ x.at \in DOMAIN g.tables[x.table].fields}}

-----------------------------------------------------------------------------
\* compare_schemas.  What is gone is what would be new the other way round.

Common(b, a) == (DOMAIN b.tables) \cap (DOMAIN a.tables)
NamePairs(g, part) == UNION {{<<t, n>> : n \in NamesIn(g.tables[t][part])} : t \in DOMAIN g.tables}
NewTables(b, a) == (DOMAIN a.tables) \ (DOMAIN b.tables)

\* Faulty variant: what is on a new table is not reported.
NewInCommon(b, a, part) ==
  UNION {{<<t, n>> : n \in NamesIn(a.tables[t][part]) \ NamesIn(b.tables[t][part])} :
           t \in Common(b, a)}

NewIn(b, a, part) ==
  (UNION {{<<t, n>> : n \in NamesIn(a.tables[t][part])} : t \in NewTables(b, a)})
    \cup (UNION {{<<t, n>> : n \in NamesIn(a.tables[t][part]) \ NamesIn(b.tables[t][part])} :
                   t \in Common(b, a)})

ChangedFields(b, a) ==
  {p \in NamePairs(b, "fields") : p[1] \in Common(b, a) /\
     \E i \in DOMAIN b.tables[p[1]].fields, j \in DOMAIN a.tables[p[1]].fields :
       /\ b.tables[p[1]].fields[i].name = p[2] /\ a.tables[p[1]].fields[j].name = p[2]
       /\ b.tables[p[1]].fields[i].as # a.tables[p[1]].fields[j].as}

Compare(b, a) ==
  [addedTables |-> NewTables(b, a), removedTables |-> NewTables(a, b),
   changedTables |-> {t \in Common(b, a) : b.tables[t].full # a.tables[t].full},
   addedFields |-> NewIn(b, a, "fields"), removedFields |-> NewIn(a, b, "fields"),
   changedFields |-> ChangedFields(b, a),
   addedIndexes |-> NewIn(b, a, "indexes"), removedIndexes |-> NewIn(a, b, "indexes"),
   addedEvents |-> NewIn(b, a, "events"), removedEvents |-> NewIn(a, b, "events"),
   addedFunctions |-> (DOMAIN a.functions) \ (DOMAIN b.functions),
   removedFunctions |-> (DOMAIN b.functions) \ (DOMAIN a.functions)]

-----------------------------------------------------------------------------
GraphInit ==
  /\ graph = EmptyGraph
  /\ merged = {}
  /\ view = [document |-> "workspace", scope |-> <<Unscoped, Unscoped>>]

\* merge_file_schemas, one file after the other.
MergeFile(f) ==
  /\ view.document = "workspace" /\ f \in GraphFile \ merged
  /\ graph' = Merge(graph, FromDefinitions(Definitions[f]))
  /\ merged' = merged \cup {f}
  /\ UNCHANGED view

\* The scope of a document: that of its own USE, if it defines a table; else
\* what the manifest or .env file says.
DocumentScope(d, configured) ==
  LET own == UsedScope(Definitions[d])
  IN  IF own # <<Unscoped, Unscoped>> /\ DOMAIN FromDefinitions(Definitions[d]).tables # {}
      THEN own ELSE configured

\* effective_schema, for a document in a namespace and database.
EffectiveSchema(d, configured) ==
  LET scope == DocumentScope(d, configured) IN
  /\ view.document = "workspace"
  /\ graph' = Merge(Scoped(graph, scope), FromDefinitions(Definitions[d]))
  /\ view' = [document |-> d, scope |-> scope]
  /\ UNCHANGED merged

GraphNext ==
  \/ \E f \in GraphFile : MergeFile(f)
  \/ \E d \in OpenDocument, scope \in Scopes : EffectiveSchema(d, scope)

GraphSpec == GraphInit /\ [][GraphNext]_graphVars

-----------------------------------------------------------------------------
\* Everything a graph knows, by name.
KnownTables(g) == {<<"table", t>> : t \in DOMAIN g.tables}
KnownIn(g, part) == {<<part, p[1], p[2]>> : p \in NamePairs(g, part)}
Known(g) ==
  KnownTables(g) \cup KnownIn(g, "fields") \cup KnownIn(g, "indexes") \cup KnownIn(g, "events")
    \cup {<<"full", t>> : t \in {u \in DOMAIN g.tables : g.tables[u].full}}
    \cup {<<"function", f>> : f \in DOMAIN g.functions} \cup {<<"param", p>> : p \in g.params}

KnownOfFiles(F) == UNION {Known(FromDefinitions(Definitions[f])) : f \in F}

\* In whatever order the files are merged, the workspace's graph knows
\* exactly what their graphs know, and which tables are SCHEMAFULL; a
\* document sees that, without the tables of other scopes, and its own.
MergeKeepsEverything ==
  IF view.document = "workspace" THEN Known(graph) = KnownOfFiles(merged)
  ELSE /\ Known(graph) \subseteq KnownOfFiles(merged \cup {view.document})
       /\ KnownOfFiles({view.document}) \subseteq Known(graph)
       /\ \A t \in DOMAIN graph.tables :
            \/ <<"table", t>> \in KnownOfFiles({view.document})
            \/ ScopeMatches(graph.tables[t].scope, view.scope)

\* find_field and field_on agree: the index that merge and scoped rebuild
\* leads to the very fields the tables have, and to all of them.
FieldsAreFound ==
  \A t \in DOMAIN graph.tables, n \in {k[3] : k \in KnownIn(graph, "fields")} :
    {r \in FindField(graph, n) : r.table = t} =
      {[table |-> t, field |-> graph.tables[t].fields[i]] :
         i \in {j \in DOMAIN graph.tables[t].fields : graph.tables[t].fields[j].name = n}}

\* The graph holds every definition of the files merged into it, and a field
\* is found whatever file its table stands in (schema_graph.rs merge).
GraphIsComplete == MergeKeepsEverything /\ FieldsAreFound

\* What is reported between the graphs b and a turns what b has into what a has.
Patch(known, added, removed) == (known \ removed) \cup added
FullTables(g) == {t \in DOMAIN g.tables : g.tables[t].full}

Explains(b, a) ==
  LET d == Compare(b, a)
  IN  /\ DOMAIN a.tables = Patch(DOMAIN b.tables, d.addedTables, d.removedTables)
      /\ DOMAIN a.functions = Patch(DOMAIN b.functions, d.addedFunctions, d.removedFunctions)
      /\ NamePairs(a, "fields") = Patch(NamePairs(b, "fields"), d.addedFields, d.removedFields)
      /\ NamePairs(a, "indexes") = Patch(NamePairs(b, "indexes"), d.addedIndexes, d.removedIndexes)
      /\ NamePairs(a, "events") = Patch(NamePairs(b, "events"), d.addedEvents, d.removedEvents)
      /\ FullTables(a) \ d.addedTables
           = Patch(FullTables(b) \ d.removedTables, {t \in d.changedTables : ~b.tables[t].full},
                   {t \in d.changedTables : b.tables[t].full})

\* What compare_schemas reports between the graph before a step and after
\* it turns the names of the one into those of the other, in both
\* directions.
CompareIsExact ==
  [][graph' # graph => Explains(graph, graph') /\ Explains(graph', graph)]_graphVars
=============================================================================
