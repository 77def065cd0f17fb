-------------------------- MODULE SchemaStatements -------------------------
(***************************************************************************)
(* ALTER and REMOVE.  A clause of ALTER that takes something away, as DROP *)
(* COMMENT, is the clause of that keyword with the argument DROP.          *)
(***************************************************************************)
EXTENDS StatementSyntax

AlterSystemSyntax == <<Loop({"QUERY_TIMEOUT", "COMPACT"})>>
AlterSystemText == <<"QUERY_TIMEOUT", "COMPACT">>
AlterSystemEnds(t) == Given(t, "COMPACT") \/ Given(t, "QUERY_TIMEOUT")

AlterNamespaceSyntax == <<Must("COMPACT")>>
AlterNamespaceText == <<"COMPACT">>
AlterDatabaseSyntax == <<Must("COMPACT")>>
AlterDatabaseText == <<"COMPACT">>

AlterTableSyntax ==
  <<May("IF_EXISTS"), Must("name"),
    Loop({"COMMENT", "CHANGEFEED", "COMPACT", "TYPE", "SCHEMA", "PERMISSIONS"})>>
AlterTableText ==
  <<"IF_EXISTS", "name", "TYPE", "SCHEMA", "COMMENT", "CHANGEFEED", "PERMISSIONS", "COMPACT">>

AlterIndexSyntax ==
  <<May("IF_EXISTS"), Must("name"), Must("ON"), Loop({"COMMENT", "PREPARE_REMOVE"})>>
AlterIndexText == <<"IF_EXISTS", "name", "ON", "PREPARE_REMOVE", "COMMENT">>
AlterIndexEnds(t) == Given(t, "PREPARE_REMOVE") \/ Given(t, "COMMENT")

AlterFieldSyntax ==
  <<May("IF_EXISTS"), Must("name"), Must("ON"),
    Loop({"KIND", "FLEXIBLE", "READONLY", "VALUE", "ASSERT", "DEFAULT", "PERMISSIONS",
          "COMMENT", "REFERENCE"})>>
AlterFieldText ==
  <<"IF_EXISTS", "name", "ON", "KIND", "FLEXIBLE", "READONLY", "VALUE", "ASSERT", "DEFAULT",
    "PERMISSIONS", "COMMENT", "REFERENCE">>

AlterSequenceSyntax == <<May("IF_EXISTS"), Must("name"), May("TIMEOUT")>>
AlterSequenceText == <<"IF_EXISTS", "name", "TIMEOUT">>

\* The permissions of ALTER FIELD are read as those of a table.
ReadAlter(t, key, arg) ==
  CASE key = "PERMISSIONS" -> {With(t, key, ReadPermissions(arg, FALSE))}
    [] key = "TYPE" -> {With(t, key, ReadTableType(arg))}
    [] OTHER -> {With(t, key, arg)}

\* The printer of ALTER TABLE has a TYPE of its own, which knows no ENFORCED.
WriteAlterTable(t) ==
  ShowAll(IF Given(t, "TYPE") THEN [t EXCEPT !["TYPE"].enforced = FALSE] ELSE t, AlterTableText)

-----------------------------------------------------------------------------
Named == <<May("IF_EXISTS"), Must("name")>>
NamedOn == <<May("IF_EXISTS"), Must("name"), Must("ON")>>
Expunging == <<May("AND_EXPUNGE"), May("IF_EXISTS"), Must("name")>>

RemoveSyntax ==
  [removeNamespace |-> Expunging, removeDatabase |-> Expunging, removeTable |-> Expunging,
   removeFunction |-> Named, removeModule |-> Named, removeParam |-> Named,
   removeAccess |-> NamedOn]
RemoveOnTableSyntax ==
  [removeEvent |-> NamedOn, removeField |-> NamedOn, removeIndex |-> NamedOn]
RemoveOtherSyntax ==
  [removeUser |-> NamedOn, removeAnalyzer |-> Named, removeSequence |-> Named,
   removeApi |-> Named, removeBucket |-> Named]

\* AND EXPUNGE is read, but not written.
RemoveText == <<"IF_EXISTS", "name", "ON">>
=============================================================================
