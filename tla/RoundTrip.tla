----------------------------- MODULE RoundTrip -----------------------------
(***************************************************************************)
(* Every statement that is read can be written and read again: that is     *)
(* what formatting a document does.  A behaviour reads one statement,      *)
(* clause after clause; wherever the statement may end, its tree is        *)
(* written and the text read again.                                        *)
(***************************************************************************)
EXTENDS QueryStatements, SchemaStatements, AccessStatements

CONSTANTS Statements,       \* the kinds of statements that are read
          Arguments(_, _),  \* the arguments of a clause: of a statement, of a keyword
          MaxClauses,       \* bound: the clauses of a statement
          MaxRepeats        \* bound: the bodies of an IF, the actions of an API

VARIABLES statement,  \* the kind of statement that is read
          parser      \* the stage the parser is in, and the tree so far
statementVars == <<statement, parser>>

-----------------------------------------------------------------------------
\* The stages of each kind of statement.
Removals == Over(RemoveSyntax, Over(RemoveOnTableSyntax, RemoveOtherSyntax))
Syntax == Over(Removals,
  [select |-> SelectSyntax, create |-> CreateSyntax, update |-> UpdateSyntax,
   upsert |-> UpsertSyntax, delete |-> DeleteSyntax, insert |-> InsertSyntax,
   relate |-> RelateSyntax, live |-> LiveSyntax, show |-> ShowSyntax, rebuild |-> RebuildSyntax,
   use |-> UseSyntax, option |-> OptionSyntax, for |-> ForSyntax, let |-> LetSyntax,
   return |-> ReturnSyntax, kill |-> KillSyntax, sleep |-> SleepSyntax,
   transaction |-> TransactionSyntax, explain |-> ExplainSyntax, info |-> InfoSyntax,
   access |-> AccessSyntax, if |-> IfSyntax,
   alterSystem |-> AlterSystemSyntax, alterNamespace |-> AlterNamespaceSyntax,
   alterDatabase |-> AlterDatabaseSyntax, alterTable |-> AlterTableSyntax,
   alterIndex |-> AlterIndexSyntax, alterField |-> AlterFieldSyntax,
   alterSequence |-> AlterSequenceSyntax,
   defineNamespace |-> NamespaceSyntax, defineDatabase |-> DatabaseSyntax,
   defineFunction |-> FunctionSyntax, defineModule |-> ModuleSyntax, defineParam |-> ParamSyntax,
   defineAnalyzer |-> AnalyzerSyntax, defineBucket |-> BucketSyntax,
   defineSequence |-> SequenceSyntax, defineTable |-> TableSyntax, defineField |-> FieldSyntax,
   defineEvent |-> EventSyntax, defineIndex |-> IndexSyntax, defineUser |-> UserSyntax,
   defineAccess |-> DefineAccessSyntax, defineApi |-> ApiSyntax, configApi |-> ConfigApiSyntax,
   configGraphQl |-> GraphQlSyntax, configDefault |-> ConfigDefaultSyntax])

\* The keywords that are written, in their order, for the statements that
\* are written clause after clause.
Text == Over([s \in DOMAIN Removals |-> RemoveText],
  [select |-> SelectText, create |-> CreateText, update |-> UpdateText, upsert |-> UpsertText,
   delete |-> DeleteText, insert |-> InsertText, relate |-> RelateText, live |-> LiveText,
   show |-> ShowText, rebuild |-> RebuildText, use |-> UseText, option |-> OptionText,
   for |-> ForText, let |-> LetText, return |-> ReturnText, kill |-> KillText,
   sleep |-> SleepText, transaction |-> TransactionText, explain |-> ExplainText,
   info |-> InfoText, access |-> AccessText,
   alterSystem |-> AlterSystemText, alterNamespace |-> AlterNamespaceText,
   alterDatabase |-> AlterDatabaseText, alterIndex |-> AlterIndexText,
   alterField |-> AlterFieldText, alterSequence |-> AlterSequenceText,
   defineNamespace |-> NamespaceText, defineDatabase |-> DatabaseText,
   defineFunction |-> FunctionText, defineModule |-> ModuleText, defineParam |-> ParamText,
   defineAnalyzer |-> AnalyzerText, defineBucket |-> BucketText, defineSequence |-> SequenceText,
   defineTable |-> TableText, defineField |-> FieldText, defineEvent |-> EventText,
   configApi |-> ConfigApiText, configGraphQl |-> GraphQlText,
   configDefault |-> ConfigDefaultText])

\* The tree before the first clause, where it is not empty.
Defaults ==
  [explain |-> [FORMAT |-> "TEXT"], defineFunction |-> PermissionDefault,
   defineModule |-> PermissionDefault, defineBucket |-> PermissionDefault,
   defineParam |-> ParamDefault, defineSequence |-> SequenceDefault, defineTable |-> TableDefault,
   defineField |-> FieldDefault, defineEvent |-> EventDefault, defineIndex |-> IndexDefault,
   defineUser |-> UserDefault, defineAccess |-> DefineAccessDefault, defineApi |-> ApiDefault,
   configApi |-> ConfigApiDefault, configGraphQl |-> GraphQlDefault,
   configDefault |-> ConfigDefaultDefault]
Default(s) == IF s \in DOMAIN Defaults THEN Defaults[s] ELSE NoTree

\* What one clause makes of the tree.
Read(s, t, key, arg) ==
  CASE s = "select" -> ReadSelect(t, key, arg)
    [] s \in {"create", "insert", "delete", "transaction"} -> ReadRecords(t, key, arg)
    [] s = "relate" -> ReadRelate(t, key, arg)
    [] s = "use" -> ReadUse(t, key, arg)
    [] s = "info" -> ReadInfo(t, key, arg)
    [] s = "access" -> ReadAccess(t, key, arg)
    [] s = "option" -> ReadOption(t, key, arg)
    [] s = "if" -> ReadIf(t, key, arg)
    [] s \in {"alterTable", "alterField"} -> ReadAlter(t, key, arg)
    [] s = "defineTable" -> ReadTable(t, key, arg)
    [] s = "defineField" -> ReadField(t, key, arg)
    [] s = "defineEvent" -> ReadEvent(t, key, arg)
    [] s = "defineIndex" -> ReadIndex(t, key, arg)
    [] s = "defineUser" -> ReadUser(t, key, arg)
    [] s = "defineAccess" -> ReadDefineAccess(t, key, arg)
    [] s = "defineApi" -> ReadApi(t, key, arg)
    [] s = "configGraphQl" -> ReadGraphQl(t, key, arg)
    [] s \in {"alterIndex", "alterSystem", "alterSequence"} -> {With(t, key, arg)}
    [] OTHER -> ReadPlain(t, key, arg)

\* What a statement that is read to its end must have.
Complete(s, t) ==
  CASE s = "if" -> IfEnds(t)
    [] s = "alterSystem" -> AlterSystemEnds(t)
    [] s = "alterIndex" -> AlterIndexEnds(t)
    [] s = "defineEvent" -> EventEnds(t)
    [] s = "defineIndex" -> IndexEnds(t)
    [] OTHER -> TRUE

Written(s, t) ==
  CASE s = "if" -> WriteIf(IfTree(t))
    [] s = "alterTable" -> WriteAlterTable(t)
    [] s = "defineIndex" -> WriteIndex(t)
    [] s = "defineUser" -> WriteUser(t)
    [] s = "defineAccess" -> WriteDefineAccess(t)
    [] s = "defineApi" -> WriteApi(t)
    [] OTHER -> ShowAll(t, Text[s])

-----------------------------------------------------------------------------
Step(s, p, key, arg) == Reads(Syntax[s], p, key, Read(s, p.tree, key, arg))
MayEnd(s, p) == Ends(Syntax[s], p) /\ Complete(s, p.tree)

\* What the parser only remembers while it reads is not part of the tree.
AstOf(s, t) == IF s = "if" THEN IfTree(t) ELSE Without(t, {"typed"})

\* The trees a text is read as: one, or none if it is refused.
ReadOn(s, parsers, clause) == UNION {Step(s, p, clause[1], clause[2]) : p \in parsers}
ReadAll(s, text) == FoldLeft(LAMBDA parsers, clause : ReadOn(s, parsers, clause), {Begin(Default(s))}, text)
TreesOf(s, text) == {AstOf(s, p.tree) : p \in {q \in ReadAll(s, text) : MayEnd(s, q)}}

-----------------------------------------------------------------------------
\* What is known not to survive.  TEMPFILES and AND EXPUNGE are never
\* written, ENFORCED not by ALTER TABLE.
KeptJwt(j) == IF j.verify = "URL" /\ j.issues THEN [j EXCEPT !.alg = "HS512"] ELSE j
KeptType(x) == [x EXCEPT !.jwt = IF x.kind = "BEARER" THEN JwtDefault ELSE KeptJwt(x.jwt)]
KeptAccess(t) ==
  [k \in DOMAIN t |-> CASE k = "TYPE" -> KeptType(t[k])
                        [] k \in Unwritten(t["TYPE"]) -> DurationDefault[k]
                        [] OTHER -> t[k]]
KeptTable(t) == IF Given(t, "PERMISSIONS") THEN [t EXCEPT !["PERMISSIONS"] = KeptPermissions(@)] ELSE t
NotEnforced(t) == IF Given(t, "TYPE") THEN [t EXCEPT !["TYPE"].enforced = FALSE] ELSE t

Kept(s, t) ==
  CASE s = "select" -> Without(t, {"TEMPFILES"})
    [] s \in DOMAIN RemoveSyntax -> Without(t, {"AND_EXPUNGE"})
    [] s = "alterTable" -> KeptTable(NotEnforced(t))
    [] s \in {"alterField", "defineTable"} -> KeptTable(t)
    [] s = "defineUser" -> InCapitals(t)
    [] s = "defineAccess" -> KeptAccess(t)
    [] OTHER -> t

\* What is known not to be readable: an access that was given no type and is
\* not on a database, and a FLEXIBLE left over from an earlier type.
Unreadable(s, t) ==
  \/ s = "defineAccess" /\ OnlyOnDatabase(t["TYPE"]) /\ t["ON"] # "DATABASE"
  \/ s = "defineField" /\ Given(t, "KIND") /\ t["KIND"].flexible /\ t["KIND"].type # "object"

-----------------------------------------------------------------------------
\* The arguments of the clauses that are read further: what the parser of the
\* clause can have seen.
BodyKinds == {"block", "value", "bracketed", "worded"}
IndexKinds == {"UNIQUE", "COUNT", "FULLTEXT", "HNSW"}
\* NONE and FULL are said of all operations at once and of nothing else.
IsGroups(groups) ==
  \A i \in DOMAIN groups : groups[i][1] = Every => DOMAIN groups = {1} /\ groups[1][2] \in {"NONE", "FULL"}
\* The algorithm is that of a WITH ISSUER.
JwtText(x) ==
  /\ x = Jwt(x.verify, x.key, x.issues, x.alg, x.issuerKey) /\ x.issues \in BOOLEAN
  /\ ~x.issues => x.alg = ""
TypeText(x) == x = Type(x.kind, x.subject, x.signup, x.signin, x.refresh, x.jwt) /\ JwtText(x.jwt)
IsIndexText(key, x) == x = IndexOf(key, x.options, x.m, x.m0) /\ (key = "HNSW" => x.m \in Nat \cup {NotGiven})
IsActionText(a) == a = [methods |-> a.methods, config |-> a.config, action |-> a.action]
IsArgument(s, key, arg) ==
  /\ s = "if" => arg.kind \in BodyKinds
  /\ s = "defineField" /\ key = "PERMISSIONS" => IsGroups(arg)
  /\ s = "defineField" /\ key = "KIND" => arg.flexible \in BOOLEAN
  /\ s = "defineIndex" /\ key \in IndexKinds => IsIndexText(key, arg)
  /\ s = "defineAccess" /\ key = "TYPE" => TypeText(arg)
  /\ s = "defineApi" /\ key = "FOR" => IsActionText(arg)
KeywordsOf(s) == UNION {Syntax[s][i].keys : i \in DOMAIN Syntax[s]}

ASSUME StatementsAssumption == Statements \subseteq DOMAIN Syntax
ASSUME ArgumentsAssumption ==
  \A s \in Statements : \A key \in KeywordsOf(s) : \A arg \in Arguments(s, key) : IsArgument(s, key, arg)

-----------------------------------------------------------------------------
StatementInit ==
  /\ statement \in Statements
  /\ parser = Begin(Default(statement))

Keywords(s, p) == UNION {Syntax[s][i].keys : i \in Reachable(Syntax[s], p)}
InBounds(s, t) ==
  /\ Cardinality(DOMAIN t) <= Cardinality(DOMAIN Default(s)) + MaxClauses
  /\ s = "if" /\ Given(t, "bodies") => Len(Bodies(t)) <= MaxRepeats
  /\ s = "defineApi" => Len(t["FOR"]) <= MaxRepeats

ReadClause ==
  \E key \in Keywords(statement, parser) : \E arg \in Arguments(statement, key) :
    /\ parser' \in Step(statement, parser, key, arg)
    /\ InBounds(statement, parser'.tree)
    /\ UNCHANGED statement

StatementNext == ReadClause
StatementSpec == StatementInit /\ [][StatementNext]_statementVars

-----------------------------------------------------------------------------
\* The parser is in a stage of the statement it reads (Parser::parse_stmt).
StatementTypeOK ==
  /\ statement \in Statements
  /\ parser.stage \in 0..Len(Syntax[statement])

\* A statement that was read, and is written by its printer, is read again
\* as the same tree, but for the losses Kept and Unreadable name
\* (tests/roundtrip.rs says the same without them).
RoundTrip ==
  MayEnd(statement, parser) =>
    LET t == parser.tree
    IN  TreesOf(statement, Written(statement, t)) =
          IF Unreadable(statement, t) THEN {} ELSE {AstOf(statement, Kept(statement, t))}
=============================================================================
