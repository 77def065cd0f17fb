-------------------------- MODULE QueryStatements --------------------------
(***************************************************************************)
(* The statements that read and write records, and the small ones: for     *)
(* each its stages (...Syntax), and the keywords its printer writes, in    *)
(* their order (...Text).  ReadQuery is what a clause does to the tree.    *)
(*                                                                         *)
(* A clause written without keyword (the fields of SELECT, what a          *)
(* statement works on) has a name in small letters.                        *)
(***************************************************************************)
EXTENDS StatementSyntax

SelectSyntax ==
  <<Must("fields"), May("OMIT"), May("ONLY"), Must("what"), May("WITH"), May("WHERE"),
    May("SPLIT"), May("GROUP"), May("ORDER"), Loop({"LIMIT", "START"}), May("FETCH"),
    May("VERSION"), May("TIMEOUT"), May("TEMPFILES"), May("EXPLAIN")>>
\* Faulty variant: FETCH is written before LIMIT and START.
SelectTextFetchFirst ==
  <<"fields", "OMIT", "ONLY", "what", "WITH", "WHERE", "SPLIT", "GROUP", "ORDER",
    "FETCH", "LIMIT", "START", "VERSION", "TIMEOUT", "EXPLAIN">>
SelectText ==
  <<"fields", "OMIT", "ONLY", "what", "WITH", "WHERE", "SPLIT", "GROUP", "ORDER",
    "LIMIT", "START", "FETCH", "VERSION", "TIMEOUT", "EXPLAIN">>

CreateSyntax ==
  <<May("ONLY"), Must("what"), May("data"), May("RETURN"), May("VERSION"), May("TIMEOUT")>>
CreateText == <<"ONLY", "what", "data", "RETURN", "TIMEOUT">>

UpdateSyntax ==
  <<May("ONLY"), Must("what"), May("WITH"), May("data"), May("WHERE"), May("RETURN"),
    May("TIMEOUT"), May("EXPLAIN")>>
UpdateText == <<"ONLY", "what", "WITH", "data", "WHERE", "RETURN", "TIMEOUT", "EXPLAIN">>
UpsertSyntax == UpdateSyntax
UpsertText == UpdateText

DeleteSyntax ==
  <<May("FROM"), May("ONLY"), Must("what"), May("WITH"), May("WHERE"), May("RETURN"),
    May("TIMEOUT"), May("EXPLAIN")>>
DeleteText == <<"ONLY", "what", "WITH", "WHERE", "RETURN", "TIMEOUT", "EXPLAIN">>

InsertSyntax ==
  <<May("RELATION"), May("IGNORE"), May("INTO"), Must("values"), May("ON_DUPLICATE_KEY_UPDATE"),
    May("RETURN"), May("VERSION"), May("TIMEOUT")>>
InsertText ==
  <<"RELATION", "IGNORE", "INTO", "values", "ON_DUPLICATE_KEY_UPDATE", "RETURN", "TIMEOUT">>

\* A relation is read from left to right or from right to left.
RelateSyntax ==
  <<May("ONLY"), OneOf({"->", "<-"}), May("UNIQUE"), May("data"), May("RETURN"), May("TIMEOUT")>>
RelateText == <<"ONLY", "->", "data", "RETURN", "TIMEOUT">>

LiveSyntax == <<OneOf({"DIFF", "fields"}), Must("what"), May("WHERE"), May("FETCH")>>
LiveText == <<"DIFF", "fields", "what", "WHERE", "FETCH">>

ShowSyntax == <<OneOf({"TABLE", "DATABASE"}), Must("SINCE"), May("LIMIT")>>
ShowText == <<"TABLE", "DATABASE", "SINCE", "LIMIT">>

RebuildSyntax == <<May("IF_EXISTS"), Must("name"), Must("ON"), May("CONCURRENTLY")>>
RebuildText == <<"IF_EXISTS", "name", "ON", "CONCURRENTLY">>

UseSyntax == <<OneOf({"NAMESPACE", "DATABASE", "DEFAULT"}), May("DATABASE")>>
UseText == <<"NAMESPACE", "DATABASE", "DEFAULT">>

OptionSyntax == <<Must("name"), May("=")>>
OptionText == <<"name", "=">>

ForSyntax == <<Must("$"), Must("IN"), Must("block")>>
ForText == <<"$", "IN", "block">>

LetSyntax == <<Must("$"), May(":"), Must("=")>>
LetText == <<"$", ":", "=">>

ReturnSyntax == <<Must("what"), May("FETCH")>>
ReturnText == <<"what", "FETCH">>

KillSyntax == <<Must("what")>>
KillText == <<"what">>

SleepSyntax == <<Must("what")>>
SleepText == <<"what">>

\* BEGIN, CANCEL and COMMIT.
TransactionSyntax == <<May("TRANSACTION")>>
TransactionText == <<>>

\* EXPLAIN; the format TEXT is the default.
ExplainSyntax == <<May("ANALYZE"), May("FORMAT"), Must("what")>>
ExplainText == <<"ANALYZE", "FORMAT", "what">>

InfoSyntax ==
  <<OneOf({"ROOT", "NAMESPACE", "DATABASE", "TABLE", "USER", "INDEX"}),
    MayOneOf({"VERSION", "ON"}), May("STRUCTURE")>>
InfoText ==
  <<"ROOT", "NAMESPACE", "DATABASE", "TABLE", "USER", "INDEX", "VERSION", "ON", "STRUCTURE">>

AccessSyntax ==
  <<Must("name"), May("ON"), OneOf({"GRANT", "SHOW", "REVOKE", "PURGE"}),
    Loop({"PURGE"}), May("FOR")>>
AccessText == <<"name", "ON", "GRANT", "SHOW", "REVOKE", "PURGE", "FOR">>

\* IF: with THEN and END, or with blocks and no END.
IfSyntax == <<OneOf({"THEN", "BRACES"}), Loop({"ELSE_IF"}), May("ELSE"), May("END")>>

-----------------------------------------------------------------------------
\* SPLIT, GROUP and ORDER name idioms, the sequences of their parts; * is
\* among the fields as the idiom <<"*">>, and no idiom at all stands for
\* GROUP ALL and for ORDER BY RAND().
Selected(fields, idiom, group) ==
  \/ <<"*">> \in fields
  \/ idiom \in fields
  \/ group /\ \E f \in fields : IsStrictPrefix(idiom, f)
SelectedAll(t, idioms, group) ==
  \A i \in DOMAIN idioms : Selected(t["fields"], idioms[i], group)

\* SELECT and the view of a table, whose only checked clause is GROUP.
ReadSelect(t, key, arg) ==
  CASE key \in {"SPLIT", "ORDER"} -> Unless(~SelectedAll(t, arg, FALSE), With(t, key, arg))
    [] key = "GROUP" ->
         Unless(Given(t, "SPLIT") \/ ~SelectedAll(t, arg, TRUE), With(t, key, arg))
    [] key \in {"LIMIT", "START"} -> Unless(Given(t, key), With(t, key, arg))
    [] OTHER -> {With(t, key, arg)}

\* A VERSION of CREATE and INSERT, the FROM of DELETE and the word
\* TRANSACTION are read and forgotten.
ReadRecords(t, key, arg) ==
  IF key \in {"VERSION", "FROM", "TRANSACTION"} THEN {t} ELSE {With(t, key, arg)}

\* The arguments of a relation are what it leads from, through and to.
ReadRelate(t, key, arg) ==
  CASE key = "<-" -> {With(t, "->", Reverse(arg))}
    [] key = "UNIQUE" -> {t}
    [] OTHER -> {With(t, key, arg)}

\* After DATABASE no second one, and nothing after DEFAULT.
ReadUse(t, key, arg) ==
  Unless(Given(t, "DATABASE") \/ Given(t, "DEFAULT"), With(t, key, arg))

\* Only a database and a table have a VERSION, only a user a base.
ReadInfo(t, key, arg) ==
  Unless(\/ key = "VERSION" /\ ~Given(t, "DATABASE") /\ ~Given(t, "TABLE")
         \/ key = "ON" /\ ~Given(t, "USER"),
         With(t, key, arg))

\* What is purged is EXPIRED, REVOKED or both, each named once; a grace
\* period of no length is as good as none.
ReadAccess(t, key, arg) ==
  CASE key = "PURGE" /\ Given(t, "PURGE") ->
         Unless(arg \cap t["PURGE"] # {}, With(t, key, arg \cup t["PURGE"]))
    [] key = "PURGE" /\ ~Given(t, "PURGE") ->
         Unless(Given(t, "GRANT") \/ Given(t, "SHOW") \/ Given(t, "REVOKE"), With(t, key, arg))
    [] key = "FOR" ->
         IF ~Given(t, "PURGE") THEN Refused ELSE IF arg = "0ns" THEN {t} ELSE {With(t, key, arg)}
    [] OTHER -> {With(t, key, arg)}

\* OPTION name is the same as OPTION name = TRUE.
ReadOption(t, key, arg) == IF key = "=" /\ arg = "TRUE" THEN {t} ELSE {With(t, key, arg)}

-----------------------------------------------------------------------------
\* A body of IF: a block, some other value, or another IF written with THEN
\* or with blocks; closed when it is in parentheses or before a semicolon.
\* An ELSE after an IF with blocks that is not closed belongs to that one.
Body(kind, closed) == [kind |-> kind, closed |-> closed]
Bodies(t) == t["bodies"]
Swallows(t) == Last(Bodies(t)).kind = "bracketed" /\ ~Last(Bodies(t)).closed

ReadIf(t, key, body) ==
  CASE key = "THEN" -> {With(With(t, "style", "worded"), "bodies", <<body>>)}
    [] key = "BRACES" -> Unless(body.kind # "block", With(With(t, "style", "bracketed"), "bodies", <<body>>))
    [] key = "END" -> Unless(t["style"] = "bracketed", With(t, "END", "yes"))
    [] OTHER ->
         Unless(Swallows(t) \/ (t["style"] = "bracketed" /\ body.kind # "block"),
                IF key = "ELSE" THEN With(t, "ELSE", body)
                ELSE With(t, "bodies", Append(Bodies(t), body)))
IfEnds(t) == t["style"] = "bracketed" \/ Given(t, "END")

\* What is left of the text: the kinds of the bodies.
IfTree(t) ==
  [bodies |-> [i \in DOMAIN Bodies(t) |-> Bodies(t)[i].kind],
   close |-> IF Given(t, "ELSE") THEN t["ELSE"].kind ELSE "none"]

\* Written with blocks if every body is one; else a body that is an IF with
\* blocks gets parentheses, and the last one gets them if it is any IF.
Bracketed(tree) == tree.close \in {"none", "block"} /\ \A i \in DOMAIN tree.bodies : tree.bodies[i] = "block"
WriteIf(tree) ==
  LET blocks == Bracketed(tree)
      Key(i) == IF i > 1 THEN "ELSE_IF" ELSE IF blocks THEN "BRACES" ELSE "THEN"
      Then(kind) == Body(kind, kind = "bracketed")
  IN  [i \in DOMAIN tree.bodies |-> <<Key(i), Then(tree.bodies[i])>>]
      \o (IF tree.close = "none" THEN <<>>
          ELSE << <<"ELSE", Body(tree.close, tree.close \in {"bracketed", "worded"})>> >>)
      \o (IF blocks THEN <<>> ELSE << <<"END", Body("value", FALSE)>> >>)
=============================================================================
