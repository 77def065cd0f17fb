----------------------------- MODULE Repository -----------------------------
(***************************************************************************)
(* The components that share no state: the language server's embedded      *)
(* engine, its search for symbols and the files it writes for editors, the *)
(* sort of the schema modules, the schema graph and its links, error       *)
(* recovery, the formatter, and the parser and printer of each part of the *)
(* language.  In a behaviour one of them works and the others rest, so     *)
(* that one run checks them all without their product.                     *)
(***************************************************************************)
EXTENDS EmbeddedEngine, TopologicalSort, Derived, DependencyTree, Recovery,
        RoundTrip, Expressions, Kinds, Idioms, Numerals, Formatter, PlainValues,
        SymbolSearch

VARIABLE component   \* the one that works

Component == {"engine", "sort", "graph", "links", "recovery", "statement", "expression",
              "kind", "idiom", "lexeme", "format", "value", "symbols", "manifest"}

EngineRests == disk = (CHOOSE d \in [Path -> FirstTexts] : TRUE) /\ EngineInit
SortRests == modules = <<>> /\ SortInit
GraphRests == GraphInit
LinksRest == links = <<>> /\ maxDepth = 0 /\ start = 1 /\ TreeInit
RecoveryRests == source = <<Word>> /\ RecoveryInit
StatementRests == statement = "kill" /\ StatementInit
ExpressionRests == expression = Leaf("a")
KindRests == kindText = <<>>
IdiomRests == idiomText = <<>> /\ added = 0
LexemeRests == numeric = FALSE /\ LexemeInit
FormatRests == config = FormatConfig({}, Unlimited, FALSE, FALSE, FALSE) /\ document = <<>> /\ length = 0
ValueRests == valueText = <<>> /\ frames = 0
ManifestRests == project = Unscanned /\ NothingWritten

Is(c) == component = c

Init ==
  /\ component \in Component
  /\ IF Is("engine") THEN EngineInit ELSE EngineRests
  /\ IF Is("sort") THEN SortInit ELSE SortRests
  /\ IF Is("graph") THEN GraphInit ELSE GraphRests
  /\ IF Is("links") THEN TreeInit ELSE LinksRest
  /\ IF Is("recovery") THEN RecoveryInit ELSE RecoveryRests
  /\ IF Is("statement") THEN StatementInit ELSE StatementRests
  /\ IF Is("expression") THEN ExpressionInit ELSE ExpressionRests
  /\ IF Is("kind") THEN KindInit ELSE KindRests
  /\ IF Is("idiom") THEN IdiomInit ELSE IdiomRests
  /\ IF Is("lexeme") THEN LexemeInit ELSE LexemeRests
  /\ IF Is("format") THEN FormatInit ELSE FormatRests
  /\ IF Is("value") THEN ValueInit ELSE ValueRests
  /\ SearchInit
  /\ IF Is("manifest") THEN ManifestInit ELSE ManifestRests

OthersRest ==
  /\ UNCHANGED component
  /\ IF Is("engine") THEN TRUE ELSE UNCHANGED engineVars
  /\ IF Is("sort") THEN TRUE ELSE UNCHANGED sortVars
  /\ IF Is("graph") THEN TRUE ELSE UNCHANGED graphVars
  /\ IF Is("links") THEN TRUE ELSE UNCHANGED treeVars
  /\ IF Is("recovery") THEN TRUE ELSE UNCHANGED recoveryVars
  /\ IF Is("statement") THEN TRUE ELSE UNCHANGED statementVars
  /\ IF Is("expression") THEN TRUE ELSE UNCHANGED expressionVars
  /\ IF Is("kind") THEN TRUE ELSE UNCHANGED kindVars
  /\ IF Is("idiom") THEN TRUE ELSE UNCHANGED idiomVars
  /\ IF Is("lexeme") THEN TRUE ELSE UNCHANGED lexemeVars
  /\ IF Is("format") THEN TRUE ELSE UNCHANGED formatVars
  /\ IF Is("value") THEN TRUE ELSE UNCHANGED valueVars
  /\ IF Is("symbols") THEN TRUE ELSE UNCHANGED searchVars
  /\ IF Is("manifest") THEN TRUE ELSE UNCHANGED manifestVars

Next ==
  /\ OthersRest
  /\ \/ Is("engine") /\ EngineNext
     \/ Is("sort") /\ SortNext
     \/ Is("graph") /\ GraphNext
     \/ Is("links") /\ TreeNext
     \/ Is("recovery") /\ RecoveryNext
     \/ Is("statement") /\ StatementNext
     \/ Is("expression") /\ ExpressionNext
     \/ Is("kind") /\ KindNext
     \/ Is("idiom") /\ IdiomNext
     \/ Is("lexeme") /\ LexemeNext
     \/ Is("format") /\ FormatNext
     \/ Is("value") /\ ValueNext
     \/ Is("symbols") /\ SearchNext
     \/ Is("manifest") /\ ManifestNext

-----------------------------------------------------------------------------
(* What the run checks beside the properties of the parts: those of one    *)
(* hazard together, each where its part works.                             *)

\* What the printer writes for an expression, a type, an idiom or a value is
\* read again as the same tree (tests/roundtrip.rs; RoundTrip says so of the
\* statements).
PrintedIsReadAgain ==
  /\ Is("expression") => ExpressionRoundTrip
  /\ Is("kind") => KindRoundTrip
  /\ Is("idiom") => IdiomRoundTrip
  /\ Is("value") => ValueRoundTrip

\* Where the parser has more than one function for the same texts, they read
\* the same tree, but for the texts named at each.
ParsersOfOneTextAgree ==
  /\ Is("value") => ParsersAgree
  /\ Is("idiom") => SimpleIdiomsAgree
  /\ Is("kind") => LinksAreRecords

\* Strings, names, keys and numbers are written so that the lexer reads the
\* same content and the same value.
TokensAreKept == Is("lexeme") => LexemesAreKept /\ NumeralsAreKept

\* The formatter changes blanks, the capitals of keywords and a last
\* semicolon, and its edit puts the result in place of the whole document.
FormattingIsSafe == Is("format") => FormatKeepsTokens /\ EditReplaces
=============================================================================
