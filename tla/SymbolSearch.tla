---------------------------- MODULE SymbolSearch ----------------------------
(***************************************************************************)
(* The language server's search for symbols (lsp/src/context.rs) and the   *)
(* renaming of a table (rename, lsp/src/server.rs).  Nothing is parsed: a  *)
(* text is a sequence of the lexer's tokens, and the functions look at the *)
(* words around a token.  What they should find is known here because each *)
(* token was typed in a role: as a table, as a field of a table, or        *)
(* neither.  Words stand for their spellings up to capitals, which is how  *)
(* the functions compare them; ^t is t in backticks.  A cursor is inside a *)
(* token, behind its first character.                                      *)
(***************************************************************************)
EXTENDS Integers, Sequences, SequencesExt, FiniteSets, FiniteSetsExt

CONSTANTS
  TableNames, FieldNames,
  NewName,       \* a name that no text has, for a renaming
  MaxSearched    \* bound: statements of a text

VARIABLES
  searched,      \* the text: its tokens with their roles
  renamed        \* the table that was renamed, or NoSymbol

searchVars == <<searched, renamed>>

NoSymbol == ""

-----------------------------------------------------------------------------
\* Tokens.  The lexer has a kind of its own for each word it knows.

Terminator == ";"
Punctuation == {Terminator, ":", ".", "<", ">", "{", "}", "(", ")", ",", "=", "*", "|", "1", "$p"}

PlainNames == {"t", "u", "f", "n", "^t", NewName}

IsWord(w, i) == i \in DOMAIN w /\ w[i] \notin Punctuation
KeywordAt(w, i, words) == i \in DOMAIN w /\ w[i] \in words /\ w[i] \notin PlainNames

Strip(word) == IF word = "^t" THEN "t" ELSE word

BuiltinTables == {"NONE", "NULL", "TRUE", "FALSE", "ONLY", "TYPE", "IF", "ELSE", "THEN", "END"}

DmlKeywords ==
  {"SELECT", "FROM", "WHERE", "SET", "CONTENT", "MERGE", "RETURN", "LIMIT", "ORDER", "BY", "GROUP",
   "FETCH", "TIMEOUT", "PARALLEL", "EXPLAIN", "DEFINE", "TABLE", "FIELD", "INDEX", "EVENT", "ON",
   "TYPE", "VALUE", "DEFAULT", "ASSERT", "PERMISSIONS", "CREATE", "UPDATE", "DELETE", "INSERT",
   "INTO", "UPSERT", "AND", "OR", "NOT", "IN", "IS", "LET", "IF", "ELSE", "THEN", "END", "FOR",
   "BREAK", "CONTINUE", "BEGIN", "CANCEL", "COMMIT", "ONLY", "SCHEMAFULL", "SCHEMALESS", "AS",
   "UNIQUE", "WHEN", "LIVE", "SPLIT", "WITH", "ASC", "DESC", "COLLATE", "NUMERIC", "TRUE", "FALSE",
   "NONE", "NULL", "FLEXIBLE", "READONLY", "OVERWRITE"}

\* The keyword at i is one that a table's name follows.
TableKeywords == {"FROM", "UPDATE", "CREATE", "DELETE", "UPSERT"}
TakesTable(w, i) ==
  \/ KeywordAt(w, i, TableKeywords)
  \/ KeywordAt(w, i, {"INTO"}) /\ KeywordAt(w, i - 1, {"INSERT"})

\* Positions; 0 when there is none.
SkipModifiers(w, i) ==
  SelectInSubSeq(w, i + 1, Len(w), LAMBDA word : word \notin {"ONLY", "TABLE"})

Skip(w, i, modifier) == IF KeywordAt(w, i + 1, {modifier}) THEN i + 2 ELSE i + 1
SkipOnly(w, i) == LET j == Skip(w, i, "ONLY") IN IF IsWord(w, j) THEN j ELSE 0
SkipTable(w, i) == LET j == Skip(w, i, "TABLE") IN IF IsWord(w, j) THEN j ELSE 0

\* extract_table_name
TableNameAfter(w, i) ==
  LET j == Skip(w, Skip(w, i, "ONLY") - 1, "TABLE")
  IN  IF IsWord(w, j) THEN Strip(w[j]) ELSE NoSymbol

StatementEnd(w, i) == Min({k \in i..Len(w) : w[k] = Terminator} \cup {Len(w) + 1})
StatementStart(w, i) == Max({k \in 1..i - 1 : w[k] = Terminator} \cup {0}) + 1

KeywordAfter(w, i, word) ==
  SelectInSubSeq(w, i + 1, StatementEnd(w, i + 1) - 1, LAMBDA x : x = word)

OnTableAfter(w, i) ==
  LET on == KeywordAfter(w, i, "ON")
      table == IF on = 0 THEN 0 ELSE SkipTable(w, on)
  IN  IF table = 0 THEN NoSymbol ELSE Strip(w[table])

-----------------------------------------------------------------------------
\* The searches.

\* extract_all_table_occurrences
\* Faulty variant: the table of an event is forgotten.
OnFieldOrIndex(w, i) ==
  KeywordAt(w, i, {"ON"}) /\ \E j \in 1..i - 1 : KeywordAt(w, j, {"FIELD", "INDEX"})

OnTakesTable(w, i) ==
  KeywordAt(w, i, {"ON"}) /\ \E j \in 1..i - 1 : KeywordAt(w, j, {"FIELD", "INDEX", "EVENT"})

Occurs(w, j) ==
  \/ KeywordAt(w, j - 1, {"TABLE"}) /\ KeywordAt(w, j - 2, {"DEFINE"})
  \/ \E i \in 1..j - 1 : (TakesTable(w, i) \/ OnTakesTable(w, i)) /\ SkipModifiers(w, i) = j
  \/ j > 2 /\ w[j - 1] = "<" /\ w[j - 2] = "RECORD"
  \/ j > 2 /\ w[j - 1] # "." /\ j < Len(w) /\ w[j + 1] = ":"

Occurrences(w, table) == {j \in DOMAIN w : IsWord(w, j) /\ Strip(w[j]) = table /\ Occurs(w, j)}

\* extract_table_references: the tables that the statements, but for
\* definitions, are about.
InDefinition(w, i) == \E j \in StatementStart(w, i)..i - 1 : KeywordAt(w, j, {"DEFINE"})

TableReferences(w) ==
  {j \in DOMAIN w :
     /\ IsWord(w, j) /\ Strip(w[j]) \notin BuiltinTables
     /\ \E i \in 1..j - 1 :
          TakesTable(w, i) /\ ~InDefinition(w, i) /\ SkipModifiers(w, i) = j}

\* table_context_at_position: the table that a cursor behind token n is
\* about, from the last word before it that tells.
OnDefines(w, i) ==
  /\ KeywordAt(w, i, {"ON"})
  /\ \E j \in 2..i - 1 :
       /\ KeywordAt(w, j, {"FIELD", "INDEX", "EVENT"}) /\ KeywordAt(w, j - 1, {"DEFINE"})
       /\ \A k \in j + 1..i - 1 :
            /\ ~KeywordAt(w, k, {"FIELD", "INDEX", "EVENT", "DEFINE"})
            /\ IsWord(w, k) \/ w[k] \in {"<", ">", "."}

TableContext(w, n) ==
  LET before == SubSeq(w, 1, n)
      tells == {i \in StatementStart(w, n + 1)..n : TakesTable(before, i) \/ OnDefines(before, i)}
  IN  IF tells = {} THEN NoSymbol ELSE TableNameAfter(before, Max(tells))

\* classify_symbol_at_position: what the word at i makes of a cursor in
\* token c.  The word under the cursor goes on over colons.
WordAt(w, c) ==
  IF (c < Len(w) /\ w[c + 1] = ":") \/ (c > 1 /\ w[c - 1] = ":") THEN ":" ELSE Strip(w[c])

IsTable(name) == [kind |-> "table", table |-> name, field |-> NoSymbol]
IsField(table, name) == [kind |-> "field", table |-> table, field |-> name]
UnknownSymbol == [kind |-> "unknown", table |-> NoSymbol, field |-> NoSymbol]

FieldDefined(w, i, c) ==
  LET table == OnTableAfter(w, i + 1)
      on == KeywordAfter(w, i, "ON")
  IN  IF IsWord(w, i + 1) /\ table # NoSymbol /\ (i + 1 = c \/ Strip(w[i + 1]) = WordAt(w, c))
        THEN IsField(table, Strip(w[i + 1]))
      ELSE IF on # 0 /\ SkipTable(w, on) = c THEN IsTable(Strip(w[c]))
      ELSE UnknownSymbol

TableNamed(w, i, c) ==
  LET j == SkipOnly(w, i)
      table == TableNameAfter(w, i)
  IN  IF j = c THEN IsTable(Strip(w[c]))
      ELSE IF table # NoSymbol /\ c > (IF j = 0 THEN i + 1 ELSE j) THEN IsField(table, WordAt(w, c))
      ELSE UnknownSymbol

SymbolFrom(w, i, c) ==
  CASE KeywordAt(w, i, {"FIELD"}) /\ KeywordAt(w, i - 1, {"DEFINE"}) -> FieldDefined(w, i, c)
    [] KeywordAt(w, i, {"TABLE"}) /\ KeywordAt(w, i - 1, {"DEFINE"}) -> IsTable(WordAt(w, c))
    [] TakesTable(w, i) -> TableNamed(w, i, c)
    [] KeywordAt(w, i, {"ON"}) /\ SkipTable(w, i) = c -> IsTable(Strip(w[c]))
    [] OTHER -> UnknownSymbol

Classify(w, c) ==
  LET tells == {i \in StatementStart(w, c)..c : SymbolFrom(w, i, c) # UnknownSymbol}
  IN  IF tells = {} THEN UnknownSymbol ELSE SymbolFrom(w, Max(tells), c)

\* find_field_references: behind its table and a dot, where it is defined,
\* and in statements that are about its table.
BareFields(w, i, field) ==
  LET table == SkipModifiers(w, i)
      first == (IF table = 0 THEN i + 1 ELSE table) + 1
  IN  {j \in first..StatementEnd(w, i) - 1 :
         IsWord(w, j) /\ Strip(w[j]) = field /\ w[j - 1] # "." /\ field \notin DmlKeywords}

FieldReferences(w, table, field) ==
  {j \in 3..Len(w) : /\ IsWord(w, j) /\ Strip(w[j]) = field /\ w[j - 1] = "."
                     /\ IsWord(w, j - 2) /\ Strip(w[j - 2]) = table}
  \cup {j \in 3..Len(w) : /\ IsWord(w, j) /\ Strip(w[j]) = field
                          /\ KeywordAt(w, j - 1, {"FIELD"}) /\ KeywordAt(w, j - 2, {"DEFINE"})
                          /\ OnTableAfter(w, j) = table}
  \cup UNION {BareFields(w, i, field) :
                i \in {i \in DOMAIN w : TakesTable(w, i) /\ TableNameAfter(w, i) = table}}

-----------------------------------------------------------------------------
\* What a user types: statements with a table "T", another one "U", a field
\* "F" of the first and a path "P" that starts like it.

CONSTANT SearchedStatements   \* statements of any form, with these words in them

\* The functions know some forms of statements, which are spelled out here: in
\* one of another form they miss tables, or take other words for tables.

\* A statement as its words, at i a keyword: what follows, but for a modifier.
Behind(s, i, modifier) == IF i + 1 \in DOMAIN s /\ s[i + 1] = modifier THEN i + 2 ELSE i + 1
StandsAt(s, i, words) == i \in DOMAIN s /\ s[i] \in words

TableWords == TableKeywords \cup {"INTO"}
Symbols == {"T", "U", "F", "P"}
IsAbout(s, i) == StandsAt(s, i, TableWords) /\ StandsAt(s, Behind(s, i, "ONLY"), {"T"})
DefinesTable(s) == StandsAt(s, 1, {"DEFINE"}) /\ StandsAt(s, 2, {"TABLE"}) /\ StandsAt(s, 3, {"T"})
DefinesOn(s) ==
  /\ StandsAt(s, 1, {"DEFINE"}) /\ StandsAt(s, 2, {"FIELD", "INDEX", "EVENT"})
  /\ StandsAt(s, 4, {"ON"}) /\ StandsAt(s, Behind(s, 4, "TABLE"), {"T"})

\* A keyword that a table follows is followed by it, by FROM, or, the last
\* one and with no other symbol behind, by a field.
EndsInField(s, i) ==
  /\ StandsAt(s, i, {"UPDATE"}) /\ StandsAt(s, i + 1, {"F"})
  /\ \A k \in DOMAIN s : k > i + 1 => s[k] \notin Symbols \cup TableWords
DeletesFrom(s, i) == StandsAt(s, i, {"DELETE"}) /\ StandsAt(s, i + 1, {"FROM"})
TableWordsStand(s) ==
  /\ \A i \in DOMAIN s : s[i] \in TableWords => IsAbout(s, i) \/ DeletesFrom(s, i) \/ EndsInField(s, i)
  /\ \A i, k \in DOMAIN s : i < k /\ {s[i], s[k]} \subseteq TableWords =>
       (k = i + 1 /\ DeletesFrom(s, i)) \/ EndsInField(s, k)
  /\ \A i \in DOMAIN s : s[i] = "INTO" => StandsAt(s, i - 1, {"INSERT"})

\* A definition is of a table and has no field, or it is of something ON a
\* table; then FIELD has its field.  Another ON has neither.
DefinitionsStand(s) ==
  /\ \A i \in DOMAIN s : s[i] = "DEFINE" => i = 1
  /\ StandsAt(s, 1, {"DEFINE"}) =>
       /\ \A i \in DOMAIN s : s[i] \notin TableWords
       /\ \/ DefinesTable(s) /\ \A i \in DOMAIN s : s[i] \notin {"F", "ON"}
          \/ DefinesOn(s) /\ \A i \in DOMAIN s : s[i] = "ON" => i = 4
       /\ s[2] = "FIELD" <=> s[3] = "F"
       /\ s[3] \notin Punctuation \cup {"P", "FIELD", "INDEX", "EVENT"}
  /\ ~StandsAt(s, 1, {"DEFINE"}) => \A i \in DOMAIN s : s[i] = "ON" => ~StandsAt(s, i + 1, Symbols \cup {"ONLY", "TABLE"})

\* Where a table stands: in a link or a record id, or else behind a keyword.
IsLinked(s, i) ==
  \/ StandsAt(s, i - 1, {"<"}) /\ StandsAt(s, i - 2, {"RECORD"})
  \/ StandsAt(s, i + 1, {":"}) /\ i > 2 /\ ~StandsAt(s, i - 1, TableWords \cup {"."})
TablesStand(s) ==
  /\ \A i \in DOMAIN s : s[i] = "U" => IsLinked(s, i)
  /\ \A i \in DOMAIN s : s[i] = "T" =>
       \/ IsLinked(s, i)
       \/ i = 3 /\ DefinesTable(s) /\ ~StandsAt(s, 4, {":"})
       \/ i = Behind(s, 4, "TABLE") /\ DefinesOn(s)
       \/ \E k \in DOMAIN s : IsAbout(s, k) /\ i = Behind(s, k, "ONLY")
  /\ \A i \in DOMAIN s : StandsAt(s, i - 1, {"<"}) /\ StandsAt(s, i - 2, {"RECORD"}) => s[i] \in {"T", "U"}
  /\ \A i \in DOMAIN s : StandsAt(s, i + 1, {":"}) => s[i] \in {"T", "U", "F"} \cup Punctuation

\* Where a field stands: behind a path, as what is defined, behind the table
\* of its statement, or before it; and a path before it.
FieldsStand(s) ==
  /\ \A i \in DOMAIN s : s[i] = "F" =>
       /\ i > 1 /\ s[i - 1] # ":"
       /\ \/ s[i - 1] \in {".", "FIELDS", "SELECT"}
          \/ i = 3 /\ DefinesOn(s)
          \/ \E k \in DOMAIN s : IsAbout(s, k) /\ Behind(s, k, "ONLY") < i
  /\ \A i \in DOMAIN s : s[i] = "." => StandsAt(s, i - 1, {"P"}) /\ StandsAt(s, i + 1, {"F"})
  /\ \A i \in DOMAIN s : s[i] = "P" => \A k \in DOMAIN s : k < i => s[k] \notin TableWords

\* Its other words are not called like a field, nor behind an ON like a table.
OthersStand(s) ==
  \A i \in DOMAIN s : s[i] \notin Symbols =>
    /\ Strip(s[i]) \in FieldNames => Strip(s[i]) \in DmlKeywords
    /\ StandsAt(s, i - 1, {"ON"}) => \A t \in TableNames \cup {NewName} : Strip(s[i]) # Strip(t)

Stands(s) ==
  TableWordsStand(s) /\ DefinitionsStand(s) /\ TablesStand(s) /\ FieldsStand(s) /\ OthersStand(s)

\* The words of which a statement is made are not names.
ComparedWords == TableWords \cup Punctuation \cup {"DEFINE", "ON", "ONLY", "TABLE", "RECORD"}
OtherWords == (UNION {Range(s) : s \in SearchedStatements}) \ Symbols
ASSUME SearchAssumption ==
  /\ \A s \in SearchedStatements :
       s \in Seq(Range(s)) /\ Len(s) > 0 /\ \A i \in DOMAIN s : s[i] = Terminator <=> i = Len(s)
  /\ \A t \in TableNames : t \notin ComparedWords /\ Strip(t) \notin BuiltinTables \cup {NoSymbol, NewName}
  /\ \A f \in FieldNames : f \notin ComparedWords \cup {"FIELD", "INDEX", "EVENT", NewName}
  /\ NewName \notin ComparedWords \cup BuiltinTables \cup {NoSymbol, "FIELD", "INDEX", "EVENT", "INSERT", "^t"}

\* The statements of such forms; a token knows whether it stands in one.
KnownStatements == {s \in SearchedStatements : Stands(s)}
FormOf(s) == IF s \in KnownStatements THEN "known" ELSE "other"
Typed(word, t, u, f, form) ==
  CASE word = "T" -> [word |-> t, role |-> "table", of |-> NoSymbol, form |-> form]
    [] word = "U" -> [word |-> u, role |-> "table", of |-> NoSymbol, form |-> form]
    [] word = "F" -> [word |-> f, role |-> "field", of |-> Strip(t), form |-> form]
    [] word = "P" -> [word |-> t, role |-> "other", of |-> NoSymbol, form |-> form]
    [] OTHER -> [word |-> word, role |-> "other", of |-> NoSymbol, form |-> form]

Words(text) == [i \in DOMAIN text |-> text[i].word]
AllTables == {i \in DOMAIN searched : searched[i].role = "table"}
Standing == {i \in DOMAIN searched : searched[i].form = "known"}
HasRole(role) == {i \in Standing : searched[i].role = role}
NameOf(i) == Strip(searched[i].word)

SearchInit == searched = <<>> /\ renamed = NoSymbol

TypeStatement ==
  /\ renamed = NoSymbol
  /\ Cardinality({i \in DOMAIN searched : searched[i].word = Terminator}) < MaxSearched
  /\ \E s \in SearchedStatements, t, u \in TableNames, f \in FieldNames :
       searched' = searched \o [i \in DOMAIN s |-> Typed(s[i], t, u, f, FormOf(s))]
  /\ UNCHANGED renamed

\* The tables of the workspace's schema, which the parser finds.
SchemaTables ==
  LET w == Words(searched)
  IN  {NameOf(i) : i \in {i \in AllTables :
         LET start == StatementStart(w, i) IN
         /\ KeywordAt(w, start, {"DEFINE"}) /\ KeywordAt(w, start + 1, {"TABLE"})
         /\ \A k \in start + 2..i - 1 : w[k] \in {"OVERWRITE", "IF", "NOT", "EXISTS"}}}

\* rename, of the table under the cursor.
RenameTable ==
  /\ renamed = NoSymbol
  /\ \E c \in DOMAIN searched :
       LET w == Words(searched) IN
       /\ IsWord(w, c) /\ WordAt(w, c) \in SchemaTables
       /\ renamed' = WordAt(w, c)
       /\ searched' = [i \in DOMAIN w |->
            [word |-> IF i \in Occurrences(w, WordAt(w, c)) THEN NewName ELSE w[i],
             role |-> searched[i].role, form |-> searched[i].form,
             of |-> IF searched[i].of = WordAt(w, c) THEN NewName ELSE searched[i].of]]

SearchNext == TypeStatement \/ RenameTable

SearchSpec == SearchInit /\ [][SearchNext]_searchVars

-----------------------------------------------------------------------------
\* What follows is said of the tokens of statements of a known form, whatever
\* stands in the text around them.

\* Fields that are taken for a table: the key of an object, since a colon
\* stands behind it, and the first field that ON DUPLICATE KEY UPDATE sets.
Mistaken ==
  LET w == Words(searched)
  IN  {i \in HasRole("field") : (i < Len(w) /\ w[i + 1] = ":") \/ w[i - 1] = "UPDATE"}

\* The occurrences of a table, which a renaming changes, are the tokens that
\* name it, whatever else is called like it, but for fields that are mistaken.
OccurrencesAreTables ==
  LET w == Words(searched)
  IN  \A t \in {NameOf(i) : i \in HasRole("table")} :
        LET named == {i \in HasRole("table") : NameOf(i) = t}
            found == Occurrences(w, t) \cap Standing
        IN  named \subseteq found /\ found \subseteq named \cup Mistaken

\* A table that is the target of a link or of a record id; no statement is
\* about it.
Linked ==
  LET w == Words(searched)
  IN  {i \in HasRole("table") :
         w[i - 1] = "<" \/ (i < Len(w) /\ w[i + 1] = ":" /\ ~TakesTable(w, i - 1))}

\* What the diagnostics warn about is what a renaming changes: a reference
\* to a table is an occurrence of it, and the table of each statement is a
\* reference.  FROM behind DELETE is taken for a table.
ReferencesAreOccurrences ==
  LET w == Words(searched)
      references == TableReferences(w)
  IN  /\ \A i \in references : i \in Occurrences(w, NameOf(i))
      /\ \A i \in (references \cap Standing) \ Mistaken :
           i \in HasRole("table") \/ (w[i] = "FROM" /\ w[i - 1] = "DELETE")
      /\ \A i \in HasRole("table") \ Linked : InDefinition(w, i) \/ i \in references

\* The symbol under a cursor is the table, or the field of its table, that
\* was typed, or it is not known.
CursorsAreRight ==
  LET w == Words(searched) IN
  /\ \A c \in HasRole("table") \ Linked : Classify(w, c) = IsTable(NameOf(c))
  /\ \A c \in HasRole("field") \ Mistaken :
       Classify(w, c) \in {IsField(searched[c].of, NameOf(c)), UnknownSymbol}

\* Behind its table a cursor is about the table of its statement.
ContextIsTheTable ==
  LET w == Words(searched)
      newTables == {i \in HasRole("table") : KeywordAt(w, i - 1, {"TABLE"}) /\ KeywordAt(w, i - 2, {"DEFINE"})}
  IN  \A i \in HasRole("table") \ (Linked \cup newTables) : \A n \in i..StatementEnd(w, i) - 1 :
        (\A k \in Mistaken : ~(i < k /\ k <= n + 1)) => TableContext(w, n) = NameOf(i)

\* The references of a field are its own, but for a table before a colon that
\* is called like it; and behind its table none of them is missed, but for
\* fields called like a keyword, and paths from a table that was renamed.
FieldsAreTheirTables ==
  LET w == Words(searched)
      fields(t, f) == {i \in HasRole("field") : NameOf(i) = f /\ searched[i].of = t}
  IN  \A t \in {NameOf(i) : i \in HasRole("table")}, f \in FieldNames :
        /\ FieldReferences(w, t, f) \cap Standing \subseteq fields(t, f) \cup Linked
        /\ f \notin DmlKeywords =>
             \A i \in fields(t, f) :
               \/ i \in FieldReferences(w, t, f) \/ w[i - 1] \in {"FIELDS", "SELECT"}
               \/ w[i - 1] = "." /\ renamed # NoSymbol

\* A renaming leaves no token behind that names the table.
RenamedIsGone == renamed # NoSymbol => \A i \in HasRole("table") : NameOf(i) # renamed

\* In the statements whose forms they know, what the language server's searches
\* find around a token, with no parser, is what was typed there: the tables,
\* the symbol under a cursor, the references of a field; and a renaming changes
\* every name of the table, and nothing else but fields that are mistaken
\* (context.rs, rename).
SymbolsAreFound ==
  /\ OccurrencesAreTables /\ RenamedIsGone /\ ReferencesAreOccurrences
  /\ CursorsAreRight /\ ContextIsTheTable /\ FieldsAreTheirTables

\* The search that a renaming uses extracts "ALL occurrences of a table name"
\* (context.rs:305), in statements of any form: none is left behind.
RenamedEverywhere == renamed # NoSymbol => \A i \in AllTables : NameOf(i) # renamed
=============================================================================
