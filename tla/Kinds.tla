------------------------------- MODULE Kinds -------------------------------
(***************************************************************************)
(* The types of fields, parameters and casts: how they are read and        *)
(* written, and how the schema graph finds the tables a type links to by   *)
(* searching its text.                                                     *)
(*                                                                         *)
(* A type is a word (any, none, int, a literal, ...), a list of names      *)
(* (record, table, file, geometry), an array or set of another type, a     *)
(* choice between types, or a literal array, object or string.  A name     *)
(* that is no plain word is written between backticks.                     *)
(***************************************************************************)
EXTENDS TokenText

CONSTANTS KindTexts,       \* texts of types
          KindWords,       \* the types of one word, any and none among them, and literals
          KindNames,       \* names of tables, buckets and geometries
          SpecialNames,    \* those that are written between backticks
          ObjectKeys,      \* keys of a literal object, in their order
          MaxKindTokens    \* bound: the length of a text

VARIABLE kindText   \* the text of a type in the document
kindVars == <<kindText>>

Listed == {"record", "table", "file", "geometry"}
Collection == {"array", "set"}
AnyKind == Node("word", "any", <<>>)
Backtick == "backtick"
Quote == "quote"

-----------------------------------------------------------------------------
\* Kind::either: choices in choices are lifted, and each is kept once.
Flatten(k) == IF k.kind = "either" THEN k.args ELSE <<k>>
\* Faulty variant: a choice in a choice stays one.
EitherNested(kinds) ==
  LET once == FoldLeft(LAMBDA acc, k : IF k \in Range(acc) THEN acc ELSE Append(acc, k), <<>>, kinds)
  IN  IF Len(once) = 1 THEN once[1] ELSE Node("either", "", once)
Either(kinds) ==
  LET once == FoldLeft(LAMBDA acc, k : IF k \in Range(acc) THEN acc ELSE Append(acc, k), <<>>,
                       FlattenSeq([i \in DOMAIN kinds |-> Flatten(kinds[i])]))
  IN  IF Len(once) = 1 THEN once[1] ELSE Node("either", "", once)

-----------------------------------------------------------------------------
(* The printer.                                                            *)
WriteName(n) == IF n.op \in SpecialNames THEN <<Backtick, n.op, Backtick>> ELSE <<n.op>>
Enclosed(open, inner, close) == open \o inner \o <<close>>

RECURSIVE WriteKind(_)
WriteKinds(kinds, sep) == Separated([i \in DOMAIN kinds |-> WriteKind(kinds[i])], sep)
WriteField(f) == <<f.op, ":">> \o WriteKind(f.args[1])

\* An array or set of anything and of any size is written as one word.
WriteCollection(k) ==
  CASE k.op = "" /\ k.args = <<AnyKind>> -> <<k.kind>>
    [] k.op = "" /\ k.args # <<AnyKind>> -> Enclosed(<<k.kind, "<">>, WriteKind(k.args[1]), ">")
    [] OTHER -> Enclosed(<<k.kind, "<">>, WriteKind(k.args[1]) \o <<",", k.op>>, ">")

WriteKind(k) ==
  CASE k.kind = "word" -> <<k.op>>
    [] k.kind \in Listed ->
         IF k.args = <<>> THEN <<k.kind>>
         ELSE Enclosed(<<k.kind, "<">>, Separated([i \in DOMAIN k.args |-> WriteName(k.args[i])], "|"), ">")
    [] k.kind \in Collection -> WriteCollection(k)
    [] k.kind = "either" -> WriteKinds(k.args, "|")
    [] k.kind = "[" -> Enclosed(<<"[">>, WriteKinds(k.args, ","), "]")
    [] k.kind = "{" -> Enclosed(<<"{">>, Separated([i \in DOMAIN k.args |-> WriteField(k.args[i])], ","), "}")
    [] k.kind = Quote -> Enclosed(<<Quote>>, [i \in DOMAIN k.args |-> k.args[i].op], Quote)

\* The type of a closure's argument: a choice in < and >.
WriteArgument(k) == IF k.kind = "either" THEN Enclosed(<<"<">>, WriteKind(k), ">") ELSE WriteKind(k)

-----------------------------------------------------------------------------
(* The parser.                                                             *)
ParseName(text, i) ==
  CASE TokenAt(text, i) \in KindNames \ SpecialNames -> Parsed(Leaf(text[i]), i + 1)
    [] TokenAt(text, i) = Backtick -> Closed(text, i + 2, Backtick, Leaf(TokenAt(text, i + 1)))
    [] OTHER -> Failed

\* Names between bars.
RECURSIVE ParseNames(_, _, _)
ParseNames(text, i, names) ==
  AndThen(ParseName(text, i), LAMBDA n, next :
    IF TokenAt(text, next) = "|" THEN ParseNames(text, next + 1, Append(names, n))
    ELSE Parsed(Node("names", "", Append(names, n)), next))

ParseListed(text, i) ==
  IF TokenAt(text, i + 1) # "<" THEN Parsed(Node(text[i], "", <<>>), i + 1)
  ELSE AndThen(ParseNames(text, i + 2, <<>>), LAMBDA names, next :
         Closed(text, next, ">", Node(text[i], "", names.args)))

RECURSIVE ParseInner(_, _), ParseConcrete(_, _), ParseChoices(_, _, _), ParseArray(_, _, _), ParseObject(_, _, _)

ParseCollection(text, i) ==
  IF TokenAt(text, i + 1) # "<" THEN Parsed(Node(text[i], "", <<AnyKind>>), i + 1)
  ELSE AndThen(ParseInner(text, i + 2), LAMBDA inner, next :
         IF TokenAt(text, next) # "," THEN Closed(text, next, ">", Node(text[i], "", <<inner>>))
         ELSE IF TokenAt(text, next + 1) = "5" THEN Closed(text, next + 2, ">", Node(text[i], "5", <<inner>>))
         ELSE Failed)

\* The elements of a literal array and object; the comma may be left out,
\* and of two fields with one key the last counts.
SkipComma(text, i) == IF TokenAt(text, i) = "," THEN i + 1 ELSE i
ParseArray(text, i, kinds) ==
  IF TokenAt(text, i) = "]" THEN Parsed(Node("[", "", kinds), i + 1)
  ELSE AndThen(ParseInner(text, i), LAMBDA k, next : ParseArray(text, SkipComma(text, next), Append(kinds, k)))

ObjectOf(fields) ==
  LET LastOf(key) == SelectLastInSeq(fields, LAMBDA f : f.op = key)
      keys == SelectSeq(ObjectKeys, LAMBDA key : LastOf(key) > 0)
  IN  Node("{", "", [i \in DOMAIN keys |-> fields[LastOf(keys[i])]])
ParseObject(text, i, fields) ==
  CASE TokenAt(text, i) = "}" -> Parsed(ObjectOf(fields), i + 1)
    [] TokenAt(text, i) \in Range(ObjectKeys) /\ TokenAt(text, i + 1) = ":" ->
         AndThen(ParseInner(text, i + 2), LAMBDA k, next :
           ParseObject(text, SkipComma(text, next), Append(fields, Node("field", text[i], <<k>>))))
    [] OTHER -> Failed

\* A literal string: whatever there is up to the next quote.
ParseString(text, i) ==
  LET ends == {j \in i + 1..Len(text) : text[j] = Quote}
      end == CHOOSE j \in ends : \A k \in ends : j <= k
  IN  IF ends = {} THEN Failed
      ELSE Parsed(Node(Quote, "", [j \in 1..end - i - 1 |-> Leaf(text[i + j])]), end + 1)

\* One type, but for any, an option or a choice; point is a geometry.
ParseConcrete(text, i) ==
  LET token == TokenAt(text, i)
  IN  CASE token \in KindWords \ {"any"} -> Parsed(Node("word", token, <<>>), i + 1)
        [] token = "point" -> Parsed(Node("geometry", "", <<Leaf("point")>>), i + 1)
        [] token \in Listed -> ParseListed(text, i)
        [] token \in Collection -> ParseCollection(text, i)
        [] token = "[" -> ParseArray(text, i + 1, <<>>)
        [] token = "{" -> ParseObject(text, i + 1, <<>>)
        [] token = Quote -> ParseString(text, i)
        [] OTHER -> Failed

\* More choices after bars.
ParseChoices(text, i, kinds) ==
  IF TokenAt(text, i) # "|" THEN Parsed(Node("kinds", "", kinds), i)
  ELSE AndThen(ParseConcrete(text, i + 1), LAMBDA k, next : ParseChoices(text, next, Append(kinds, k)))

NoneKind == Node("word", "none", <<>>)
ParseOption(text, i) ==
  IF TokenAt(text, i + 1) # "<" THEN Failed
  ELSE AndThen(ParseConcrete(text, i + 2), LAMBDA first, next :
         AndThen(ParseChoices(text, next, <<NoneKind, first>>), LAMBDA all, end :
           Closed(text, end, ">", Either(all.args))))

ParseSingle(text, i) ==
  CASE TokenAt(text, i) = "any" -> Parsed(AnyKind, i + 1)
    [] TokenAt(text, i) = "option" -> ParseOption(text, i)
    [] OTHER -> ParseConcrete(text, i)

\* After any there is no choice left.
ParseInner(text, i) ==
  AndThen(ParseSingle(text, i), LAMBDA first, next :
    IF first = AnyKind \/ TokenAt(text, next) # "|" THEN Parsed(first, next)
    ELSE Then(ParseChoices(text, next, <<first>>), LAMBDA all : Either(all.args)))

ParseArgument(text, i) ==
  IF TokenAt(text, i) # "<" THEN ParseSingle(text, i)
  ELSE AndThen(ParseInner(text, i + 1), LAMBDA inner, next : Closed(text, next, ">", inner))

-----------------------------------------------------------------------------
\* extract_record_links: the search for record< in the written type; what
\* stands between the bars up to the next > is the name of a table.
LinksIn(text) ==
  LET Starts == {i \in 1..Len(text) - 1 : text[i] = "record" /\ text[i + 1] = "<"}
      Closes(i) == {j \in i + 2..Len(text) : text[j] = ">"}
      Bars(i) == {i + 1} \cup {j \in i + 2..Len(text) : text[j] = "|" /\ \A k \in Closes(i) : j < k}
      EndOf(b, i) == CHOOSE e \in {j \in b + 1..Len(text) : text[j] \in {"|", ">"}} :
                       \A j \in b + 1..e - 1 : text[j] \notin {"|", ">"}
  IN  UNION {{SubSeq(text, b + 1, EndOf(b, i) - 1) : b \in Bars(i)} : i \in {s \in Starts : Closes(s) # {}}}

RECURSIVE RecordTables(_)
RecordTables(k) ==
  (IF k.kind = "record" THEN {<<k.args[i].op>> : i \in DOMAIN k.args} ELSE {})
    \cup UNION {RecordTables(k.args[i]) : i \in DOMAIN k.args}

-----------------------------------------------------------------------------
KindInit == kindText \in KindTexts

\* The user puts the type into another one.
NestKind ==
  /\ Len(kindText) < MaxKindTokens
  /\ kindText' \in {Enclosed(<<"option", "<">>, kindText, ">"), Enclosed(<<"array", "<">>, kindText, ">"),
                    Enclosed(<<"set", "<">>, kindText \o <<",", "5">>, ">"), kindText \o <<"|", "none">>,
                    Enclosed(<<"[">>, kindText, "]"), Enclosed(<<"{", ObjectKeys[1], ":">>, kindText, "}")}

\* The document is formatted.
FormatKind == kindText' \in {WriteKind(k) : k \in Whole(ParseInner(kindText, 1), kindText)}

KindNext == NestKind \/ FormatKind
KindSpec == KindInit /\ [][KindNext]_kindVars

-----------------------------------------------------------------------------
\* A type that was read, and is written by its printer, is read again as
\* the same tree, and so it is as the type of a closure's argument
\* (tests/roundtrip.rs).
KindRoundTrip ==
  \A k \in Whole(ParseInner(kindText, 1), kindText) :
    /\ Whole(ParseInner(WriteKind(k), 1), WriteKind(k)) = {k}
    /\ Whole(ParseArgument(WriteArgument(k), 1), WriteArgument(k)) = {k}

\* The search of the text finds the tables the type links to, however deep
\* they are, and no others; but a name in backticks is found with them, and
\* a literal string may hold what looks like a link.
LinksAreRecords ==
  \A k \in Whole(ParseInner(kindText, 1), kindText) :
    ({kindText[i] : i \in DOMAIN kindText} \cap {Backtick, Quote} = {}) => LinksIn(WriteKind(k)) = RecordTables(k)
=============================================================================
