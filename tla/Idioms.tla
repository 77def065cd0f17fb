------------------------------- MODULE Idioms -------------------------------
(***************************************************************************)
(* Idioms, the paths to a value: their parts, the lookups of graph edges   *)
(* and references among them, and the plain, basic and local idioms that   *)
(* allow fewer parts.                                                      *)
(*                                                                         *)
(* "f" and "g" are names, "1" and "2" digits, "k" the key of a record, "e" *)
(* an expression that needs no parentheses and "b" one that does.          *)
(***************************************************************************)
EXTENDS TokenText

CONSTANTS IdiomStarts,   \* texts an idiom may start with
          PartTexts,     \* texts of parts
          MaxParts       \* bound: the parts that are added

VARIABLES idiomText,     \* the text of an idiom
          added          \* the parts that were added to it
idiomVars == <<idiomText, added>>

Name == {"f", "g"}
Digits == {"1", "2"}
Arrow == {"->", "<-", "<->", "<~"}
Operand == {"e", "b", "1", "2"}
Part(kind) == Node(kind, "", <<>>)

-----------------------------------------------------------------------------
(* The printer.                                                            *)
LookupClauses == <<"SELECT", "WHERE", "SPLIT", "GROUP", "ORDER", "LIMIT", "START", "AS">>

WriteBounds(b) ==
  (IF b[1].op = "un" THEN <<>> ELSE IF b[1].op = "ex" THEN <<"k", ">">> ELSE <<"k">>)
    \o <<"..">> \o (IF b[2].op = "un" THEN <<>> ELSE IF b[2].op = "in" THEN <<"=", "k">> ELSE <<"k">>)
\* What a lookup leads to: a table, with a range of keys and, for a
\* reference, the field that refers.
WriteSubject(s) ==
  <<s.op>> \o FlattenSeq([i \in DOMAIN s.args |->
    IF s.args[i].kind = "range" THEN <<":">> \o WriteBounds(s.args[i].args)
    ELSE <<"FIELD", s.args[i].op>>])

Subjects(l) == SelectSeq(l.args, LAMBDA n : n.kind = "subject")
ClauseOf(l, key) == SelectSeq(l.args, LAMBDA n : n.kind = key)
WriteClause(l, key) == IF ClauseOf(l, key) = <<>> THEN <<>> ELSE <<key, ClauseOf(l, key)[1].op>>

\* Faulty variant: the field that refers does not matter either.
ShortWithField(l) ==
  /\ Len(Subjects(l)) <= 1
  /\ \A key \in {"SELECT", "WHERE", "AS"} : ClauseOf(l, key) = <<>>

\* Written without parentheses; LIMIT and START do not matter here.
Short(l) ==
  /\ Len(Subjects(l)) <= 1
  /\ \A i \in DOMAIN Subjects(l) : \A j \in DOMAIN Subjects(l)[i].args :
       LET n == Subjects(l)[i].args[j] IN n.kind = "range" /\ n.args[2].op # "un"
  /\ \A key \in {"SELECT", "WHERE", "AS"} : ClauseOf(l, key) = <<>>

WriteWhat(l) ==
  IF Subjects(l) = <<>> THEN <<"?">>
  ELSE Separated([i \in DOMAIN Subjects(l) |-> WriteSubject(Subjects(l)[i])], ",")
WriteLookup(l) ==
  IF Short(l) THEN <<l.op>> \o WriteWhat(l)
  ELSE <<l.op, "(">> \o WriteClause(l, "SELECT")
         \o (IF ClauseOf(l, "SELECT") = <<>> THEN <<>> ELSE <<"FROM">>) \o WriteWhat(l)
         \o FlattenSeq([i \in 1..Len(LookupClauses) - 1 |-> WriteClause(l, LookupClauses[i + 1])]) \o <<")">>

WriteRecurse(r) ==
  FlattenSeq([i \in DOMAIN r.args |-> CASE r.args[i].kind = "bounds" -> [j \in DOMAIN r.args[i].args |-> r.args[i].args[j].op]
    [] r.args[i].kind = "instruction" ->
         <<"+", r.args[i].op>> \o (IF r.args[i].op = "shortest" THEN <<"=", "e">> ELSE <<>>)
           \o (IF r.args[i].args = <<>> THEN <<>> ELSE <<"+", "inclusive">>)
    [] OTHER -> <<>>])

RECURSIVE WritePart(_), WriteIdiom(_), WriteDestructured(_)
WriteParts(parts) == FlattenSeq([i \in DOMAIN parts |-> WritePart(parts[i])])
WriteDestructure(parts) ==
  <<"{">> \o Separated([i \in DOMAIN parts |-> WriteDestructured(parts[i])], ",") \o <<"}">>
WriteDestructured(d) ==
  CASE d.kind = "all" -> <<d.op, ".", "*">>
    [] d.kind = "aliased" -> <<d.op, ":">> \o WriteIdiom(d.args[1])
    [] d.kind = "destructure" -> <<d.op, ".">> \o WriteDestructure(d.args)
    [] OTHER -> <<d.op>>

WritePart(p) ==
  CASE p.kind = "all" -> <<".", "*">>
    [] p.kind = "last" -> <<"[", "$", "]">>
    [] p.kind = "flatten" -> <<"...">>
    [] p.kind = "optional" -> <<".", "?">>
    [] p.kind = "repeat" -> <<".", "@">>
    [] p.kind = "doc" -> <<"@">>
    [] p.kind = "field" -> <<".", p.op>>
    [] p.kind = "where" -> <<"[", "WHERE", p.op, "]">>
    [] p.kind = "value" -> <<"[", p.op, "]">>
    [] p.kind = "method" -> <<".", p.op, "(">> \o Separated([i \in DOMAIN p.args |-> <<p.args[i].op>>], ",") \o <<")">>
    [] p.kind = "destructure" -> <<".">> \o WriteDestructure(p.args)
    [] p.kind = "recurse" -> <<".", "{">> \o WriteRecurse(p) \o <<"}">>
         \o (IF Last(p.args).kind = "nest" THEN <<"(">> \o WriteParts(Last(p.args).args) \o <<")">> ELSE <<>>)
    [] p.kind = "lookup" -> WriteLookup(p)
    [] p.kind = "start" -> IF p.op = "b" THEN <<"(", "b", ")">> ELSE <<p.op>>

\* A field an idiom starts with is written without the point.
WriteIdiom(x) ==
  IF x.args[1].kind = "field" THEN Tail(WriteParts(x.args)) ELSE WriteParts(x.args)

-----------------------------------------------------------------------------
(* The parser: ranges of keys and lookups.                                 *)
Bound(text, i, k) == IF TokenAt(text, i) = "k" THEN k ELSE "un"
ParseRange(text, i) ==
  LET start == IF TokenAt(text, i) # "k" THEN "un" ELSE IF TokenAt(text, i + 1) = ">" THEN "ex" ELSE "in"
      dots == i + (CASE start = "un" -> 0 [] start = "in" -> 1 [] start = "ex" -> 2)
      included == TokenAt(text, dots + 1) = "="
      end == IF included THEN Bound(text, dots + 2, "in") ELSE Bound(text, dots + 1, "ex")
      next == dots + 1 + (IF included THEN 2 ELSE IF end = "un" THEN 0 ELSE 1)
  IN  IF TokenAt(text, dots) # ".." \/ (included /\ end = "un") THEN Failed
      ELSE Parsed(Node("range", "", <<Leaf(start), Leaf(end)>>), next)

\* A table, perhaps with a range of keys, and where it may refer its field.
ParseTable(text, i) ==
  CASE TokenAt(text, i) \notin Name -> Failed
    [] TokenAt(text, i) \in Name /\ TokenAt(text, i + 1) = ":" ->
         Then(ParseRange(text, i + 2), LAMBDA range : Node("subject", text[i], <<range>>))
    [] OTHER -> Parsed(Node("subject", text[i], <<>>), i + 1)
ParseSubject(text, i, refers) ==
  AndThen(ParseTable(text, i), LAMBDA table, next :
    CASE ~(refers /\ TokenAt(text, next) = "FIELD") -> Parsed(table, next)
      [] refers /\ TokenAt(text, next) = "FIELD" /\ TokenAt(text, next + 1) \in Name ->
           Parsed([table EXCEPT !.args = Append(@, Node("by", text[next + 1], <<>>))], next + 2)
      [] OTHER -> Failed)

RECURSIVE ParseSubjects(_, _, _), ParseClauses(_, _, _, _)
ParseSubjects(text, i, subjects) ==
  AndThen(ParseSubject(text, i, TRUE), LAMBDA s, next :
    IF TokenAt(text, next) = "," THEN ParseSubjects(text, next + 1, Append(subjects, s))
    ELSE Parsed(Node("subjects", "", Append(subjects, s)), next))

\* The clauses, each at most once and in this order.
ParseClauses(text, i, keys, clauses) ==
  IF keys = <<>> THEN Parsed(Node("clauses", "", clauses), i)
  ELSE IF TokenAt(text, i) # Head(keys) THEN ParseClauses(text, i, Tail(keys), clauses)
  ELSE IF TokenAt(text, i + 1) \notin Operand \cup Name THEN Failed
  ELSE ParseClauses(text, i + 2, Tail(keys), Append(clauses, Node(text[i], text[i + 1], <<>>)))

\* START may come before LIMIT; SPLIT, GROUP and ORDER need a SELECT.
ClauseOrder(text, i, selects) ==
  LET before == <<"WHERE">> \o IF selects THEN <<"SPLIT", "GROUP", "ORDER">> ELSE <<>>
      first == AndThen(ParseClauses(text, i, before, <<>>), LAMBDA c, next : Parsed(Leaf(TokenAt(text, next)), next))
  IN  before \o (IF first.tree.op = "START" THEN <<"START", "LIMIT">> ELSE <<"LIMIT", "START">>) \o <<"AS">>
Ordered(clauses) ==
  FlattenSeq([k \in DOMAIN LookupClauses |-> SelectSeq(clauses, LAMBDA c : c.kind = LookupClauses[k])])

ParseLong(text, i, arrow) ==
  LET selects == TokenAt(text, i) = "SELECT"
      at == IF selects THEN i + 3 ELSE i
      fields == IF selects THEN <<Node("SELECT", TokenAt(text, i + 1), <<>>)>> ELSE <<>>
      what == IF TokenAt(text, at) = "?" THEN Parsed(Node("subjects", "", <<>>), at + 1)
              ELSE ParseSubjects(text, at, <<>>)
  IN  IF selects /\ TokenAt(text, i + 2) # "FROM" THEN Failed
      ELSE AndThen(what, LAMBDA subjects, next :
             AndThen(ParseClauses(text, next, ClauseOrder(text, next, selects), <<>>), LAMBDA clauses, end :
               Closed(text, end, ")", Node("lookup", arrow, subjects.args \o Ordered(fields \o clauses.args)))))

ParseLookup(text, i, arrow) ==
  CASE TokenAt(text, i) = "?" -> Parsed(Node("lookup", arrow, <<>>), i + 1)
    [] TokenAt(text, i) = "(" -> ParseLong(text, i + 1, arrow)
    [] OTHER -> Then(ParseSubject(text, i, FALSE), LAMBDA subject : Node("lookup", arrow, <<subject>>))

-----------------------------------------------------------------------------
(* The parser: parts and idioms.                                           *)
RECURSIVE ParseParts(_, _, _), ParseValueIdiom(_, _), ParseArgs(_, _, _), ParseDestructure(_, _, _), Inclusive(_, _)

\* Arguments and destructured fields may end with a comma.
ParseArgs(text, i, args) ==
  IF TokenAt(text, i) = ")" THEN Parsed(Node("args", "", args), i + 1)
  ELSE IF TokenAt(text, i) \notin Operand THEN Failed
  ELSE IF TokenAt(text, i + 1) = "," THEN ParseArgs(text, i + 2, Append(args, Leaf(text[i])))
  ELSE Closed(text, i + 1, ")", Node("args", "", Append(args, Leaf(text[i]))))

\* Any number of +inclusive is one.
Inclusive(text, i) == IF TokenAt(text, i) = "+" /\ TokenAt(text, i + 1) = "inclusive" THEN Inclusive(text, i + 2) ELSE i
ParseInstruction(text, i) ==
  LET word == TokenAt(text, i + 1)
      end == IF word = "shortest" THEN i + 4 ELSE i + 2
      next == Inclusive(text, end)
  IN  IF word \in {"path", "collect"} \/ (word = "shortest" /\ TokenAt(text, i + 2) = "=" /\ TokenAt(text, i + 3) = "e")
        THEN Parsed(Node("instruction", word, IF next > end THEN <<Leaf("inclusive")>> ELSE <<>>), next)
      ELSE Failed

\* How often: a number, or a range that may be open on both sides.
ParseTimes(text, i) ==
  LET fixed == TokenAt(text, i) \in Digits
      dots == IF fixed THEN i + 1 ELSE i
      ranged == TokenAt(text, dots) = ".."
      last == IF ~ranged THEN i ELSE IF TokenAt(text, dots + 1) \in Digits THEN dots + 1 ELSE dots
  IN  IF ~fixed /\ ~ranged THEN Failed
      ELSE Parsed(Node("bounds", "", [j \in 1..last - i + 1 |-> Leaf(text[i + j - 1])]), last + 1)
ParseBounds(text, i) ==
  AndThen(ParseTimes(text, i), LAMBDA bounds, next :
    IF TokenAt(text, next) # "+" THEN Parsed(Node("recurse", "", <<bounds>>), next)
    ELSE Then(ParseInstruction(text, next), LAMBDA instruction : Node("recurse", "", <<bounds, instruction>>)))
ParseRecurse(text, i) ==
  AndThen(ParseBounds(text, i), LAMBDA recurse, close :
    CASE TokenAt(text, close) # "}" -> Failed
      [] TokenAt(text, close) = "}" /\ TokenAt(text, close + 1) = "(" ->
           AndThen(ParseParts(text, close + 2, <<>>), LAMBDA nest, end :
             Closed(text, end, ")", [recurse EXCEPT !.args = Append(@, Node("nest", "", nest.args))]))
      [] OTHER -> Parsed(recurse, close + 1))

ParseDot(text, i) ==
  LET token == TokenAt(text, i)
  IN  CASE token = "?" -> Parsed(Part("optional"), i + 1)
        [] token = "*" -> Parsed(Part("all"), i + 1)
        [] token = "@" -> Parsed(Part("repeat"), i + 1)
        [] token = "{" -> IF TokenAt(text, i + 1) \in Digits \cup {"..", "*"} THEN ParseRecurse(text, i + 1)
                          ELSE ParseDestructure(text, i + 1, <<>>)
        [] token \in Name -> IF TokenAt(text, i + 1) # "(" THEN Parsed(Node("field", token, <<>>), i + 1)
                             ELSE Then(ParseArgs(text, i + 2, <<>>), LAMBDA args : Node("method", token, args.args))
        [] OTHER -> Failed

\* A field of the value: itself, all that is in it, another path to it, or
\* what is taken out of it in turn.
ParseDestructured(text, i) ==
  LET name == TokenAt(text, i)
  IN  IF name \notin Name THEN Failed
      ELSE CASE TokenAt(text, i + 1) = ":" /\ TokenAt(text, i + 2) = "b" ->
                  Parsed(Node("aliased", name, <<Node("idiom", "", <<Node("start", "b", <<>>)>>)>>), i + 3)
             [] TokenAt(text, i + 1) = ":" /\ TokenAt(text, i + 2) # "b" ->
                  Then(ParseValueIdiom(text, i + 2), LAMBDA alias : Node("aliased", name, <<alias>>))
             [] TokenAt(text, i + 1) = "." ->
                  AndThen(ParseDot(text, i + 2), LAMBDA part, next :
                    IF part.kind \in {"all", "destructure"} THEN Parsed(Node(part.kind, name, part.args), next) ELSE Failed)
             [] OTHER -> Parsed(Node("field", name, <<>>), i + 1)
ParseDestructure(text, i, parts) ==
  IF TokenAt(text, i) = "}" THEN Parsed(Node("destructure", "", parts), i + 1)
  ELSE AndThen(ParseDestructured(text, i), LAMBDA d, next :
         IF TokenAt(text, next) = "," THEN ParseDestructure(text, next + 1, Append(parts, d))
         ELSE Closed(text, next, "}", Node("destructure", "", Append(parts, d))))

ParseBracket(text, i) ==
  LET token == TokenAt(text, i)
  IN  CASE token = "*" -> Closed(text, i + 1, "]", Part("all"))
        [] token = "$" -> Closed(text, i + 1, "]", Part("last"))
        [] token \in {"?", "WHERE"} /\ TokenAt(text, i + 1) \in Operand ->
             Closed(text, i + 2, "]", Node("where", text[i + 1], <<>>))
        [] token \in Operand -> Closed(text, i + 1, "]", Node("value", token, <<>>))
        [] OTHER -> Failed

ParsePart(text, i) ==
  CASE text[i] = "..." -> Parsed(Part("flatten"), i + 1)
    [] text[i] = "." -> ParseDot(text, i + 1)
    [] text[i] = "[" -> ParseBracket(text, i + 1)
    [] OTHER -> ParseLookup(text, i + 1, text[i])
ParseParts(text, i, parts) ==
  IF TokenAt(text, i) \notin {"...", ".", "["} \cup Arrow THEN Parsed(Node("idiom", "", parts), i)
  ELSE AndThen(ParsePart(text, i), LAMBDA p, next : ParseParts(text, next, Append(parts, p)))

\* An idiom that is a value: it may start with any value, or with @.
Continues(text, i) == TokenAt(text, i) \in {"...", ".", "["} \cup Arrow
ParseValueIdiom(text, i) ==
  LET token == TokenAt(text, i)
  IN  CASE token \in Name -> ParseParts(text, i + 1, <<Node("field", token, <<>>)>>)
        [] token = "e" -> ParseParts(text, i + 1, <<Node("start", "e", <<>>)>>)
        [] token = "(" /\ TokenAt(text, i + 1) = "b" /\ TokenAt(text, i + 2) = ")" ->
             ParseParts(text, i + 3, <<Node("start", "b", <<>>)>>)
        [] token \in Arrow ->
             AndThen(ParseLookup(text, i + 1, token), LAMBDA lookup, next : ParseParts(text, next, <<lookup>>))
        [] token = "@" /\ Continues(text, i + 1) -> ParseParts(text, i + 1, <<Part("doc")>>)
        [] token = "@" /\ ~Continues(text, i + 1) ->
             AndThen(ParseDot(text, i + 1), LAMBDA dot, next : ParseParts(text, next, <<Part("doc"), dot>>))
        [] OTHER -> Failed

\* A plain idiom starts with a name or a lookup.
ParsePlainIdiom(text, i) ==
  IF TokenAt(text, i) \in Name \cup Arrow THEN ParseValueIdiom(text, i) ELSE Failed

\* Basic and local idioms: names and all, the last one only in a basic and
\* an index only by a number; a local one may end with a flatten.
RECURSIVE ParseSimple(_, _, _, _)
ParseSimple(text, i, parts, indexes) ==
  LET inner == TokenAt(text, i + 1)
  IN  CASE TokenAt(text, i) = "." ->
             IF inner = "*" THEN ParseSimple(text, i + 2, Append(parts, Part("all")), indexes)
             ELSE IF inner \in Name THEN ParseSimple(text, i + 2, Append(parts, Node("field", inner, <<>>)), indexes)
             ELSE Failed
        [] TokenAt(text, i) = "[" ->
             IF inner \notin indexes THEN Failed
             ELSE AndThen(ParseBracket(text, i + 1), LAMBDA bracket, next :
                    ParseSimple(text, next, Append(parts, bracket), indexes))
        [] OTHER -> Parsed(Node("idiom", "", parts), i)
Simple(text, indexes) ==
  IF TokenAt(text, 1) \in Name THEN ParseSimple(text, 2, <<Node("field", text[1], <<>>)>>, indexes) ELSE Failed
ParseBasicIdiom(text) == Simple(text, {"*", "$"} \cup Digits)
ParseLocalIdiom(text) ==
  AndThen(Simple(text, {"*"} \cup Digits), LAMBDA x, next :
    CASE TokenAt(text, next) # "..." -> Parsed(x, next)
      [] TokenAt(text, next) = "..." /\ TokenAt(text, next + 1) \in {".", "["} -> Failed
      [] OTHER -> Parsed([x EXCEPT !.args = Append(@, Part("flatten"))], next + 1))

-----------------------------------------------------------------------------
IdiomInit == idiomText \in IdiomStarts /\ added = 0

AddPart ==
  /\ added < MaxParts
  /\ added' = added + 1
  /\ \E t \in PartTexts : idiomText' = idiomText \o t

FormatIdiom ==
  /\ idiomText' \in {WriteIdiom(x) : x \in Whole(ParseValueIdiom(idiomText, 1), idiomText)}
  /\ UNCHANGED added

IdiomNext == AddPart \/ FormatIdiom
IdiomSpec == IdiomInit /\ [][IdiomNext]_idiomVars

-----------------------------------------------------------------------------
\* A lookup that is written without parentheses loses its LIMIT and START.
KeptPart(p) ==
  IF p.kind = "lookup" /\ Short(p) THEN [p EXCEPT !.args = Subjects(p)] ELSE p
RECURSIVE KeptIdiom(_)
KeptIdiom(x) == [x EXCEPT !.args = [i \in DOMAIN x.args |-> KeptIdiom(KeptPart(x.args[i]))]]

\* An idiom that was read, and is written by its printer, is read again as
\* the same tree, but for the LIMIT and START of a lookup that has nothing
\* else (tests/roundtrip.rs says the same of all idioms).
IdiomRoundTrip ==
  \A x \in Whole(ParseValueIdiom(idiomText, 1), idiomText) :
    Whole(ParseValueIdiom(WriteIdiom(x), 1), WriteIdiom(x)) = {KeptIdiom(x)}

\* A text that is a basic or a local idiom is read as the same tree where
\* any idiom is allowed, and is basic or local still when it was written.
SimpleIdiomsAgree ==
  /\ \A x \in Whole(ParseBasicIdiom(idiomText), idiomText) \cup Whole(ParseLocalIdiom(idiomText), idiomText) :
       Whole(ParsePlainIdiom(idiomText, 1), idiomText) = {x}
  /\ \A x \in Whole(ParseBasicIdiom(idiomText), idiomText) :
       Whole(ParseBasicIdiom(WriteIdiom(x)), WriteIdiom(x)) = {x}
  /\ \A x \in Whole(ParseLocalIdiom(idiomText), idiomText) :
       Whole(ParseLocalIdiom(WriteIdiom(x)), WriteIdiom(x)) = {x}
=============================================================================
