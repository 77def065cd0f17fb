------------------------------- MODULE Values -------------------------------
(***************************************************************************)
(* What an expression is made of below its operators: arrays, objects,     *)
(* sets and blocks, which all four share their brackets, records and their *)
(* keys, mocks, closures, points and calls of functions.                   *)
(*                                                                         *)
(* "S" stands for a statement that is put in parentheses inside a value,   *)
(* "$p" for a parameter, "s" for a string that is no name, "'1'" for the   *)
(* string of a digit, "js" for a script and "v" for a version.  Of the     *)
(* operators, which Expressions models, + and = and the ranges are here.   *)
(***************************************************************************)
EXTENDS TokenText

CONSTANTS ValueTexts,         \* texts to start with
          ValueFrames,        \* texts with a hole
          Hole,
          MaxFrames,          \* bound: how deep texts are nested
          BuiltinFunctions,   \* their paths, sequences of names
          BuiltinConstants

VARIABLES valueText,   \* the text of a value in a document
          frames       \* how often it was put into another
valueVars == <<valueText, frames>>

Nothing == Leaf("nothing")
NumberToken == {"1", "2"}
QuotedNumber(n) == "'" \o n \o "'"
LiteralToken == {"NONE", "NULL", "true", "s", "$p", "BREAK", "S"}
NameToken == {"a", "b", "k", "f", "int", "string", "any", "rand", "NONE", "NULL", "true",
              "fn", "mod", "silo", "ml", "FUNCTION", "THROW", "RETURN", "BREAK", "S"}
KeyToken == NameToken \cup NumberToken \cup {"s"} \cup {QuotedNumber(n) : n \in NumberToken}
StartsRecordKey(token) == token \in NameToken \cup NumberToken \cup {"s", "{", "["}
RangeToken == {"..", "..=", ">..", ">..="}
Included(op) == op \in {"..=", ">..="}
StartsPrime(token) ==
  token \in LiteralToken \cup NameToken \cup NumberToken \cup {"(", "{", "[", "|", "||", "->", "..", "..="}

IsUnbounded(e) == e.kind = "range" /\ e.args = <<Nothing, Nothing>>
IsPostfix(e) == e.kind = "range" /\ e.args[1] # Nothing /\ e.args[2] = Nothing
LetLess(e) == e.kind = "binary" /\ e.op = "=" /\ e.args[1] = Leaf("$p")

-----------------------------------------------------------------------------
(* The printer.                                                            *)
EqualPower == 1
SumPower == 2
RangesPower == 3
PrimePower == 4
TreePower(e) ==
  CASE e.kind = "binary" -> IF e.op = "=" THEN EqualPower ELSE SumPower
    [] e.kind = "range" /\ ~IsUnbounded(e) -> RangesPower
    [] OTHER -> PrimePower

IsStatement(e) == e.kind \in {"throw", "return"} \/ e \in {Leaf("S"), Leaf("BREAK")}
NeedsCover(e) == IsStatement(e) \/ e.kind \in {"record", "closure"} \/ IsUnbounded(e) \/ IsPostfix(e)
CoversStatement(e) == e = Leaf("S") \/ (e.kind = "return" /\ e.op = "FETCH")

\* What follows the arguments of a closure must not look like its result.
RECURSIVE LeftmostIdiom(_)
LeftmostIdiom(e) == e.kind = "idiom" \/ (e.kind \in {"binary", "range"} /\ LeftmostIdiom(e.args[1]))

InParentheses(covered, text) == IF covered THEN <<"(">> \o text \o <<")">> ELSE text
WriteObjectKey(k) == IF k \in NumberToken THEN QuotedNumber(k) ELSE k
WritePath(path) == Separated([i \in DOMAIN path.args |-> <<path.args[i].op>>], "::")
WriteTypes(k) ==
  IF k.kind = "either" THEN Separated([i \in DOMAIN k.args |-> <<k.args[i].op>>], "|") ELSE <<k.op>>

RECURSIVE Write(_)
WriteCovered(e) == InParentheses(CoversStatement(e), Write(e))
WriteList(items) == Separated([i \in DOMAIN items |-> WriteCovered(items[i])], ",")
WriteOperand(e, power) ==
  InParentheses(NeedsCover(e) \/ TreePower(e) < power \/ (TreePower(e) = power /\ power # SumPower), Write(e))
WriteEnd(e, power) == IF e = Nothing THEN <<>> ELSE WriteOperand(e, power)

WriteObject(entries) ==
  <<"{">> \o Separated([i \in DOMAIN entries |-> <<WriteObjectKey(entries[i].op), ":">> \o WriteCovered(entries[i].args[1])], ",")
    \o <<"}">>

\* Faulty variant: the comma that tells a set of one from a block is forgotten.
WriteSetPlain(items) == <<"{">> \o WriteList(items) \o <<"}">>

\* A record that stood first would be read as the first entry of an object.
WriteSet(items) ==
  <<"{">> \o Separated([i \in DOMAIN items |->
      IF i = 1 /\ items[1].kind = "record" THEN InParentheses(TRUE, Write(items[1])) ELSE WriteCovered(items[i])], ",")
    \o (IF Len(items) <= 1 THEN <<",">> ELSE <<>>) \o <<"}">>

WriteBlock(stmts) ==
  LET text(i) == InParentheses((i = 1 /\ stmts[1].kind = "record") \/ LetLess(stmts[i]), Write(stmts[i]))
  IN  CASE Len(stmts) = 0 -> <<"{", ";", "}">>
        [] Len(stmts) = 1 -> <<"{">> \o text(1) \o <<"}">>
        [] OTHER -> <<"{">> \o FlattenSeq([i \in DOMAIN stmts |-> text(i) \o <<";">>]) \o <<"}">>

WriteKeys(b) ==
  (IF b.args[1] = Nothing THEN <<>> ELSE Write(b.args[1])) \o <<b.op>>
    \o (IF b.args[2] = Nothing THEN <<>> ELSE Write(b.args[2]))

WriteClosure(e) ==
  LET params == SelectSeq(e.args, LAMBDA n : n.kind = "param")
      returns == e.args[Len(e.args) - 1]
      body == Last(e.args)
      param(p) == <<p.op, ":">> \o (IF p.args[1].kind = "either" THEN <<"<">> \o WriteTypes(p.args[1]) \o <<">">>
                                    ELSE WriteTypes(p.args[1]))
  IN  (IF params = <<>> THEN <<"||">>
       ELSE <<"|">> \o Separated([i \in DOMAIN params |-> param(params[i])], ",") \o <<"|">>)
      \o (IF returns = Nothing THEN <<>> ELSE <<"->">> \o WriteTypes(returns))
      \o (IF LeftmostIdiom(body) THEN InParentheses(TRUE, Write(body)) ELSE WriteCovered(body))

\* The path of a function of a package names a part of it after the version.
WriteCall(e) ==
  LET path == e.args[1]
      given == <<"(">> \o WriteList(Tail(e.args)) \o <<")">>
  IN  CASE e.op = "FUNCTION" -> <<"FUNCTION">> \o given \o <<"{", "js", "}">>
        [] e.op = "builtin" -> WritePath(path) \o given
        [] e.op \in {"fn", "mod"} -> <<e.op, "::">> \o WritePath(path) \o given
        [] e.op = "ml" -> <<"ml", "::">> \o WritePath(path) \o <<"<", "v", ">">> \o given
        [] e.op = "silo" -> <<"silo", "::">> \o WritePath(Node("path", "", SubSeq(path.args, 1, 2))) \o <<"<", "v", ">">>
             \o (IF Len(path.args) = 3 THEN <<"::", path.args[3].op>> ELSE <<>>) \o given

Write(e) ==
  CASE e.kind = "leaf" -> <<e.op>>
    [] e.kind = "generate" -> <<e.op, "(", ")">>
    [] e.kind = "idiom" -> <<"->", e.op>>
    [] e.kind = "constant" -> WritePath(e)
    [] e.kind = "array" -> <<"[">> \o WriteList(e.args) \o <<"]">>
    [] e.kind = "object" -> WriteObject(e.args)
    [] e.kind = "set" -> WriteSet(e.args)
    [] e.kind = "block" -> WriteBlock(e.args)
    [] e.kind = "record" -> <<e.op, ":">> \o Write(e.args[1])
    [] e.kind = "bounds" -> WriteKeys(e)
    [] e.kind = "mock" -> <<"|", e.op, ":">> \o Write(e.args[1]) \o <<"|">>
    [] e.kind = "point" -> <<"(", e.args[1].op, ",", e.args[2].op, ")">>
    [] e.kind = "closure" -> WriteClosure(e)
    [] e.kind = "call" -> WriteCall(e)
    [] e.kind = "throw" -> <<"THROW">> \o WriteCovered(e.args[1])
    [] e.kind = "return" -> <<"RETURN">> \o WriteCovered(e.args[1]) \o (IF e.op = "FETCH" THEN <<"FETCH", "a">> ELSE <<>>)
    [] e.kind = "binary" -> WriteOperand(e.args[1], TreePower(e)) \o <<e.op>> \o WriteOperand(e.args[2], TreePower(e))
    [] e.kind = "range" -> WriteEnd(e.args[1], RangesPower) \o <<e.op>> \o WriteEnd(e.args[2], RangesPower)

-----------------------------------------------------------------------------
(* The parser: what stands between brackets.                               *)
RECURSIVE ReadExpression(_, _), ReadItems(_, _, _, _), ReadEntries(_, _, _), ReadStatements(_, _, _),
          ReadPath(_, _, _, _), ReadKinds(_, _, _), ReadParams(_, _, _), ReadOperand(_, _),
          ReadRanges(_, _, _, _), ReadSums(_, _, _)


\* Elements with commas between them, and perhaps one more at the end.
ReadItems(text, i, close, sofar) ==
  IF TokenAt(text, i) = close THEN Parsed(Node("items", "", sofar), i + 1)
  ELSE AndThen(ReadExpression(text, i), LAMBDA item, next :
         IF TokenAt(text, next) = "," THEN ReadItems(text, next + 1, close, Append(sofar, item))
         ELSE Closed(text, next, close, Node("items", "", Append(sofar, item))))
ReadList(text, i, close, kind) == Then(ReadItems(text, i, close, <<>>), LAMBDA t : Node(kind, "", t.args))

KeyName(token) ==
  IF \E n \in NumberToken : token = QuotedNumber(n) THEN CHOOSE n \in NumberToken : token = QuotedNumber(n) ELSE token
StartsEntry(text, i) == TokenAt(text, i) \in KeyToken /\ TokenAt(text, i + 1) = ":"

ReadEntries(text, i, sofar) ==
  LET with(value) == Append(sofar, Node("entry", KeyName(TokenAt(text, i)), <<value>>))
  IN  CASE TokenAt(text, i) = "}" -> Parsed(Node("object", "", sofar), i + 1)
        [] TokenAt(text, i) # "}" /\ StartsEntry(text, i) ->
             AndThen(ReadExpression(text, i + 2), LAMBDA value, next :
               IF TokenAt(text, next) = "," THEN ReadEntries(text, next + 1, with(value))
               ELSE Closed(text, next, "}", Node("object", "", with(value))))
        [] OTHER -> Failed

\* A parameter is not set without LET, but a comparison in parentheses is one.
Rejected(text, i, stmt) == TokenAt(text, i) # "(" /\ LetLess(stmt)

ReadStatements(text, i, sofar) ==
  CASE TokenAt(text, i) = ";" -> ReadStatements(text, i + 1, sofar)
    [] TokenAt(text, i) = "}" -> Parsed(Node("block", "", sofar), i + 1)
    [] OTHER -> AndThen(ReadExpression(text, i), LAMBDA stmt, next :
         IF Rejected(text, i, stmt) THEN Failed
         ELSE IF TokenAt(text, next) = ";" THEN ReadStatements(text, next + 1, Append(sofar, stmt))
         ELSE Closed(text, next, "}", Node("block", "", Append(sofar, stmt))))

\* After a brace: an object, a set or a block.  After the first statement of
\* a block no semicolon is asked for.
ReadBraces(text, i) ==
  CASE TokenAt(text, i) = "}" -> Parsed(Node("object", "", <<>>), i + 1)
    [] TokenAt(text, i) = "," -> Closed(text, i + 1, "}", Node("set", "", <<>>))
    [] TokenAt(text, i) = ";" -> ReadStatements(text, i + 1, <<>>)
    [] StartsEntry(text, i) -> ReadEntries(text, i, <<>>)
    [] OTHER -> AndThen(ReadExpression(text, i), LAMBDA first, next :
         IF TokenAt(text, next) = ","
         THEN Then(ReadItems(text, next + 1, "}", <<first>>), LAMBDA t : Node("set", "", t.args))
         ELSE IF Rejected(text, i, first) THEN Failed
         ELSE ReadStatements(text, next, <<first>>))

\* In parentheses, two numbers are a point.
ReadParentheses(text, i) ==
  LET number(n) == TokenAt(text, n) \in NumberToken
  IN  IF number(i) /\ TokenAt(text, i + 1) = ","
      THEN IF number(i + 2) THEN Closed(text, i + 3, ")", Node("point", "", <<Leaf(text[i]), Leaf(text[i + 2])>>)) ELSE Failed
      ELSE AndThen(ReadExpression(text, i), LAMBDA inner, next : Closed(text, next, ")", inner))

-----------------------------------------------------------------------------
(* The parser: records, mocks, closures and functions.                     *)
ReadRecordKey(text, i) ==
  LET token == TokenAt(text, i)
  IN  CASE token = "{" -> ReadEntries(text, i + 1, <<>>)
        [] token = "[" -> ReadList(text, i + 1, "]", "array")
        [] token = "rand" /\ TokenAt(text, i + 1) = "(" -> Closed(text, i + 2, ")", Node("generate", "rand", <<>>))
        [] token \in NumberToken \/ (token \in NameToken /\ ~(token = "rand" /\ TokenAt(text, i + 1) = "(")) ->
             Parsed(Leaf(token), i + 1)
        [] OTHER -> Failed

\* The bounds of a range: the operator at i and what may stand after it.
ReadBounds(text, i, start, starts, end) ==
  CASE TokenAt(text, i) \notin RangeToken \/ (start = Nothing /\ TokenAt(text, i) \in {">..", ">..="}) -> Failed
    [] TokenAt(text, i) \in RangeToken /\ ~starts /\ Included(TokenAt(text, i)) -> Failed
    [] starts -> Then(end, LAMBDA t : Node("bounds", text[i], <<start, t>>))
    [] OTHER -> Parsed(Node("bounds", text[i], <<start, Nothing>>), i + 1)

\* The number of a mock, or nothing else.
ReadNumberKey(text, i) == IF TokenAt(text, i) \in NumberToken THEN Parsed(Leaf(text[i]), i + 1) ELSE Failed

\* A record, or the range of records between two keys.
ReadRecord(text, i) ==
  LET keyed == StartsRecordKey(TokenAt(text, i + 2))
      key == AndThen(IF keyed THEN ReadRecordKey(text, i + 2) ELSE Parsed(Nothing, i + 2), LAMBDA start, at :
        IF TokenAt(text, at) \in RangeToken
        THEN ReadBounds(text, at, start, StartsRecordKey(TokenAt(text, at + 1)), ReadRecordKey(text, at + 1))
        ELSE IF keyed THEN Parsed(start, at) ELSE Failed)
  IN  Then(key, LAMBDA t : Node("record", text[i], <<t>>))

\* |a:1| is a number of records to make up, |a:1..2| those of a range.
ReadMock(text, i) ==
  LET numbered == TokenAt(text, i + 2) \in NumberToken
      start == IF numbered THEN Leaf(text[i + 2]) ELSE Nothing
      at == IF numbered THEN i + 3 ELSE i + 2
      what == IF numbered /\ TokenAt(text, at) \notin RangeToken THEN Parsed(start, at)
              ELSE ReadBounds(text, at, start, TokenAt(text, at + 1) # "|", ReadNumberKey(text, at + 1))
  IN  IF TokenAt(text, i) \in NameToken /\ TokenAt(text, i + 1) = ":"
      THEN AndThen(what, LAMBDA key, next : Closed(text, next, "|", Node("mock", text[i], <<key>>))) ELSE Failed

\* Types, with bars between them.
ReadKinds(text, i, sofar) ==
  LET kinds == Append(sofar, Leaf(TokenAt(text, i)))
  IN  CASE TokenAt(text, i) = "any" /\ sofar = <<>> -> Parsed(Leaf("any"), i + 1)
        [] TokenAt(text, i) \notin {"int", "string"} /\ ~(TokenAt(text, i) = "any" /\ sofar = <<>>) -> Failed
        [] TokenAt(text, i + 1) = "|" -> ReadKinds(text, i + 2, kinds)
        [] OTHER -> Parsed(IF Len(kinds) = 1 THEN kinds[1] ELSE Node("either", "", kinds), i + 1)
ReadKind(text, i) ==
  CASE TokenAt(text, i) = "<" ->
         AndThen(ReadKinds(text, i + 1, <<>>), LAMBDA several, next : Closed(text, next, ">", several))
    [] TokenAt(text, i) \in {"int", "string", "any"} -> Parsed(Leaf(text[i]), i + 1)
    [] OTHER -> Failed

ReadParams(text, i, sofar) ==
  LET kind == IF TokenAt(text, i + 1) = ":" THEN ReadKind(text, i + 2) ELSE Parsed(Leaf("any"), i + 1)
      with(k) == Append(sofar, Node("param", "$p", <<k>>))
  IN  CASE TokenAt(text, i) = "|" -> Parsed(Node("items", "", sofar), i + 1)
        [] TokenAt(text, i) = "$p" -> AndThen(kind, LAMBDA k, next :
             IF TokenAt(text, next) = "," THEN ReadParams(text, next + 1, with(k))
             ELSE Closed(text, next, "|", Node("items", "", with(k))))
        [] OTHER -> Failed

\* The body of a closure whose result has a type is a block.
ReadBody(text, i, params) ==
  IF TokenAt(text, i) # "->"
  THEN Then(ReadExpression(text, i), LAMBDA t : Node("closure", "", params \o <<Nothing, t>>))
  ELSE AndThen(ReadKinds(text, i + 1, <<>>), LAMBDA returns, next :
         IF TokenAt(text, next) # "{" THEN Failed
         ELSE Then(ReadStatements(text, next + 1, <<>>), LAMBDA t : Node("closure", "", params \o <<returns, t>>)))

ReadBars(text, i) ==
  IF TokenAt(text, i) # "$p" THEN ReadMock(text, i)
  ELSE AndThen(ReadParams(text, i, <<>>), LAMBDA params, next : ReadBody(text, next, params.args))

ReadPath(text, i, most, sofar) ==
  LET path == Append(sofar, Leaf(TokenAt(text, i)))
  IN  CASE TokenAt(text, i) \notin NameToken -> Failed
        [] TokenAt(text, i) \in NameToken /\ TokenAt(text, i + 1) = "::" /\ Len(path) < most -> ReadPath(text, i + 2, most, path)
        [] OTHER -> Parsed(Node("path", "", path), i + 1)

\* The path of a function, with the version in it or after it.
ReadPart(text, i, path) ==
  CASE TokenAt(text, i) # "::" -> Parsed(path, i)
    [] TokenAt(text, i) = "::" /\ TokenAt(text, i + 1) \in NameToken ->
         Parsed([path EXCEPT !.args = Append(@, Leaf(text[i + 1]))], i + 2)
    [] OTHER -> Failed
ReadFunction(text, i) ==
  AndThen(ReadPath(text, i + 2, IF text[i] \in {"mod", "silo"} THEN 2 ELSE Len(text), <<>>), LAMBDA path, at :
    CASE text[i] \in {"fn", "mod"} -> Parsed(path, at)
      [] text[i] \in {"ml", "silo"} /\ ~(TokenAt(text, at) = "<" /\ TokenAt(text, at + 1) = "v" /\ TokenAt(text, at + 2) = ">") -> Failed
      [] text[i] = "silo" /\ Len(path.args) # 2 -> Failed
      [] OTHER -> IF text[i] = "ml" THEN Parsed(path, at + 3) ELSE ReadPart(text, at + 3, path))

ReadArguments(text, i, op, path) ==
  IF TokenAt(text, i) # "(" THEN Failed
  ELSE Then(ReadItems(text, i + 1, ")", <<>>), LAMBDA t : Node("call", op, <<path>> \o t.args))
ReadCall(text, i) ==
  AndThen(ReadFunction(text, i), LAMBDA path, next : ReadArguments(text, next, text[i], path))

NamesOf(path) == [n \in DOMAIN path.args |-> path.args[n].op]
ReadBuiltin(text, i) ==
  AndThen(ReadPath(text, i, Len(text), <<>>), LAMBDA path, next :
    CASE NamesOf(path) \in BuiltinConstants -> Parsed(Node("constant", "", path.args), next)
      [] NamesOf(path) \in BuiltinFunctions -> ReadArguments(text, next, "builtin", path)
      [] OTHER -> Failed)

ReadScript(text, i) ==
  AndThen(ReadArguments(text, i, "FUNCTION", Node("path", "", <<>>)), LAMBDA call, next :
    IF TokenAt(text, next) = "{" /\ TokenAt(text, next + 1) = "js" THEN Closed(text, next + 2, "}", call) ELSE Failed)

\* A statement that is modelled: its value, and for RETURN what is fetched.
ReadReturn(text, i) ==
  AndThen(ReadExpression(text, i), LAMBDA what, next :
    IF TokenAt(text, next) = "FETCH" THEN Closed(text, next + 1, "a", Node("return", "FETCH", <<what>>))
    ELSE Parsed(Node("return", "", <<what>>), next))

\* A name is a record, a call or a table, by what follows it.
ReadName(text, i) ==
  CASE TokenAt(text, i + 1) \in {"::", "("} -> ReadBuiltin(text, i)
    [] TokenAt(text, i + 1) = ":" -> ReadRecord(text, i)
    [] OTHER -> Parsed(Leaf(text[i]), i + 1)

ReadPrime(text, i) ==
  LET token == TokenAt(text, i)
  IN  CASE token \in LiteralToken \cup NumberToken -> Parsed(Leaf(token), i + 1)
        [] token = "[" -> ReadList(text, i + 1, "]", "array")
        [] token = "{" -> ReadBraces(text, i + 1)
        [] token = "(" -> ReadParentheses(text, i + 1)
        [] token = "|" -> ReadBars(text, i + 1)
        [] token = "||" -> ReadBody(text, i + 1, <<>>)
        [] token = "->" -> IF TokenAt(text, i + 1) \in NameToken THEN Parsed(Node("idiom", text[i + 1], <<>>), i + 2) ELSE Failed
        [] token = "FUNCTION" -> ReadScript(text, i + 1)
        [] token = "THROW" -> Then(ReadExpression(text, i + 1), LAMBDA t : Node("throw", "", <<t>>))
        [] token = "RETURN" -> ReadReturn(text, i + 1)
        [] token \in {"fn", "mod", "silo", "ml"} /\ TokenAt(text, i + 1) = "::" -> ReadCall(text, i)
        [] token \in NameToken \ (LiteralToken \cup {"FUNCTION", "THROW", "RETURN"})
             /\ ~(token \in {"fn", "mod", "silo", "ml"} /\ TokenAt(text, i + 1) = "::") -> ReadName(text, i)
        [] OTHER -> Failed

-----------------------------------------------------------------------------
(* The parser: the operators that are here.                                *)
ReadOperand(text, i) ==
  LET op == TokenAt(text, i)
      from(t) == Node("range", op, <<Nothing, t>>)
  IN  CASE op \notin {"..", "..="} -> ReadPrime(text, i)
        [] op = ".." /\ ~StartsPrime(TokenAt(text, i + 1)) -> Parsed(Node("range", "..", <<Nothing, Nothing>>), i + 1)
        [] OTHER -> Then(ReadOperand(text, i + 1), from)

\* A range goes on from the left; one that is open to the right does not
\* follow another.
ReadRanges(text, i, lhs, whole) ==
  LET op == TokenAt(text, i)
      open == ~Included(op) /\ ~StartsPrime(TokenAt(text, i + 1))
  IN  CASE op \notin RangeToken -> Parsed(lhs, i)
        [] op \in RangeToken /\ open ->
             IF ~whole /\ TreePower(lhs) = RangesPower THEN Failed
             ELSE ReadRanges(text, i + 1, Node("range", op, <<lhs, Nothing>>), FALSE)
        [] OTHER -> AndThen(ReadOperand(text, i + 1), LAMBDA end, next :
             ReadRanges(text, next, Node("range", op, <<lhs, end>>), FALSE))
ReadTerm(text, i) ==
  AndThen(ReadOperand(text, i), LAMBDA first, next :
    ReadRanges(text, next, first, TokenAt(text, i) \notin {"..", "..="}))

ReadSums(text, i, lhs) ==
  IF TokenAt(text, i) # "+" THEN Parsed(lhs, i)
  ELSE AndThen(ReadTerm(text, i + 1), LAMBDA rhs, next : ReadSums(text, next, Node("binary", "+", <<lhs, rhs>>)))
ReadSum(text, i) == AndThen(ReadTerm(text, i), LAMBDA first, next : ReadSums(text, next, first))

ReadExpression(text, i) ==
  AndThen(ReadSum(text, i), LAMBDA lhs, next :
    IF TokenAt(text, next) # "=" THEN Parsed(lhs, next)
    ELSE AndThen(ReadSum(text, next + 1), LAMBDA rhs, end :
           IF TokenAt(text, end) = "=" THEN Failed ELSE Parsed(Node("binary", "=", <<lhs, rhs>>), end)))

\* The trees a text is read as: one, or none if it is refused.
Trees(text) == Whole(ReadExpression(text, 1), text)

-----------------------------------------------------------------------------
Fill(frame, text) == FlattenSeq([i \in DOMAIN frame |-> IF frame[i] = Hole THEN text ELSE <<frame[i]>>])

ValueInit == valueText \in ValueTexts /\ frames = 0
\* The text is put into another one.
NestValue ==
  /\ frames < MaxFrames /\ frames' = frames + 1
  /\ \E frame \in ValueFrames : valueText' = Fill(frame, valueText)
\* The document is formatted.
FormatValue ==
  /\ \E e \in Trees(valueText) : valueText' = Write(e)
  /\ UNCHANGED frames
ValueNext == NestValue \/ FormatValue
ValueSpec == ValueInit /\ [][ValueNext]_valueVars

\* A value that is written is read again as the same value: what is in
\* braces stays an object, a set or a block, a record at their start stays
\* a record, and a closure keeps its body.
ValueRoundTrip == \A e \in Trees(valueText) : Trees(Write(e)) = {e}
=============================================================================
