------------------------------ MODULE Lexemes ------------------------------
(***************************************************************************)
(* The lexer's tokens and how the printer writes what they stand for:      *)
(* names, parameters, keys of objects and records, and strings, with their *)
(* escapes.                                                                *)
(*                                                                         *)
(* A text is a sequence of characters.  "bs", "sq", "dq" and "bt" are the  *)
(* backslash, the quotes and the backtick; a word like "select" or "NaN"   *)
(* stands for its letters, "e8" and "00" for two hexadecimal digits, and   *)
(* what is not ASCII is one character for each byte.                       *)
(***************************************************************************)
EXTENDS TokenText, FiniteSets

CONSTANTS MaxInt   \* the largest integer, i64::MAX; the smallest is -(MaxInt + 1)

Quotes == {"sq", "dq"}
StringPrefix == {"s", "r", "u", "f", "d", "b"}
Digit == {"0", "1", "2", "3", "4", "5", "6", "7", "8", "9", "00"}
Reserved == {"select", "SELECT"}     \* could_be_reserved_keyword
Keyword == Reserved \cup {"explain", "ulid", "where", "WHERE"}
StartsValue == Reserved \cup {"explain"}   \* keywords that are no name where a value may stand
Special == {"NaN", "Infinity"}
Alpha == {"a", "c", "d", "e", "f", "h", "m", "n", "s", "u", "w", "y", "e8"} \cup Keyword \cup Special
IdentChar == Alpha \cup Digit \cup {"_"}

-----------------------------------------------------------------------------
\* A part of a text, as far as the text goes.
Slice(text, i, j) == SubSeq(text, i, IF j > Len(text) THEN Len(text) ELSE j)

\* Where a run of characters ends; where a quoted text ends, 0 if nowhere.
RECURSIVE RunEnd(_, _, _), QuoteEnd(_, _, _)
RunEnd(text, i, chars) == IF TokenAt(text, i) \in chars THEN RunEnd(text, i + 1, chars) ELSE i
QuoteEnd(text, i, quote) ==
  CASE i > Len(text) -> 0
    [] TokenAt(text, i) = quote -> i
    [] TokenAt(text, i) = "bs" -> IF i = Len(text) THEN 0 ELSE QuoteEnd(text, i + 2, quote)
    [] OTHER -> QuoteEnd(text, i + 1, quote)

Lexed(kind, next) == [kind |-> kind, next |-> next]
QuotedLexeme(text, i, quote, kind) ==
  LET end == QuoteEnd(text, i, quote) IN IF end = 0 THEN Lexed("invalid", Len(text) + 1) ELSE Lexed(kind, end + 1)

\* A word is a keyword in any case; NaN and Infinity are no identifiers.
WordLexeme(text, i) ==
  LET end == RunEnd(text, i, IdentChar)
      word == SubSeq(text, i, end - 1)
  IN  Lexed(IF Len(word) = 1 /\ word[1] \in Keyword \cup Special THEN word[1] ELSE "identifier", end)

\* The longest operator; a single & and +? without = are none.
OperatorText == {<<"(">>, <<")">>, <<"[">>, <<"]">>, <<"{">>, <<"}">>, <<",">>, <<";">>, <<"@">>, <<"~">>, <<"%">>,
  <<"|">>, <<"|", "|">>, <<"&", "&">>, <<".">>, <<".", ".">>, <<".", ".", ".">>, <<"!">>, <<"!", "=">>, <<"!", "~">>,
  <<"?">>, <<"?", ":">>, <<"?", "~">>, <<"?", "=">>, <<"<">>, <<"<", "=">>, <<"<", "|">>, <<">">>, <<">", "=">>,
  <<"-">>, <<"-", ">">>, <<"-", "=">>, <<"+">>, <<"+", "=">>, <<"+", "?", "=">>, <<"/">>, <<"*">>, <<"*", "*">>,
  <<"*", "=">>, <<"*", "~">>, <<"=">>, <<"=", "=">>, <<":">>, <<":", ":">>, <<"$">>}
OperatorsFrom == [c \in {op[1] : op \in OperatorText} |-> {op \in OperatorText : op[1] = c}]
Operator(text, i) ==
  LET c == TokenAt(text, i)
      found == {op \in IF c \in DOMAIN OperatorsFrom THEN OperatorsFrom[c] ELSE {} :
                  Slice(text, i, i + Len(op) - 1) = op}
      longest == CHOOSE op \in found : \A other \in found : Len(other) <= Len(op)
  IN  IF found = {} \/ (longest = <<"+">> /\ TokenAt(text, i + 1) = "?") THEN Lexed("invalid", i + 1)
      ELSE Lexed("op", i + Len(longest))

\* What stands between two tokens: spaces, lines after --, # or //, and what
\* is between /* and */, which must end.
LineEnds == {"lf", "cr"}
Spaces == LineEnds \cup {" ", "tab"}
RECURSIVE AfterLine(_, _), AfterComment(_, _), SkipTrivia(_, _)
AfterLine(text, i) == IF TokenAt(text, i) \in LineEnds \cup {"end"} THEN i ELSE AfterLine(text, i + 1)
AfterComment(text, i) ==
  CASE i > Len(text) -> 0
    [] TokenAt(text, i) = "*" /\ TokenAt(text, i + 1) = "/" -> i + 2
    [] OTHER -> AfterComment(text, i + 1)
SkipTrivia(text, i) ==
  LET two == Slice(text, i, i + 1)
  IN  CASE TokenAt(text, i) \in Spaces -> SkipTrivia(text, i + 1)
        [] two \in {<<"-", "-">>, <<"/", "/">>} \/ TokenAt(text, i) = "#" -> SkipTrivia(text, AfterLine(text, i))
        [] two = <<"/", "*">> /\ AfterComment(text, i + 2) # 0 -> SkipTrivia(text, AfterComment(text, i + 2))
        [] OTHER -> i

\* The token at a place where no space or comment is.
LexemeAt(text, i) ==
  LET c == TokenAt(text, i)
      second == TokenAt(text, i + 1)
  IN  CASE c = "end" -> Lexed("eof", i)
        [] Slice(text, i, i + 1) = <<"/", "*">> -> Lexed("invalid", Len(text) + 1)
        [] c = "bt" -> QuotedLexeme(text, i + 1, "bt", "identifier")
        [] c \in Quotes -> QuotedLexeme(text, i + 1, c, "string")
        [] c \in StringPrefix /\ second \in Quotes -> QuotedLexeme(text, i + 2, second, IF c = "s" THEN "string" ELSE c)
        [] c = "$" /\ second = "bt" -> QuotedLexeme(text, i + 2, "bt", "parameter")
        [] c = "$" /\ second \in Alpha \cup {"_"} -> Lexed("parameter", RunEnd(text, i + 1, IdentChar))
        [] c \in Digit -> Lexed("digits", RunEnd(text, i, Digit \cup {"_"}))
        [] c \in Alpha \cup {"_"} /\ ~(c \in StringPrefix /\ second \in Quotes) -> WordLexeme(text, i)
        [] OTHER -> Operator(text, i)

\* The kinds of a text of one token, that stands alone.
Only(text) == IF LexemeAt(text, 1).next = Len(text) + 1 THEN {LexemeAt(text, 1).kind} ELSE {}

-----------------------------------------------------------------------------
(* Escapes.                                                                *)
SimpleEscape == [n |-> "lf", r |-> "cr", t |-> "tab", b |-> "BS", f |-> "FF", sq |-> "sq", dq |-> "dq",
                 bt |-> "bt", bs |-> "bs"] @@ ("0" :> "NUL")
Hex == ("0" :> <<1, 0>>) @@ ("1" :> <<1, 1>>) @@ ("8" :> <<1, 8>>) @@ ("a" :> <<1, 10>>) @@ ("e" :> <<1, 14>>)
         @@ ("00" :> <<2, 0>>) @@ ("e8" :> <<2, 232>>)
HexCount(s) == FoldLeft(LAMBDA n, c : n + Hex[c][1], 0, s)
HexValue(s) == FoldLeft(LAMBDA n, c : n * 16^Hex[c][1] + Hex[c][2], 0, s)

\* A code point in UTF-8; there is none above 10FFFF.
Encoded(code) ==
  CASE code > 1114111 -> {}
    [] code = 0 -> {<<"NUL">>}
    [] code = 8 -> {<<"BS">>}
    [] code = 10 -> {<<"lf">>}
    [] code \in 1..127 \ {8, 10} -> {<<"U" \o ToString(code)>>}
    [] OTHER -> {<<"U" \o ToString(code)>> \o [k \in 1..(IF code < 2048 THEN 1 ELSE IF code < 65536 THEN 2 ELSE 3) |-> "more"]}

\* After \u: up to six digits in braces, or four digits.  Pairs of the bytes
\* and the place after them.
UnicodeEscapes(text, i) ==
  LET braced == TokenAt(text, i) = "{"
      start == IF braced THEN i + 1 ELSE i
      Run(end) == SubSeq(text, start, end - 1)
      ends == {e \in start..RunEnd(text, start, DOMAIN Hex) :
                 IF braced THEN HexCount(Run(e)) <= 6 /\ TokenAt(text, e) = "}" ELSE HexCount(Run(e)) = 4}
  IN  UNION {{<<bytes, IF braced THEN e + 1 ELSE e>> : bytes \in Encoded(HexValue(Run(e)))} : e \in ends}

\* One character of a quoted text, and the place after it.
Character(text, i) ==
  CASE TokenAt(text, i) # "bs" -> {<< <<text[i]>>, i + 1>>}
    [] TokenAt(text, i) = "bs" /\ TokenAt(text, i + 1) \in DOMAIN SimpleEscape ->
         {<< <<SimpleEscape[text[i + 1]]>>, i + 2>>}
    [] TokenAt(text, i) = "bs" /\ TokenAt(text, i + 1) = "u" -> UnicodeEscapes(text, i + 2)
    [] OTHER -> {}

\* What the text stands for: one value, or none if an escape is wrong.
RECURSIVE Unescaped(_, _)
Unescaped(text, i) ==
  IF i > Len(text) THEN {<<>>}
  ELSE UNION {{c[1] \o rest : rest \in Unescaped(text, c[2])} : c \in Character(text, i)}

\* escaped_string_offset: the place in a string, quotes included, that an
\* offset into its value stands for.
RECURSIVE OffsetFrom(_, _, _)
OffsetFrom(text, i, offset) ==
  IF offset <= 0 THEN i - 1
  ELSE LET c == CHOOSE c \in Character(text, i) : TRUE IN OffsetFrom(text, c[2], offset - Len(c[1]))
EscapedOffset(string, offset) ==
  OffsetFrom(string, IF string[1] \in Quotes THEN 2 ELSE 3, offset)

-----------------------------------------------------------------------------
(* The printer.                                                            *)
Escaped(c, quote) ==
  CASE c = "NUL" -> <<"bs", "0">>
    [] c = "cr" -> <<"bs", "r">>
    [] c = "tab" -> <<"bs", "t">>
    [] c = "lf" -> <<"bs", "n">>
    [] c = "BS" -> <<"bs", "u", "{", "8", "}">>
    [] c = "FF" -> <<"bs", "f">>
    [] c \in {"bs", quote} -> <<"bs", c>>
    [] OTHER -> <<c>>
InQuotes(s, quote) == <<quote>> \o FlattenSeq([i \in DOMAIN s |-> Escaped(s[i], quote)]) \o <<quote>>
QuoteStr(s) == InQuotes(s, IF "sq" \in Range(s) THEN "dq" ELSE "sq")

NoWord(s) == s = <<>> \/ ~(Range(s) \subseteq IdentChar) \/ (Len(s) = 1 /\ s[1] \in Special)
EscapeKwFreeIdent(s) == IF NoWord(s) \/ s[1] \in Digit THEN InQuotes(s, "bt") ELSE s
EscapeIdent(s) == IF Len(s) = 1 /\ s[1] \in Reserved THEN InQuotes(s, "bt") ELSE EscapeKwFreeIdent(s)
EscapeObjectKey(s) == IF NoWord(s) \/ s[1] \in Digit THEN InQuotes(s, "dq") ELSE s

\* Faulty variant: a key of digits only is written as it is.
EscapeRidKeyPlain(s) == IF NoWord(s) THEN InQuotes(s, "bt") ELSE s
EscapeRidKey(s) == IF NoWord(s) \/ Range(s) \subseteq Digit \cup {"_"} THEN InQuotes(s, "bt") ELSE s

-----------------------------------------------------------------------------
(* The parser of names and strings: what a text of one token stands for.   *)
Between(text, from) == SubSeq(text, from, Len(text) - 1)
ReadString(text) == IF "string" \in Only(text) THEN Unescaped(Between(text, IF text[1] = "s" THEN 3 ELSE 2), 1) ELSE {}

\* A name, with every keyword a name; and where a value may stand.
UnescapedIdent(text) == IF TokenAt(text, 1) = "bt" THEN Unescaped(Between(text, 2), 1) ELSE {text}
ReadIdent(text) == IF Only(text) \subseteq {"identifier"} \cup Keyword /\ Only(text) # {} THEN UnescapedIdent(text) ELSE {}
ReadValueName(text) == IF Only(text) \cap StartsValue = {} THEN ReadIdent(text) ELSE {}
ReadParam(text) == IF "parameter" \in Only(text) THEN UnescapedIdent(Tail(text)) ELSE {}
ReadObjectKey(text) ==
  CASE "string" \in Only(text) -> ReadString(text)
    [] "digits" \in Only(text) -> {text}
    [] OTHER -> ReadIdent(text)

-----------------------------------------------------------------------------
(* The keys of records: integers and strings.                              *)
DigitValue(c) == IF c = "00" THEN 0 ELSE CHOOSE n \in 0..9 : ToString(n) = c
Weight(c) == IF c = "00" THEN 100 ELSE 10
IntOf(digits) == FoldLeft(LAMBDA n, c : n * Weight(c) + DigitValue(c), 0, digits)
WithoutUnderscores(s) == SelectSeq(s, LAMBDA c : c # "_")
RECURSIVE IntText(_)
IntText(n) ==
  CASE n < 0 -> <<"-">> \o IntText(-n)
    [] n \in 0..9 -> <<ToString(n)>>
    [] OTHER -> IntText(n \div 10) \o <<ToString(n % 10)>>

NumberKey(n) == [kind |-> "number", number |-> n, string |-> <<>>]
StringKey(s) == [kind |-> "string", number |-> 0, string |-> s]
WriteKey(key) == IF key.kind = "number" THEN IntText(key.number) ELSE EscapeRidKey(key.string)

\* Digits that are no integer, for their size or an underscore, are a string.
PlainKey(digits) ==
  IF "_" \notin Range(digits) /\ IntOf(digits) <= MaxInt THEN NumberKey(IntOf(digits)) ELSE StringKey(digits)

\* A negative key may have underscores; one letter after it is lost.
NegativeKey(text) ==
  LET end == RunEnd(text, 2, Digit \cup {"_"})
      digits == SubSeq(text, 2, end - 1)
      letter == TokenAt(text, end) \in Alpha
      n == IntOf(WithoutUnderscores(digits))
      next == IF letter THEN end + 1 ELSE end
  IN  IF TokenAt(text, 2) \notin Digit \/ next # Len(text) + 1 THEN {}
      ELSE IF ~letter /\ n <= MaxInt + 1 THEN {NumberKey(-n)} ELSE {StringKey(<<"-">> \o digits)}

ReadKey(text) ==
  LET kind == LexemeAt(text, 1).kind
      end == LexemeAt(text, 1).next
      rest == SubSeq(text, end, Len(text))
  IN  CASE kind = "digits" /\ rest = <<>> -> {PlainKey(text)}
        [] kind = "digits" /\ rest # <<>> ->
             IF Only(rest) \cap ({"identifier"} \cup Keyword \cup Special) # {} THEN {StringKey(text)} ELSE {}
        [] SubSeq(text, 1, end - 1) = <<"+">> -> {}   \* the digits are looked at, and left to read
        [] SubSeq(text, 1, end - 1) = <<"-">> -> NegativeKey(text)
        [] OTHER -> {StringKey(s) : s \in IF Only(text) \cap Special # {} THEN {text} ELSE ReadIdent(text)}
=============================================================================
