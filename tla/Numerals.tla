------------------------------ MODULE Numerals ------------------------------
(***************************************************************************)
(* Numbers and durations: how the lexer puts them together from the digits *)
(* that start them, what they stand for, and how they are written.  With   *)
(* them, a user who types a word or a number, and what of it must survive  *)
(* the formatter.                                                          *)
(***************************************************************************)
EXTENDS Lexemes

CONSTANTS WordPieces,      \* what a word is typed from
          NumeralPieces,   \* what a number is typed from
          MaxWord,         \* bounds: how many pieces of each are typed
          MaxNumeral,
          MaxExponent,     \* a float of more digits is infinite or zero, a decimal is refused
          UnitSize,        \* of each unit of a duration, in nanoseconds
          MaxDuration

VARIABLES typed,     \* the text that was typed
          numeric,   \* is it a number?
          pieces     \* how many pieces it has
lexemeVars == <<typed, numeric, pieces>>

-----------------------------------------------------------------------------
(* Values.  Floats and decimals are digits and a power of ten.             *)
Integer(n) == [kind |-> "integer", sign |-> "", n |-> n, digits |-> <<>>]
Duration(n) == [kind |-> "duration", sign |-> "", n |-> n, digits |-> <<>>]
Real(kind, digits, exponent) == [kind |-> kind, sign |-> "", n |-> exponent, digits |-> digits]
Zero(kind) == Real(kind, <<>>, 0)
Infinite == Real("float", <<"Infinity">>, 0)
Negated(v) == IF v.kind = "integer" THEN Integer(-v.n) ELSE [v EXCEPT !.sign = "-"]

\* Without the zeros around the digits.
SingleDigits(s) == FlattenSeq([i \in DOMAIN s |-> IF s[i] = "00" THEN <<"0", "0">> ELSE <<s[i]>>])
Normal(kind, digits, exponent) ==
  LET first == SelectInSeq(digits, LAMBDA c : c # "0")
      last == SelectLastInSeq(digits, LAMBDA c : c # "0")
  IN  IF first = 0 THEN Zero(kind)
      ELSE Real(kind, SubSeq(digits, first, last), exponent + Len(digits) - last)
\* A float out of range is infinite or zero; a decimal is refused.
InRange(v) ==
  CASE v.n + Len(v.digits) \in -MaxExponent..MaxExponent -> {v}
    [] v.n + Len(v.digits) > MaxExponent /\ v.kind = "float" -> {Infinite}
    [] v.n + Len(v.digits) < -MaxExponent /\ v.kind = "float" -> {Zero("float")}
    [] OTHER -> {}

-----------------------------------------------------------------------------
(* The lexer.                                                              *)
DigitsEnd(text, i) == RunEnd(text, i, Digit \cup {"_"})
HasDigit(text, i) == TokenAt(text, i) \in Digit

\* The place after an optional part of a number; 0 if the part is wrong.
MantissaEnd(text, i) ==
  IF TokenAt(text, i) = "." /\ HasDigit(text, i + 1) THEN DigitsEnd(text, i + 1) ELSE i
ExponentStart(text, i) == IF TokenAt(text, i + 1) \in {"-", "+"} THEN i + 2 ELSE i + 1
ExponentEnd(text, i) ==
  CASE TokenAt(text, i) # "e" -> i
    [] TokenAt(text, i) = "e" /\ HasDigit(text, ExponentStart(text, i)) -> DigitsEnd(text, ExponentStart(text, i))
    [] OTHER -> 0

Value(kind, digits, mantissa, exponent) ==
  LET Of(s) == SingleDigits(WithoutUnderscores(s))
      real == Normal(kind, Of(digits) \o Of(mantissa), exponent - Len(Of(mantissa)))
  IN  IF kind # "integer" THEN InRange(real)
      ELSE LET n == IntOf(WithoutUnderscores(digits)) IN IF n <= MaxInt + 1 THEN {Integer(n)} ELSE {}

\* number: digits, a mantissa, an exponent and the suffix f or dec, with no
\* letter after them.
ReadNumberText(text) ==
  LET whole == DigitsEnd(text, 1)
      mantissa == MantissaEnd(text, whole)
      end == ExponentEnd(text, mantissa)
      from == ExponentStart(text, mantissa)
      power == IF end = mantissa THEN 0 ELSE IntOf(WithoutUnderscores(SubSeq(text, from, end - 1)))
      suffix == SubSeq(text, end, Len(text))
      kind == CASE suffix = <<"d", "e", "c">> -> "decimal"
                [] suffix = <<"f">> \/ (suffix = <<>> /\ end > whole) -> "float"
                [] OTHER -> "integer"
  IN  IF end = 0 \/ (suffix # <<>> /\ kind = "integer") THEN {}
      ELSE Value(kind, SubSeq(text, 1, whole - 1), SubSeq(text, whole + 1, mantissa - 1),
                 IF TokenAt(text, mantissa + 1) = "-" THEN -power ELSE power)

\* duration: digits and a unit, again and again; no letter may follow a unit.
UnitAt(text, i) ==
  LET named == {u \in {Slice(text, i, i), Slice(text, i, i + 1)} : u \in DOMAIN UnitSize}
  IN  IF named = {} THEN <<>> ELSE CHOOSE u \in named : \A v \in named : Len(v) <= Len(u)
RECURSIVE ReadDuration(_, _, _)
ReadDuration(text, i, sum) ==
  LET end == DigitsEnd(text, i)
      unit == UnitAt(text, end)
      next == end + Len(unit)
      total == sum + IntOf(WithoutUnderscores(SubSeq(text, i, end - 1))) * UnitSize[unit]
  IN  IF unit = <<>> \/ TokenAt(text, next) \in Alpha THEN {}
      ELSE IF total > MaxDuration THEN {}
      ELSE IF HasDigit(text, next) THEN ReadDuration(text, next, total)
      ELSE IF next = Len(text) + 1 THEN {Duration(total)} ELSE {}

\* What follows the digits decides; dec is a suffix and not a day.
ReadUnsigned(text) ==
  LET after == DigitsEnd(text, 1)
      next == TokenAt(text, after)
  IN  IF next \in {"n", "s", "m", "h", "y", "w", "u"} \/ (next = "d" /\ TokenAt(text, after + 1) # "e")
        THEN ReadDuration(text, 1, 0) ELSE ReadNumberText(text)

\* parse_prefix_op: a sign right before digits is part of the number, but
\* never of a duration.
ReadNumeral(text) ==
  LET sign == TokenAt(text, 1)
      signed == sign \in {"-", "+"}
      values == ReadUnsigned(IF signed THEN Tail(text) ELSE text)
  IN  CASE text = <<"Infinity">> -> {Infinite}
        [] HasDigit(text, IF signed THEN 2 ELSE 1) ->
             {IF sign = "-" /\ v.kind # "duration" THEN Negated(v) ELSE v :
                v \in {w \in values : (signed => w.kind # "duration") /\ (w = Integer(MaxInt + 1) => sign = "-")}}
        [] text = <<"-", "Infinity">> -> {Negated(Infinite)}
        [] OTHER -> {}

\* integer and float, which the clauses that need a count or a ratio use.
ReadInteger(text) ==
  LET digits == IF TokenAt(text, 1) = "+" THEN Tail(text) ELSE text
  IN  IF HasDigit(digits, 1) /\ DigitsEnd(digits, 1) = Len(digits) + 1
        THEN {IntOf(WithoutUnderscores(digits))} ELSE {}
ReadFloat(text) ==
  LET signed == TokenAt(text, 1) \in {"-", "+"}
      digits == IF signed THEN Tail(text) ELSE text
      float == IF TokenAt(digits, Len(digits)) = "f" THEN Front(digits) ELSE digits
      values == {v \in ReadNumberText(float \o <<"f">>) : v.kind = "float"}
  IN  IF ~HasDigit(digits, 1) THEN {}
      ELSE {IF TokenAt(text, 1) = "-" THEN Negated(v) ELSE v : v \in values}

-----------------------------------------------------------------------------
(* The printer.                                                            *)
Zeros(n) == [i \in 1..n |-> "0"]
PlainDigits(v) ==
  LET point == Len(v.digits) + v.n
  IN  CASE v.digits = <<>> -> <<"0">>
        [] v.n >= 0 /\ v.digits # <<>> -> v.digits \o Zeros(v.n)
        [] point > 0 /\ v.n < 0 -> SubSeq(v.digits, 1, point) \o <<".">> \o SubSeq(v.digits, point + 1, Len(v.digits))
        [] OTHER -> <<"0", ".">> \o Zeros(-point) \o v.digits

\* The largest units first.
RECURSIVE DurationText(_)
DurationText(n) ==
  LET fitting == {u \in DOMAIN UnitSize : UnitSize[u] <= n}
      unit == CHOOSE u \in fitting : \A v \in fitting : UnitSize[v] <= UnitSize[u]
      rest == n % UnitSize[unit]
  IN  IF n = 0 THEN <<"0", "n", "s">>
      ELSE IntText(n \div UnitSize[unit]) \o unit \o (IF rest = 0 THEN <<>> ELSE DurationText(rest))

\* Faulty variant: a float has no suffix.
FloatSuffixNone == <<>>
FloatSuffix == <<"f">>
WriteNumeral(v) ==
  (IF v.sign = "-" THEN <<"-">> ELSE <<>>)
    \o CASE v.kind = "integer" -> IntText(v.n)
         [] v.kind = "duration" -> DurationText(v.n)
         [] [v EXCEPT !.sign = ""] = Infinite -> <<"Infinity">>
         [] v.kind = "float" /\ v.digits # <<"Infinity">> -> PlainDigits(v) \o FloatSuffix
         [] OTHER -> PlainDigits(v) \o <<"d", "e", "c">>

-----------------------------------------------------------------------------
LexemeInit ==
  /\ typed = <<>>
  /\ numeric \in BOOLEAN
  /\ pieces = 0

TypePiece ==
  /\ pieces < (IF numeric THEN MaxNumeral ELSE MaxWord)
  /\ pieces' = pieces + 1
  /\ \E p \in IF numeric THEN NumeralPieces ELSE WordPieces : typed' = typed \o p
  /\ UNCHANGED numeric

LexemeNext == TypePiece
LexemeSpec == LexemeInit /\ [][LexemeNext]_lexemeVars

-----------------------------------------------------------------------------
\* Any text can be the content of a string, a name, a parameter or a key:
\* what the printer writes for it is read as the same content.  Only the
\* keyword explain is written bare where it is not a name.
ContentIsKept ==
  /\ ReadString(QuoteStr(typed)) = {typed}
  /\ ReadIdent(EscapeKwFreeIdent(typed)) = {typed}
  /\ typed # <<"explain">> => ReadValueName(EscapeIdent(typed)) = {typed}
  /\ ReadParam(<<"$">> \o EscapeKwFreeIdent(typed)) = {typed}
  /\ ReadObjectKey(EscapeObjectKey(typed)) = {typed}
  /\ ReadKey(EscapeRidKey(typed)) = {StringKey(typed)}

\* The key of a record that was read is written so that it is read again.
KeysAreKept == \A key \in ReadKey(typed) : ReadKey(WriteKey(key)) = {key}

\* The place in a string that an offset into its value is mapped to is the
\* first one before which that much of the value is written.
OffsetsAreExact ==
  \A value \in ReadString(typed) :
    LET start == IF typed[1] = "s" THEN 3 ELSE 2
    IN  \A offset \in 0..Len(value) :
          LET place == EscapedOffset(typed, offset)
              Before(i) == Unescaped(SubSeq(typed, start, i), 1)
          IN  /\ \E v \in Before(place) : IsPrefix(v, value) /\ Len(v) >= offset
              /\ \A i \in start - 1..place - 1 : \A v \in Before(i) : Len(v) < offset

\* Whatever is typed as a word: what it stands for survives the formatter,
\* and the errors in a string are shown where they are.
LexemesAreKept == ~numeric => ContentIsKept /\ KeysAreKept /\ OffsetsAreExact

\* A number is written so that it is read again as the same value of the
\* same kind, the least integer and the infinities among them; and the
\* readers of counts and ratios agree with the reader of values.
NumeralsAreKept ==
  numeric =>
    /\ \A v \in ReadNumeral(typed) : ReadNumeral(WriteNumeral(v)) = {v}
    /\ \A n \in ReadInteger(typed) : n <= MaxInt => ReadNumeral(typed) = {Integer(n)}
    /\ \A v \in ReadFloat(typed), w \in ReadNumeral(typed) : w.kind = "float" => v = w
=============================================================================
