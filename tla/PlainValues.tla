---------------------------- MODULE PlainValues ----------------------------
(***************************************************************************)
(* Values without expressions in them: the two parsers that read nothing   *)
(* else, one for values and one for JSON, against the parser of            *)
(* expressions.  A mode names the parser, "value" or "json".               *)
(***************************************************************************)
EXTENDS Values

RECURSIVE ReadPlainly(_, _, _), ReadPlainItems(_, _, _, _), ReadPlainEntries(_, _, _, _), ReadPlainSet(_, _, _)

-----------------------------------------------------------------------------
(* What stands between brackets.                                           *)
ReadPlainItems(mode, text, i, sofar) ==
  IF TokenAt(text, i) = "]" THEN Parsed(Node("array", "", sofar), i + 1)
  ELSE AndThen(ReadPlainly(mode, text, i), LAMBDA item, next :
         IF TokenAt(text, next) = "," THEN ReadPlainItems(mode, text, next + 1, Append(sofar, item))
         ELSE Closed(text, next, "]", Node("array", "", Append(sofar, item))))

\* Faulty variant: the first value of a key stays.
PutOnce(entries, key, value) ==
  IF \E i \in DOMAIN entries : entries[i].op = key THEN entries ELSE Append(entries, Node("entry", key, <<value>>))

\* The last value of a key replaces those before it.
Put(entries, key, value) ==
  Append(SelectSeq(entries, LAMBDA n : n.op # key), Node("entry", key, <<value>>))
ReadPlainEntries(mode, text, i, sofar) ==
  LET with(value) == Put(sofar, KeyName(TokenAt(text, i)), value)
  IN  CASE TokenAt(text, i) = "}" -> Parsed(Node("object", "", sofar), i + 1)
        [] TokenAt(text, i) # "}" /\ StartsEntry(text, i) ->
             AndThen(ReadPlainly(mode, text, i + 2), LAMBDA value, next :
               IF TokenAt(text, next) = "," THEN ReadPlainEntries(mode, text, next + 1, with(value))
               ELSE Closed(text, next, "}", Node("object", "", with(value))))
        [] OTHER -> Failed

\* A set has each value once.  One with a single value needs a comma after
\* it; the values are counted, and not the times one was written.
ReadPlainSet(text, i, sofar) ==
  LET with(item) == IF Contains(sofar, item) THEN sofar ELSE Append(sofar, item)
  IN  IF TokenAt(text, i) = "}" THEN Parsed(Node("set", "", sofar), i + 1)
      ELSE AndThen(ReadPlainly("value", text, i), LAMBDA item, next :
             CASE TokenAt(text, next) = "," -> ReadPlainSet(text, next + 1, with(item))
               [] TokenAt(text, next) # "," /\ Len(with(item)) <= 1 -> Failed
               [] OTHER -> Closed(text, next, "}", Node("set", "", with(item))))

\* In parentheses, a number that no comma follows is all there is.
ReadPlainParentheses(text, i) ==
  LET number(n) == TokenAt(text, n) \in NumberToken
  IN  CASE number(i) /\ TokenAt(text, i + 1) = "," ->
             IF number(i + 2) THEN Closed(text, i + 3, ")", Node("point", "", <<Leaf(text[i]), Leaf(text[i + 2])>>)) ELSE Failed
        [] number(i) /\ TokenAt(text, i + 1) # "," -> Closed(text, i + 1, ")", Leaf(text[i]))
        [] OTHER -> AndThen(ReadPlainly("value", text, i), LAMBDA inner, next : Closed(text, next, ")", inner))

ReadPlainBraces(text, i) ==
  CASE TokenAt(text, i) = "}" -> Parsed(Node("object", "", <<>>), i + 1)
    [] TokenAt(text, i) = "," -> Closed(text, i + 1, "}", Node("set", "", <<>>))
    [] StartsEntry(text, i) -> ReadPlainEntries("value", text, i, <<>>)
    [] OTHER -> ReadPlainSet(text, i, <<>>)

-----------------------------------------------------------------------------
(* Records and tables.                                                     *)
ReadPlainKey(mode, text, i) ==
  CASE TokenAt(text, i) = "{" -> ReadPlainEntries(mode, text, i + 1, <<>>)
    [] TokenAt(text, i) = "[" -> ReadPlainItems(mode, text, i + 1, <<>>)
    [] TokenAt(text, i) \in NameToken \cup NumberToken -> Parsed(Leaf(text[i]), i + 1)
    [] OTHER -> Failed
ReadPlainRecord(mode, text, i) ==
  IF TokenAt(text, i) \in NameToken /\ TokenAt(text, i + 1) = ":"
  THEN Then(ReadPlainKey(mode, text, i + 2), LAMBDA t : Node("record", text[i], <<t>>))
  ELSE Failed

\* In JSON what is no record is a table.  Its name is looked for after the
\* tokens that were taken for a record: the name, what should have been the
\* colon, and the key.  (After a key in brackets nothing is looked for here.)
TableAt(text, i) ==
  IF TokenAt(text, i) \notin NameToken THEN i + 1 ELSE IF TokenAt(text, i + 1) # ":" THEN i + 2 ELSE i + 3
ReadTableName(text, i) ==
  LET at == TableAt(text, i)
  IN  IF TokenAt(text, at) \in NameToken /\ TokenAt(text, i + 2) \notin {"{", "["}
      THEN Parsed(Node("table", text[at], <<>>), at + 1) ELSE Failed
ReadRecordOrTable(text, i) ==
  LET Else(r) == IF r.ok THEN r ELSE ReadTableName(text, i) IN Else(ReadPlainRecord("json", text, i))

-----------------------------------------------------------------------------
(* Values.  A range ends with a value, which may be a range: ranges are    *)
(* grouped from the right.                                                 *)
RangeFrom(start, text, i) ==
  LET ends == Included(text[i]) \/ StartsPrime(TokenAt(text, i + 1))
  IN  IF ends THEN Then(ReadPlainly("value", text, i + 1), LAMBDA t : Node("range", text[i], <<start, t>>))
      ELSE Parsed(Node("range", text[i], <<start, Nothing>>), i + 1)

ReadPlainPrime(text, i) ==
  LET token == TokenAt(text, i)
  IN  CASE token \in {"NONE", "NULL", "true", "s"} \cup NumberToken -> Parsed(Leaf(token), i + 1)
        [] token = "{" -> ReadPlainBraces(text, i + 1)
        [] token = "[" -> ReadPlainItems("value", text, i + 1, <<>>)
        [] token = "(" -> ReadPlainParentheses(text, i + 1)
        [] token \in {"..", "..="} -> RangeFrom(Nothing, text, i)
        [] OTHER -> ReadPlainRecord("value", text, i)

\* An object, and the set of no values, are returned before a range is
\* looked for.
ReadValue(text, i) ==
  LET returned(v) == TokenAt(text, i) = "{" /\ (v.kind = "object" \/ v.args = <<>>)
  IN  AndThen(ReadPlainPrime(text, i), LAMBDA first, next :
        IF returned(first) \/ TokenAt(text, next) \notin RangeToken THEN Parsed(first, next)
        ELSE RangeFrom(first, text, next))

ReadJson(text, i) ==
  LET token == TokenAt(text, i)
  IN  CASE token \in {"NULL", "true", "s"} \cup NumberToken -> Parsed(Leaf(token), i + 1)
        [] token = "{" -> ReadPlainEntries("json", text, i + 1, <<>>)
        [] token = "[" -> ReadPlainItems("json", text, i + 1, <<>>)
        [] OTHER -> ReadRecordOrTable(text, i)

ReadPlainly(mode, text, i) == IF mode = "json" THEN ReadJson(text, i) ELSE ReadValue(text, i)
PlainTrees(mode, text) == Whole(ReadPlainly(mode, text, 1), text)

-----------------------------------------------------------------------------
\* A literal and a value are the same: of an object's entries the last of a
\* key counts, of a set's elements their order and number do not.
LastEntry(entries, key) == SelectLastInSubSeq(entries, 1, Len(entries), LAMBDA n : n.op = key)
Keys(entries) == {entries[i].op : i \in DOMAIN entries}

RECURSIVE Same(_, _)
Same(t, u) ==
  /\ t.kind = u.kind /\ t.op = u.op
  /\ CASE t.kind = "set" ->
            /\ \A i \in DOMAIN t.args : \E j \in DOMAIN u.args : Same(t.args[i], u.args[j])
            /\ \A j \in DOMAIN u.args : \E i \in DOMAIN t.args : Same(t.args[i], u.args[j])
       [] t.kind = "object" ->
            /\ Keys(t.args) = Keys(u.args)
            /\ \A key \in Keys(t.args) :
                 Same(t.args[LastEntry(t.args, key)].args[1], u.args[LastEntry(u.args, key)].args[1])
       [] OTHER -> Len(t.args) = Len(u.args) /\ \A i \in DOMAIN t.args : Same(t.args[i], u.args[i])

\* What is known to differ: a range in a range, which expressions group from
\* the left or refuse, and one that starts at a record, where they see the
\* records between two keys.
RECURSIVE Differs(_)
Differs(v) ==
  \/ v.kind = "range" /\ \E i \in {1, 2} : v.args[i].kind = "range"
  \/ v.kind = "range" /\ v.args[1].kind = "record"
  \/ \E i \in DOMAIN v.args : Differs(v.args[i])
RECURSIVE NamesTable(_)
NamesTable(v) == v.kind = "table" \/ \E i \in DOMAIN v.args : NamesTable(v.args[i])

\* A text that is read as a value is the literal of that value among
\* expressions, and one that is read as JSON and names no table is the same
\* value: three parsers are written for one syntax.
ParsersAgree ==
  /\ \A v \in PlainTrees("value", valueText) : Differs(v) \/ \E e \in Trees(valueText) : Same(e, v)
  /\ \A v \in PlainTrees("json", valueText) : NamesTable(v) \/ v \in PlainTrees("value", valueText)
=============================================================================
