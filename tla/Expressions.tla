---------------------------- MODULE Expressions ----------------------------
(***************************************************************************)
(* Operators in expressions: how the parser groups them by their binding   *)
(* power, and where the printer puts parentheses so that they are grouped  *)
(* the same way again.                                                     *)
(*                                                                         *)
(* A tree is a leaf or an operator on one or two trees; a text is a        *)
(* sequence of tokens.  The leaves: "a" stands for a name, a parameter and *)
(* all else that can stand anywhere, "1" for a number, "-1" for a negative *)
(* one, "S" for a statement and ".." for the range without bounds.  <t> is *)
(* the cast to a type, () a call, >.. and >..= a range without its start.  *)
(***************************************************************************)
EXTENDS TokenText

CONSTANTS Operands,   \* the trees an expression may be made of
          Operators   \* the infix operators it may be made with

VARIABLE expression   \* the tree of the expression in the document
expressionVars == <<expression>>

Prefix(op, e) == Node("prefix", op, <<e>>)
Postfix(e, op) == Node("postfix", op, <<e>>)
Binary(l, op, r) == Node("binary", op, <<l, r>>)

-----------------------------------------------------------------------------
(* Binding power, from the weakest to the strongest.                       *)
Base == 0
OrPower == 1
AndPower == 2
Equality == 3
Relation == 4
AddSub == 5
MulDiv == 6
PowerOf == 7
Nullish == 8
PrefixPower == 9
RangePower == 10
CallPower == 11
Prime == 12

InfixOp ==
  ("OR" :> OrPower) @@ ("AND" :> AndPower)
  @@ [o \in {"=", "==", "!=", "*=", "?="} |-> Equality]
  @@ [o \in {"<", "<=", ">", ">=", "@@", "<||>", "CONTAINS", "CONTAINSNOT", "CONTAINSALL",
             "CONTAINSANY", "CONTAINSNONE", "INSIDE", "NOTINSIDE", "ALLINSIDE", "ANYINSIDE",
             "NONEINSIDE", "OUTSIDE", "INTERSECTS"} |-> Relation]
  @@ [o \in {"+", "-"} |-> AddSub] @@ [o \in {"*", "/", "%"} |-> MulDiv]
  @@ ("**" :> PowerOf) @@ [o \in {"??", "?:"} |-> Nullish]
  @@ [o \in {"..", "..=", ">..", ">..="} |-> RangePower]
PrefixOp == [o \in {"!", "+", "-", "<t>"} |-> PrefixPower] @@ [o \in {"..", "..="} |-> RangePower]
PostfixOp == [o \in {"..", ">.."} |-> RangePower] @@ ("()" :> CallPower)

\* Equality but for ==, and relation, can not be chained.
Chains(op) == op = "==" \/ InfixOp[op] \notin {Equality, Relation}

\* The power of a tree; a call counts as a prefix.
Power(e) ==
  CASE e.kind = "binary" -> InfixOp[e.op]
    [] e.kind = "prefix" -> PrefixOp[e.op]
    [] e.kind = "postfix" -> IF e.op = "()" THEN PrefixPower ELSE RangePower
    [] OTHER -> Prime
IsRange(e) == e.kind # "leaf" /\ Power(e) = RangePower

-----------------------------------------------------------------------------
(* The printer.                                                            *)
NeedsParentheses(e) == e.kind = "postfix" \/ (e.kind = "leaf" /\ e.op \in {"S", ".."})

RECURSIVE HasLeftMinus(_)
HasLeftMinus(e) ==
  CASE e.kind = "leaf" -> e.op = "-1"
    [] e.kind = "prefix" -> e.op = "-"
    [] OTHER -> HasLeftMinus(e.args[1])

\* An operand of an operator of this power is put in parentheses.
Weaker(e, power) == NeedsParentheses(e) \/ Power(e) < power
Covered(e, power, alone) == Weaker(e, power) \/ (Power(e) = power /\ power \in alone)
InPrefix(op, e) == Covered(e, PrefixOp[op], {RangePower}) \/ (op = "-" /\ HasLeftMinus(e))
InPostfix(op, e) == Covered(e, PostfixOp[op], {RangePower}) \/ op = "()"
\* Faulty variant: an operand of equal power is never put in parentheses.
InBinaryWeakerOnly(op, e) == Weaker(e, InfixOp[op])
InBinary(op, e) == Covered(e, InfixOp[op], {RangePower, Relation, Equality})

RECURSIVE TextOf(_)
Parenthesized(e, covered) == IF covered THEN <<"(">> \o TextOf(e) \o <<")">> ELSE TextOf(e)
TextOf(e) ==
  CASE e.kind = "leaf" -> IF e.op = "-1" THEN <<"-", "1">> ELSE <<e.op>>
    [] e.kind = "prefix" -> <<e.op>> \o Parenthesized(e.args[1], InPrefix(e.op, e.args[1]))
    [] e.kind = "postfix" -> Parenthesized(e.args[1], InPostfix(e.op, e.args[1])) \o <<e.op>>
    [] e.kind = "binary" ->
         Parenthesized(e.args[1], InBinary(e.op, e.args[1])) \o <<e.op>>
           \o Parenthesized(e.args[2], InBinary(e.op, e.args[2]))

-----------------------------------------------------------------------------
(* The parser.  It returns the tree and the place after it, or fails.      *)
StartsExpression(token) == token \in {"a", "1", "S", "(", "+", "-", "<t>", ".."}

\* A range operator with no expression after it stands after its operand.
StandsAfter(text, i) ==
  LET token == TokenAt(text, i)
  IN  token \in DOMAIN PostfixOp /\ (token = "()" \/ ~StartsExpression(TokenAt(text, i + 1)))

RECURSIVE ParseExpr(_, _, _), ParseRest(_, _, _, _, _)

\* A number after + or - takes the sign for its own.
ParsePrefix(text, i) ==
  LET op == text[i]
      operand == ParseExpr(text, i + 1, PrefixOp[op])
  IN  CASE op \in {"+", "-"} /\ TokenAt(text, i + 1) = "1" ->
             Parsed(Leaf(IF op = "-" THEN "-1" ELSE "1"), i + 2)
        [] op = ".." /\ ~StartsExpression(TokenAt(text, i + 1)) -> Parsed(Leaf(".."), i + 1)
        [] OTHER -> IF operand.ok THEN Parsed(Prefix(op, operand.tree), operand.next) ELSE Failed

ParsePrime(text, i) ==
  LET inner == ParseExpr(text, i + 1, Base)
  IN  CASE TokenAt(text, i) \in {"a", "1", "S"} -> Parsed(Leaf(text[i]), i + 1)
        [] TokenAt(text, i) = "(" /\ inner.ok /\ TokenAt(text, inner.next) = ")" ->
             Parsed(inner.tree, inner.next + 1)
        [] OTHER -> Failed

\* The loop of the Pratt parser: operators stronger than min go on with the
\* tree so far; whole is whether that is one value or in parentheses.
ParseExpr(text, i, min) ==
  LET signed == TokenAt(text, i) \in DOMAIN PrefixOp
      first == IF signed THEN ParsePrefix(text, i) ELSE ParsePrime(text, i)
  IN  IF first.ok THEN ParseRest(text, first.next, min, first.tree, ~signed) ELSE Failed

Unchained(text, i, lhs, whole, rhs) ==
  /\ ~Chains(text[i])
  /\ \/ ~whole /\ Power(lhs) = InfixOp[text[i]]
     \/ TokenAt(text, i + 1) # "(" /\ Power(rhs) = InfixOp[text[i]]

ParseRest(text, i, min, lhs, whole) ==
  LET op == TokenAt(text, i)
      power == IF StandsAfter(text, i) THEN PostfixOp[op] ELSE IF op \in DOMAIN InfixOp THEN InfixOp[op] ELSE Base
      rhs == ParseExpr(text, i + 1, power)
  IN  CASE power <= min -> Parsed(lhs, i)
        [] power > min /\ StandsAfter(text, i) ->
             IF op # "()" /\ ~whole /\ IsRange(lhs) THEN Failed
             ELSE ParseRest(text, i + 1, min, Postfix(lhs, op), FALSE)
        [] OTHER ->
             IF ~rhs.ok \/ Unchained(text, i, lhs, whole, rhs.tree) THEN Failed
             ELSE ParseRest(text, rhs.next, min, Binary(lhs, op, rhs.tree), FALSE)

\* The trees a text is read as: one, or none if it is refused.
Parse(text) == Whole(ParseExpr(text, 1, Base), text)

-----------------------------------------------------------------------------
\* An expression in a document: an operator on any of the operands.
ExpressionInit ==
  \/ expression \in Operands
  \/ \E op \in DOMAIN PrefixOp, e \in Operands : expression = Prefix(op, e)
  \/ \E op \in DOMAIN PostfixOp, e \in Operands : expression = Postfix(e, op)
  \/ \E op \in Operators, l \in Operands, r \in Operands : expression = Binary(l, op, r)

\* The document is formatted: what it holds now is what its text says.
Format == expression' \in Parse(TextOf(expression))

ExpressionNext == Format
ExpressionSpec == ExpressionInit /\ [][ExpressionNext]_expressionVars

-----------------------------------------------------------------------------
\* What is known not to survive.  The right operand of an operator is not
\* put in parentheses when it has the same power, though the parser groups
\* from the left: a - (b - c).  And a number takes a sign that was another
\* operator before it: -(1..2).
Regrouped(e) ==
  /\ e.kind = "binary" /\ e.args[2].kind = "binary"
  /\ Power(e.args[2]) = Power(e) /\ Power(e) \notin {RangePower, Relation, Equality}
Signed(e) == e.kind = "prefix" /\ e.op \in {"+", "-"} /\ TextOf(e)[2] = "1"

RECURSIVE Survives(_)
Survives(e) == ~Regrouped(e) /\ ~Signed(e) /\ \A i \in DOMAIN e.args : Survives(e.args[i])

\* Every expression that is written can be read again, and what is read is
\* the same tree, but for the losses Survives names (tests/roundtrip.rs says
\* the same of all of them).
ExpressionRoundTrip ==
  LET trees == Parse(TextOf(expression))
  IN  trees # {} /\ (Survives(expression) => trees = {expression})
=============================================================================
