----------------------------- MODULE TokenText -----------------------------
(***************************************************************************)
(* Texts as sequences of tokens and trees made of nodes, for the models of *)
(* the parser's recursive descent.                                         *)
(***************************************************************************)
EXTENDS Integers, Sequences, TLC, SequencesExt

\* What is written between a list's elements stands before all but the first.
Separated(texts, sep) ==
  FlattenSeq([i \in DOMAIN texts |-> IF i = 1 THEN texts[i] ELSE <<sep>> \o texts[i]])

\* A node: what it is, what distinguishes it from others of its kind, and
\* the nodes below it.
Node(kind, op, args) == [kind |-> kind, op |-> op, args |-> args]
Leaf(x) == Node("leaf", x, <<>>)

\* What a parser returns: a tree and the place after it, or nothing.
TokenAt(text, i) == IF i > Len(text) THEN "end" ELSE text[i]
Parsed(tree, next) == [ok |-> TRUE, tree |-> tree, next |-> next]
Failed == [ok |-> FALSE, tree |-> Leaf("a"), next |-> 0]

\* What follows a part that was read; the tree of one as part of another.
AndThen(r, Rest(_, _)) == IF r.ok THEN Rest(r.tree, r.next) ELSE Failed
Then(r, Make(_)) == AndThen(r, LAMBDA tree, next : Parsed(Make(tree), next))

\* A closing delimiter, and the tree of what was enclosed.
Closed(text, i, close, tree) == IF TokenAt(text, i) = close THEN Parsed(tree, i + 1) ELSE Failed

\* The whole text is read: one tree, or none.
Whole(r, text) == IF r.ok /\ r.next = Len(text) + 1 THEN {r.tree} ELSE {}
=============================================================================
