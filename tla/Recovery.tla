------------------------------ MODULE Recovery ------------------------------
(***************************************************************************)
(* parse_with_recovery (src/recovery.rs): the source is cut at every       *)
(* semicolon that the lexer sees outside of braces, and each piece is      *)
(* parsed on its own.  A source is a sequence of tokens: Word and Bad,     *)
(* which no statement may contain, stand for everything the others do not  *)
(* (a string or a comment is a single token of the lexer).                 *)
(*                                                                         *)
(* An IF with words may have semicolons of its own, which are cut at all   *)
(* the same: IF c THEN a; ELSE b; END.  Of one in no braces, IfThen        *)
(* stands for "IF c THEN", Otherwise for "ELSE" or "ELSE IF c THEN".  In   *)
(* braces nothing is cut, and a Word stands for these, too.                *)
(*                                                                         *)
(* A piece, and a statement found in it, is the pair of its first position *)
(* and the position after its last one.                                    *)
(***************************************************************************)
EXTENDS Integers, Sequences, SequencesExt, FiniteSets

CONSTANTS
  Word, Bad,
  MaxTokens      \* bound: tokens of a source

\* The tokens that split_into_chunks looks at.
OpenBrace == "{"
CloseBrace == "}"
Semicolon == ";"

\* Those of an IF with words.
IfThen == "THEN"
Otherwise == "ELSE"
EndIf == "END"

Marks == {OpenBrace, CloseBrace, Semicolon, IfThen, Otherwise, EndIf}

\* The kinds of tokens are different.
ASSUME RecoveryAssumption ==
  /\ MaxTokens \in Nat \ {0}
  /\ Word # Bad /\ Word \notin Marks /\ Bad \notin Marks

VARIABLES
  source,        \* the tokens
  position,      \* the token the lexer is at
  braceDepth,
  chunkStart,
  chunks,        \* the pieces that were cut
  parsed,        \* how many of them were parsed
  statements, diagnostics

recoveryVars == <<source, position, braceDepth, chunkStart, chunks, parsed, statements, diagnostics>>

Token == {Word, Bad} \cup Marks
End == Len(source) + 1

-----------------------------------------------------------------------------
\* The parser: parse_stmt_list over statements that are words, balanced blocks
\* and IFs.

\* How many of the tokens "open" are not closed by tokens "close".
Unclosed(open, close, a, b, s) ==
  Cardinality({i \in a..b : s[i] = open}) - Cardinality({i \in a..b : s[i] = close})

OpenBraces(a, b, s) == Unclosed(OpenBrace, CloseBrace, a, b, s)
OpenIfs(a, b, s) == Unclosed(IfThen, EndIf, a, b, s)

Balanced(a, b, s) ==
  OpenBraces(a, b, s) = 0 /\ \A i \in a..b : OpenBraces(a, i, s) >= 0

\* The semicolons of a stretch that are in no braces.
Semicolons(a, b, s) == {i \in a..b : s[i] = Semicolon /\ OpenBraces(a, i, s) = 0}

\* parse_if_stmt: each branch has a body, which one semicolon may follow.
IfsParse(a, b, s) ==
  /\ OpenIfs(a, b, s) = 0
  /\ \A i \in a..b :
       /\ OpenIfs(a, i, s) >= (IF s[i] = Otherwise THEN 1 ELSE 0)
       /\ s[i] \in {IfThen, Otherwise, EndIf} => OpenBraces(a, i, s) = 0
       /\ s[i] \in {IfThen, Otherwise} /\ i < b => s[i + 1] \notin {Semicolon, Otherwise, EndIf}
  /\ \A i \in Semicolons(a, b, s) : OpenIfs(a, i, s) > 0 /\ i < b => s[i + 1] \in {Otherwise, EndIf}

Parses(a, b, s) == Balanced(a, b, s) /\ IfsParse(a, b, s) /\ \A i \in a..b : s[i] # Bad

\* The stretches between given ends.
Stretches(a, b, ends) ==
  {p \in ({a} \cup {i + 1 : i \in ends}) \X (ends \cup {b + 1}) :
     p[1] < p[2] /\ \A i \in ends : ~(p[1] <= i /\ i < p[2])}

\* Statements end at semicolons that are in no braces and in no IF.
StatementsOf(a, b, s) == Stretches(a, b, {i \in Semicolons(a, b, s) : OpenIfs(a, i, s) = 0})

-----------------------------------------------------------------------------
RecoveryInit ==
  /\ \E n \in 1..MaxTokens : source \in [1..n -> Token]
  /\ position = 1 /\ braceDepth = 0 /\ chunkStart = 1
  /\ chunks = <<>> /\ parsed = 0
  /\ statements = {} /\ diagnostics = {}

\* Faulty variant: braces are not counted.
CutsAnywhere == source[position] = Semicolon

Cuts == source[position] = Semicolon /\ braceDepth = 0

\* saturating_sub: a closing brace too many changes nothing.
DepthAfter ==
  CASE source[position] = OpenBrace -> braceDepth + 1
    [] source[position] = CloseBrace -> IF braceDepth = 0 THEN 0 ELSE braceDepth - 1
    [] OTHER -> braceDepth

\* split_into_chunks: one token.
Split ==
  /\ position < End
  /\ position' = position + 1
  /\ braceDepth' = DepthAfter
  /\ IF Cuts THEN /\ chunkStart' = position + 1
                  /\ chunks' = IF chunkStart < position
                                 THEN Append(chunks, <<chunkStart, position>>) ELSE chunks
             ELSE UNCHANGED <<chunkStart, chunks>>
  /\ UNCHANGED <<source, parsed, statements, diagnostics>>

\* What is left after the last semicolon; the whole source when there is
\* nothing else.
LastChunk ==
  /\ position = End
  /\ position' = End + 1
  /\ chunks' = IF chunkStart < End THEN Append(chunks, <<chunkStart, End>>)
               ELSE IF chunks = <<>> THEN << <<1, End>> >> ELSE chunks
  /\ UNCHANGED <<source, braceDepth, chunkStart, parsed, statements, diagnostics>>

ParseChunk ==
  /\ position = End + 1 /\ parsed < Len(chunks)
  /\ parsed' = parsed + 1
  /\ LET c == chunks[parsed + 1] IN
     IF Parses(c[1], c[2] - 1, source)
       THEN /\ statements' = statements \cup StatementsOf(c[1], c[2] - 1, source)
            /\ UNCHANGED diagnostics
       ELSE diagnostics' = diagnostics \cup {c} /\ UNCHANGED statements
  /\ UNCHANGED <<source, position, braceDepth, chunkStart, chunks>>

RecoveryNext == Split \/ LastChunk \/ ParseChunk

RecoverySpec == RecoveryInit /\ [][RecoveryNext]_recoveryVars

-----------------------------------------------------------------------------
Recovered == position = End + 1 /\ parsed = Len(chunks)

\* The recovery's variables keep their types, and pieces do not overlap.
RecoveryTypeOK ==
  /\ position \in 1..End + 1 /\ braceDepth \in 0..Len(source)
  /\ chunkStart \in 1..End /\ parsed \in 0..Len(chunks)
  /\ \A i, j \in DOMAIN chunks : i < j => chunks[i][2] < chunks[j][1]

\* A source with words for its bad tokens, and the pieces that have one.
Repaired(s) == [i \in DOMAIN s |-> IF s[i] = Bad THEN Word ELSE s[i]]
HasBad(piece) == \E i \in piece[1]..piece[2] - 1 : source[i] = Bad

\* The stretches between the semicolons in no braces.
PiecesOf(a, b, s) == Stretches(a, b, Semicolons(a, b, s))

\* A source that would parse if its bad tokens were words keeps all of its
\* statements that have no bad token and no semicolon of their own outside of
\* braces, as an IF may have; of the others each piece is reported.
RecoveryKeepsTheRest ==
  LET pieces == PiecesOf(1, Len(source), source)
      kept == {p \in pieces \cap StatementsOf(1, Len(source), Repaired(source)) : ~HasBad(p)}
  IN  Recovered /\ Parses(1, Len(source), Repaired(source)) =>
        statements = kept /\ diagnostics = pieces \ kept

\* Whatever the source, nothing of it goes unnoticed: every token but the
\* semicolons that separate statements is in a statement or in a piece
\* that was reported.
NothingGoesUnnoticed ==
  Recovered => \A i \in DOMAIN source :
    \/ source[i] = Semicolon
    \/ \E s \in statements \cup diagnostics : s[1] <= i /\ i < s[2]

\* Recovery from a statement that does not parse keeps the statements around
\* it, if none has a semicolon of its own outside of braces, and reports each
\* that it leaves out (recovery.rs).
RecoveryIsComplete == RecoveryKeepsTheRest /\ NothingGoesUnnoticed
=============================================================================
