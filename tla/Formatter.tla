----------------------------- MODULE Formatter -----------------------------
(***************************************************************************)
(* The formatter of the editor and of the command line: it copies the      *)
(* tokens of a document and what stands between them, writes keywords in   *)
(* capitals, and starts or removes lines as its configuration says.  What  *)
(* stands between two tokens may be a comment.                             *)
(***************************************************************************)
EXTENDS Lexemes

CONSTANTS FormatConfigs,    \* configurations
          DocumentPieces,   \* what a document is typed from
          MaxTyped          \* bound: the pieces of a document

VARIABLES document,   \* a text, in the characters of Lexemes
          config,     \* .surqlformat.toml
          length      \* how many pieces were typed
formatVars == <<document, config, length>>

\* Of the configuration: the keywords that start a line, the blank lines
\* that are left (more than any document has where the rule is off), and
\* whether keywords are in capitals, a semicolon ends the line, and one
\* ends the document.
FormatConfig(before, blank, upper, newline, trailing) ==
  [before |-> before, blank |-> blank, upper |-> upper, newline |-> newline, trailing |-> trailing]
Unlimited == 99

-----------------------------------------------------------------------------
\* The tokens of a text with their places, to the end of the text.
Piece(first, last, kind) == [first |-> first, last |-> last, kind |-> kind]
RECURSIVE TokensFrom(_, _)
TokensFrom(text, i) ==
  LET start == SkipTrivia(text, i)
      token == LexemeAt(text, start)
  IN  IF token.kind = "eof" THEN <<>>
      ELSE <<Piece(start, token.next - 1, token.kind)>> \o TokensFrom(text, token.next)
Tokens(text) == TokensFrom(text, 1)

Blanks == {" ", "tab", "lf", "cr"}
Blank(text) == Range(text) \subseteq Blanks
Lines(text) == Len(SelectSeq(text, LAMBDA c : c = "lf"))
Copies(c, n) == [k \in 1..n |-> c]
NewLine(depth) == <<"lf">> \o Copies("tab", depth)
LastOf(text, c) == SelectLastInSeq(text, LAMBDA x : x = c)
Trimmed(text) == SubSeq(text, 1, SelectLastInSeq(text, LAMBDA c : c \notin Blanks))

Capitals == ("select" :> "SELECT") @@ ("where" :> "WHERE")
Capital(word) == IF Len(word) = 1 /\ word[1] \in DOMAIN Capitals THEN <<Capitals[word[1]]>> ELSE word

-----------------------------------------------------------------------------
\* What is written for the token t: it depends on what stands before it
\* and on the braces that are open.
WrittenToken(text, t, c) ==
  LET original == SubSeq(text, t.first, t.last) IN IF c.upper /\ t.kind \in Keyword THEN Capital(original) ELSE original

\* Faulty variant: the line break that is there is not seen.
LineEndsNever(text, i) == i = Len(text)
\* Is the rest of the line after a place empty, and the line before it?
LineEndsAfter(text, i) ==
  LET rest == SubSeq(text, i + 1, Len(text))
      next == SelectInSeq(rest, LAMBDA x : x \notin {" ", "tab"})
  IN  next = 0 \/ rest[next] = "lf"
LineStartsAt(text, i) ==
  LET before == SubSeq(text, 1, i - 1) IN Blank(SubSeq(before, LastOf(before, "lf") + 1, i - 1))

\* Lines past the limit are removed, with all that stands on them.
Collapsed(gap, limit) ==
  IF Lines(gap) <= limit THEN gap
  ELSE LET Past(k) == Lines(SubSeq(gap, 1, k)) > limit
       IN  SubSeq(gap, 1, CHOOSE k \in 0..Len(gap) : ~Past(k) /\ Past(k + 1))

StartsLine(text, t, word, c) ==
  /\ t.kind \in Keyword
  /\ Capital(word)[1] \in c.before
  /\ ~LineStartsAt(text, t.first)

FormatToken(text, gap, t, depth, c) ==
  LET word == WrittenToken(text, t, c)
      original == SubSeq(text, t.first, t.last)
  IN  CASE original \in {<<"{">>, <<"}">>} -> gap \o word
        [] original = <<";">> /\ c.newline ->
             gap \o word \o (IF LineEndsAfter(text, t.last) THEN <<>> ELSE NewLine(depth))
        [] StartsLine(text, t, word, c) -> NewLine(depth + 1) \o word
        [] OTHER -> Collapsed(gap, IF c.blank = Unlimited THEN Len(text) ELSE c.blank + 1) \o word

LineDepth(text, t, depth) ==
  CASE SubSeq(text, t.first, t.last) = <<"{">> -> depth + 1
    [] SubSeq(text, t.first, t.last) = <<"}">> /\ depth > 0 -> depth - 1
    [] OTHER -> depth

\* After the last token: what is left of the text, and a semicolon after
\* what it says if it says anything.
Ending(result, trailing, c) ==
  CASE ~c.trailing -> result \o trailing
    [] c.trailing /\ trailing # <<>> /\ (Blank(trailing) \/ Last(Trimmed(trailing)) = ";") -> result \o trailing
    [] c.trailing /\ trailing # <<>> /\ ~Blank(trailing) ->
         result \o Trimmed(trailing) \o <<";">> \o SubSeq(trailing, Len(Trimmed(trailing)) + 1, Len(trailing))
    [] OTHER -> IF Last(Trimmed(result)) = ";" THEN result ELSE result \o <<";">>

RECURSIVE FormatFrom(_, _, _, _, _, _)
FormatFrom(text, tokens, result, lastEnd, depth, c) ==
  IF tokens = <<>> THEN Ending(result, SubSeq(text, lastEnd + 1, Len(text)), c)
  ELSE LET t == Head(tokens)
           gap == SubSeq(text, lastEnd + 1, t.first - 1)
       IN  FormatFrom(text, Tail(tokens), result \o FormatToken(text, gap, t, depth, c), t.last,
                      LineDepth(text, t, depth), c)
FormatSource(text, c) == IF text = <<>> THEN <<>> ELSE FormatFrom(text, Tokens(text), <<>>, 0, 0, c)

\* full_document_edit: the edit ends at the end of the last line, before a
\* carriage return.
EditEnd(text) == IF text # <<>> /\ Last(text) = "cr" THEN Len(text) - 1 ELSE Len(text)
Edited(text, new) == IF new = text THEN text ELSE new \o SubSeq(text, EditEnd(text) + 1, Len(text))

-----------------------------------------------------------------------------
FormatInit ==
  /\ document = <<>>
  /\ config \in FormatConfigs
  /\ length = 0

TypeDocument ==
  /\ length < MaxTyped
  /\ length' = length + 1
  /\ \E p \in DocumentPieces : document' = document \o p
  /\ UNCHANGED config

FormatNext == TypeDocument
FormatSpec == FormatInit /\ [][FormatNext]_formatVars

-----------------------------------------------------------------------------
\* A text with its tokens and what stands between them.
GapAt(text, tokens, k) ==
  LET end == IF k = 1 THEN 0 ELSE tokens[k - 1].last
      start == IF k > Len(tokens) THEN Len(text) + 1 ELSE tokens[k].first
  IN  SubSeq(text, end + 1, start - 1)
Scan(text, tokens) ==
  [text |-> text, tokens |-> tokens, gaps |-> [k \in 1..Len(tokens) + 1 |-> GapAt(text, tokens, k)]]
Scanned(text) == Scan(text, Tokens(text))

\* Of such a text: its comments, without blanks; and its tokens, with keywords in
\* capitals, where a semicolon may be added to an end that is none.
Comments(s) == SelectSeq(FlattenSeq(s.gaps), LAMBDA x : x \notin Blanks)
Original(s, k) == SubSeq(s.text, s.tokens[k].first, s.tokens[k].last)
Says(s) == [k \in DOMAIN s.tokens |-> Capital(Original(s, k))]
Ended(s, c) ==
  LET n == Len(s.tokens)
      isEnd == n > 0 /\ Original(s, n) = <<";">> /\ Blank(Last(s.gaps))
  IN  IF c.trailing /\ ~isEnd THEN {Says(s), Append(Says(s), <<";">>)} ELSE {Says(s)}

\* No statement starts with a keyword that starts a line; a line that ends
\* with a carriage return is taken for one that does not end.
Plausible(s) ==
  /\ "cr" \notin Range(s.text)
  /\ \A k \in 2..Len(s.tokens) : Capital(Original(s, k)) = <<"WHERE">> => Original(s, k - 1) # <<";">>
Readable(s) == \A k \in DOMAIN s.tokens : s.tokens[k].kind # "invalid"

\* What is left of a gap has all of its comments, and no more of what follows.
Intact(gap, left) ==
  /\ Blank(SubSeq(gap, Len(left) + 1, Len(gap)))
  /\ SkipTrivia(Append(left, ";"), 1) = Len(left) + 1

\* A rule meets a comment: it starts a line in place of one, it removes lines
\* with one or the end of its line, or it ends the document behind its line.
MeetsAt(s, k, c) ==
  LET t == s.tokens[k]
  IN  CASE Original(s, k) \in {<<"{">>, <<"}">>} -> FALSE
        [] Original(s, k) = <<";">> /\ c.newline -> FALSE
        [] StartsLine(s.text, t, WrittenToken(s.text, t, c), c) -> ~Blank(s.gaps[k])
        [] OTHER -> c.blank # Unlimited /\ ~Intact(s.gaps[k], Collapsed(s.gaps[k], c.blank + 1))
MeetsComment(s, c) ==
  LET atEnd == Trimmed(Last(s.gaps))
  IN  \/ \E k \in DOMAIN s.tokens : MeetsAt(s, k, c)
      \/ c.trailing /\ atEnd # <<>> /\ Last(atEnd) # ";" /\ ~Intact(atEnd, atEnd)

KeepsTokens(s, formatted, c) ==
  LET kept == Says(formatted) \in Ended(s, c) /\ Comments(formatted) = Comments(s)
  IN  Readable(s) \/ ~c.trailing =>
        /\ kept <=> ~MeetsComment(s, c)
        /\ /\ kept /\ Plausible(s)
           /\ Comments(s) = <<>> \/ (c.before = {} /\ c.blank = Unlimited)
           => FormatSource(formatted.text, c) = formatted.text

\* The formatter keeps every token in its place (a semicolon may be added to
\* the end) and every comment, except that a rule that meets a comment loses it,
\* or what follows gets into it, and that the semicolon may get into a string
\* that does not end.  Formatting again changes nothing, unless rules that start
\* or remove lines find comments: what one of them moved next to a comment, the
\* other may meet there the second time (configurable_format).
FormatKeepsTokens == KeepsTokens(Scanned(document), Scanned(FormatSource(document, config)), config)

\* The edit that replaces the document leaves the formatted text, with at
\* most the carriage return it ended with after it.
EditReplaces ==
  LET formatted == FormatSource(document, config) IN Edited(document, formatted) \in {formatted, Append(formatted, "cr")}
=============================================================================
