------------------------------ MODULE SQLLexer ------------------------------
(***************************************************************************)
(* The lexer of internal/ats: NextToken when nothing is pushed back, one   *)
(* iteration of a loop a step. Whoever calls it sets reading to "space".   *)
(*                                                                         *)
(* An operator that stands right before another one and differs from it by *)
(* a suffix is that definition with a bug.                                 *)
(***************************************************************************)
EXTENDS SQLText

CONSTANT Texts     \* the texts that are read

TokenTypes == Keywords \cup Symbols \cup {"EOF", "WORD", "STRING", "IDENT", "semicolon"}

\* Of a comment that is not closed one character is left: a keyword is several,
\* so none stands at the end of one. Any other text may end in a keyword.
ASSUME TextsAssumption ==
  \A t \in Texts :
    /\ t \in Seq(Atoms)
    /\ t # <<>> /\ ModeOf(t)[Len(t)] = "block" => t[Len(t)] \notin Keywords

VARIABLES
  input,         \* Lexer.input
  pos,           \* Lexer.pos, from 1
  start,         \* where the literal, identifier or word began that is read
  reading,       \* the loop of NextToken that runs, or "nothing"
  returned       \* what the calls have returned

lexer == <<input, pos, start, reading, returned>>

New ==
  /\ input \in Texts
  /\ pos = 1
  /\ start = 1
  /\ reading = "nothing"
  /\ returned = <<>>

-----------------------------------------------------------------------------
Is(p, a) == p <= Len(input) /\ input[p] = a
IsWordChar(p) == p <= Len(input) /\ input[p] \in WordAtoms

GoOn(loop, to) ==
  /\ reading' = loop
  /\ pos' = to
  /\ start' = IF reading = "space" THEN pos ELSE start
  /\ UNCHANGED <<input, returned>>

Return(type, to) ==
  /\ reading' = "nothing"
  /\ pos' = to
  /\ returned' = Append(returned, type)
  /\ UNCHANGED <<input, start>>

OpensLine == Is(pos, "-") /\ Is(pos + 1, "-")
OpensBlock == Is(pos, "/") /\ Is(pos + 1, "*")
ClosesBlock == Is(pos, "*") /\ Is(pos + 1, "/")

SkipSpace ==
  /\ reading = "space"
  /\ \/ pos <= Len(input) /\ input[pos] \in Spaces /\ GoOn("space", pos + 1)
     \/ OpensLine /\ GoOn("line", pos + 2)
     \/ OpensBlock /\ GoOn("block", pos + 2)

SkipLine ==
  /\ reading = "line"
  /\ \/ pos <= Len(input) /\ ~Is(pos, "newline") /\ GoOn("line", pos + 1)
     \/ (pos > Len(input) \/ Is(pos, "newline")) /\ GoOn("space", pos)

\* A block that is not closed ends before the last character of the text.
SkipBlockShort ==
  /\ reading = "block"
  /\ \/ ClosesBlock /\ GoOn("space", pos + 1)
     \/ pos + 1 <= Len(input) /\ ~ClosesBlock /\ GoOn("block", pos + 1)
     \/ pos + 1 > Len(input) /\ GoOn("space", pos)
SkipBlock ==
  /\ reading = "block"
  /\ \/ ClosesBlock /\ GoOn("space", pos + 2)
     \/ pos + 1 <= Len(input) /\ ~ClosesBlock /\ GoOn("block", pos + 1)
     \/ pos + 1 > Len(input) /\ GoOn("space", pos)

\* Behind the spaces and comments; what has more characters is read on from the second one.
Switch ==
  /\ reading = "space"
  /\ \/ pos > Len(input) /\ Return("EOF", pos)
     \/ pos <= Len(input) /\ input[pos] \in Quotes \cup {"["} /\ GoOn("quoted", pos + 1)
     \/ IsWordChar(pos) /\ GoOn("word", pos + 1)
     \/ /\ pos <= Len(input) /\ input[pos] \in Symbols \cup {"semicolon"}
        /\ ~OpensLine /\ ~OpensBlock
        /\ Return(input[pos], pos + 1)

\* readString and readQuotedIdent: all but a ] can be doubled.
ReadQuoted ==
  LET close == IF input[start] = "[" THEN "]" ELSE input[start]
      doubled == close # "]" /\ Is(pos + 1, close)
      type == IF input[start] = "apostrophe" THEN "STRING" ELSE "IDENT"
  IN /\ reading = "quoted"
     /\ \/ pos > Len(input) /\ Return(type, pos)
        \/ Is(pos, close) /\ ~doubled /\ Return(type, pos + 1)
        \/ Is(pos, close) /\ doubled /\ GoOn("quoted", pos + 2)
        \/ pos <= Len(input) /\ ~Is(pos, close) /\ GoOn("quoted", pos + 1)

\* readWord and classify: a keyword is a word of one element.
ReadWord ==
  /\ reading = "word"
  /\ \/ IsWordChar(pos) /\ GoOn("word", pos + 1)
     \/ /\ ~IsWordChar(pos)
        /\ Return(IF input[start] \in Keywords /\ pos = start + 1 THEN input[start] ELSE "WORD", pos)

LexerStep == SkipSpace \/ SkipLine \/ SkipBlock \/ Switch \/ ReadQuoted \/ ReadWord

-----------------------------------------------------------------------------
(* What the calls return is what stands in the text, one token after       *)
(* another, and EOF from its end on.                                       *)
LexerReadsText ==
  reading = "nothing" =>
    LET tok == TokensOf(input)
    IN \A n \in 1..Len(returned) : returned[n] = TokenAt(tok, n)
=============================================================================
