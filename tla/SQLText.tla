------------------------------- MODULE SQLText -------------------------------
(***************************************************************************)
(* What the statements of an SQL text are, said without a lexer: which     *)
(* characters stand in a literal, in a quoted identifier or in a comment,  *)
(* where the tokens begin, and which keyword leads each statement.         *)
(*                                                                         *)
(* A text is a sequence of characters and of keywords; a keyword of the    *)
(* program is one element, "x" is any character of another word, and       *)
(* "newline" the end of a line. Upper and lower case are not told apart;   *)
(* spaces, quotes and marks are written out, as "quote" is for a double    *)
(* one.                                                                    *)
(***************************************************************************)
EXTENDS Integers, Sequences, FiniteSets

Keywords ==
  {"ALTER", "ANALYZE", "ATTACH", "CREATE", "DELETE", "DROP", "EXPLAIN", "INSERT", "INTO",
   "PRAGMA", "REINDEX", "REPLACE", "SELECT", "UPDATE", "VACUUM", "VALUES", "WITH"}

WordAtoms == Keywords \cup {"x"}
Spaces == {"space", "newline"}
Symbols == {"(", ")", "-", "/", "*", "]", "comma"}
Quotes == {"apostrophe", "quote", "backtick"}
Atoms == WordAtoms \cup Spaces \cup Symbols \cup Quotes \cup {"[", "semicolon"}

-----------------------------------------------------------------------------
\* The mode in which the next character is read, after a in mode m with b behind it.
NextMode(m, a, b) ==
  CASE m = "code" /\ a \in Quotes \cup {"["} -> a
    [] m = "code" /\ a = "-" /\ b = "-"      -> "line"
    [] m = "code" /\ a = "/" /\ b = "*"      -> "opening"
    [] m \in Quotes /\ a = m                 -> "code"
    [] m = "[" /\ a = "]"                    -> "code"
    [] m = "line" /\ a = "newline"           -> "code"
    [] m = "opening"                         -> "block"
    [] m = "block" /\ a = "*" /\ b = "/"     -> "closing"
    [] m = "closing"                         -> "code"
    [] OTHER                                 -> m

Behind(t, i) == IF i < Len(t) THEN t[i + 1] ELSE "nothing"

ModeOf(t) ==
  LET mode[i \in 1..(Len(t) + 1)] ==
        IF i = 1 THEN "code" ELSE NextMode(mode[i - 1], t[i - 1], Behind(t, i - 1))
  IN mode

(* A character begins a token if it is code, and not the rest of a word or *)
(* of a literal with a doubled quote in it.                                *)
Begins(t, mode, i) ==
  /\ mode[i] = "code" /\ t[i] \notin Spaces
  /\ mode[i + 1] \notin {"line", "opening"}
  /\ i > 1 => /\ ~(mode[i - 1] = "code" /\ t[i - 1] \in WordAtoms /\ t[i] \in WordAtoms)
              /\ ~(mode[i - 1] = t[i] /\ t[i] \in Quotes)

TypeAt(t, i) ==
  CASE t[i] = "apostrophe"                  -> "STRING"
    [] t[i] \in {"quote", "backtick", "["}  -> "IDENT"
    [] t[i] \in WordAtoms                   ->
         IF t[i] \in Keywords /\ Behind(t, i) \notin WordAtoms THEN t[i] ELSE "WORD"
    [] OTHER                                -> t[i]

Ascending(S) ==
  [n \in 1..Cardinality(S) |-> CHOOSE i \in S : Cardinality({j \in S : j <= i}) = n]

Tokens(t) ==
  LET mode == ModeOf(t)
      starts == Ascending({i \in 1..Len(t) : Begins(t, mode, i)})
  IN [n \in 1..Len(starts) |-> TypeAt(t, starts[n])]

(* In a comment that is not closed, the last character is a token, unless  *)
(* it is a space or belongs to the opening of the comment.                 *)
StrayToken(t) ==
  IF t # <<>> /\ ModeOf(t)[Len(t)] = "block" /\ t[Len(t)] \notin Spaces
    THEN <<TypeAt(t, Len(t))>> ELSE <<>>

TokensOf(t) == Tokens(t) \o StrayToken(t)

\* The n-th of them; behind the last one is the end.
TokenAt(tok, n) == IF n <= Len(tok) THEN tok[n] ELSE "EOF"

-----------------------------------------------------------------------------
(* Statements: the tokens between semicolons. A statement is named by the   *)
(* place of its first token.                                               *)

Firsts(tok) == {n \in 1..Len(tok) : tok[n] # "semicolon" /\ (n = 1 \/ tok[n - 1] = "semicolon")}

\* The place n is in the statement that begins at b.
Within(tok, b, n) == b <= n /\ n <= Len(tok) /\ \A m \in b..n : tok[m] # "semicolon"

CountOf(tok, type, from, to) == Cardinality({n \in from..to : tok[n] = type})

\* From some place on, more parentheses are opened than closed before n.
Enclosed(tok, b, n) ==
  \E m \in b..(n - 1) : CountOf(tok, "(", m, n - 1) > CountOf(tok, ")", m, n - 1)

DML == {"SELECT", "INSERT", "UPDATE", "DELETE", "REPLACE"}

\* Where the statement at b, a WITH, has the keyword it is about.
Body(tok, b) ==
  {n \in 1..Len(tok) :
     /\ Within(tok, b, n) /\ tok[n] \in DML /\ ~Enclosed(tok, b, n)
     /\ \A m \in b..(n - 1) : tok[m] \in DML => Enclosed(tok, b, m)}

Withs(tok) == {b \in Firsts(tok) : tok[b] = "WITH"}

HasBody(tok) == \A b \in Withs(tok) : Body(tok, b) # {}

\* In front of n, each of them has one.
Resolved(tok, n) == \A b \in Withs(tok) : b < n => Body(tok, b) # {}

(* resolveWithBody reads over n if a WITH of an earlier statement has no    *)
(* keyword of DML up to n outside of parentheses: it takes a semicolon for *)
(* any other token, and n for the rest of the WITH.                        *)
ReadOver(tok, n) ==
  \E w \in Withs(tok) :
    /\ w < n /\ ~Within(tok, w, n)
    /\ \A m \in w..n : tok[m] \in DML => Enclosed(tok, w, m)

\* The keywords that say what the statements do, in order.
LeaderPlaces(tok) == Firsts(tok) \cup UNION {Body(tok, b) : b \in Withs(tok)}

Leaders(tok) ==
  LET places == Ascending(LeaderPlaces(tok))
  IN [n \in 1..Len(places) |-> tok[places[n]]]

\* The statement at b is refused, whoever asks.
Refused(tok, b) ==
  \/ tok[b] \in Symbols \cup {"ATTACH"}
  \/ /\ tok[b] = "VACUUM"
     /\ \/ b + 1 <= Len(tok) /\ tok[b + 1] = "INTO"
        \/ /\ b + 2 <= Len(tok)
           /\ tok[b + 1] \in {"WORD", "IDENT", "STRING"} /\ tok[b + 2] = "INTO"
=============================================================================
