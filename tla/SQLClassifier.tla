---------------------------- MODULE SQLClassifier ----------------------------
(***************************************************************************)
(* ClassifySQL of internal/ats, one token a step: it takes what was pushed *)
(* back last, or calls the lexer; and CheckSQLPermission, which decides    *)
(* what a role may run from the category of the whole text.                *)
(*                                                                         *)
(* An operator that stands right before another one and differs from it by *)
(* a suffix is that definition with a bug.                                 *)
(***************************************************************************)
EXTENDS SQLLexer, SequencesExt

VARIABLES
  taken,         \* how many of the tokens that the lexer returned were taken from it
  buf,           \* Lexer.buf
  at,            \* what ClassifySQL reads next
  first,         \* hasIntoClause: the token it read first
  depth,         \* resolveWithBody: open parentheses
  stmtKeywords,
  result         \* the category, or why there is none

classifier == <<taken, buf, at, first, depth, stmtKeywords, result>>
vars == <<lexer, classifier>>

Categories == <<"read", "edit", "manage", "admin">>

(* The values the variables have; no more than two tokens are pushed back. *)
TypeOK ==
  /\ input \in Seq(Atoms)
  /\ pos \in 1..(Len(input) + 1)
  /\ start \in 1..(Len(input) + 1)
  /\ reading \in {"nothing", "space", "line", "block", "quoted", "word"}
  /\ returned \in Seq(TokenTypes)
  /\ taken \in 0..Len(returned)
  /\ buf \in Seq(TokenTypes) /\ Len(buf) <= 2 /\ Len(buf) <= taken
  /\ at \in {"leader", "rest", "with", "into", "schema", "done"}
  /\ first \in TokenTypes
  /\ depth \in Nat
  /\ stmtKeywords \in Seq(TokenTypes \ {"EOF", "semicolon"})
  /\ result \in {Categories[i] : i \in 1..4} \cup {"none", "refused", "empty"}

Init ==
  /\ New
  /\ taken = 0
  /\ buf = <<>>
  /\ at = "leader"
  /\ first = "EOF"
  /\ depth = 0
  /\ stmtKeywords = <<>>
  /\ result = "none"

-----------------------------------------------------------------------------
(* Taking tokens and pushing them back. *)

Ready == buf # <<>> \/ taken < Len(returned)

NextToken == IF buf # <<>> THEN Last(buf) ELSE returned[taken + 1]

\* The tokens that stay pushed back when the next one is taken.
RestKept == buf
Rest == IF buf # <<>> THEN Front(buf) ELSE <<>>

\* Take the next token; push back what is to be read again, the last one first.
Take(pushedBack) ==
  /\ taken' = IF buf # <<>> THEN taken ELSE taken + 1
  /\ buf' = Rest \o pushedBack
  /\ UNCHANGED lexer

\* NextToken with nothing pushed back reads the text.
Call ==
  /\ at # "done" /\ ~Ready /\ reading = "nothing"
  /\ reading' = "space"
  /\ UNCHANGED <<input, pos, start, returned, classifier>>

-----------------------------------------------------------------------------
(* Categories and roles. *)

Categorize(keyword) ==
  CASE keyword \in {"SELECT", "WITH"}                               -> "read"
    [] keyword \in {"INSERT", "UPDATE", "DELETE", "REPLACE"}        -> "edit"
    [] keyword \in {"PRAGMA", "ANALYZE", "REINDEX", "EXPLAIN"}      -> "manage"
    [] OTHER                                                        -> "admin"

Priority(category) == CHOOSE i \in 1..4 : Categories[i] = category

HighestOfLast(keywords) == Categorize(Last(keywords))
Highest(keywords) ==
  CHOOSE c \in {Categorize(keywords[i]) : i \in 1..Len(keywords)} :
    \A i \in 1..Len(keywords) : Priority(Categorize(keywords[i])) <= Priority(c)

\* CheckSQLPermission.
Permitted(role, category) ==
  \/ role = "admin"
  \/ role = "read_write" /\ category \in {"read", "edit"}
  \/ role = "read_only" /\ category = "read"

-----------------------------------------------------------------------------
(* ClassifySQL. *)

Reading(state, types) == at = state /\ Ready /\ NextToken \in types

Refuse ==
  /\ result' = "refused"
  /\ at' = "done"
  /\ UNCHANGED stmtKeywords

End ==
  /\ \E state \in {"leader", "rest"} : Reading(state, {"EOF"})
  /\ result' = IF stmtKeywords = <<>> THEN "empty" ELSE Highest(stmtKeywords)
  /\ at' = "done"
  /\ Take(<<>>)
  /\ UNCHANGED <<first, depth, stmtKeywords>>

Semicolon ==
  /\ \E state \in {"leader", "rest"} : Reading(state, {"semicolon"})
  /\ at' = "leader"
  /\ Take(<<>>)
  /\ UNCHANGED <<first, depth, stmtKeywords, result>>

SkipRest ==
  /\ Reading("rest", TokenTypes \ {"EOF", "semicolon"})
  /\ Take(<<>>)
  /\ UNCHANGED <<at, first, depth, stmtKeywords, result>>

LeaderRefused ==
  /\ Reading("leader", Symbols \cup {"ATTACH"})
  /\ Refuse
  /\ Take(<<>>)
  /\ UNCHANGED <<first, depth>>

Leader ==
  /\ Reading("leader", TokenTypes \ (Symbols \cup {"ATTACH", "VACUUM", "EOF", "semicolon"}))
  /\ stmtKeywords' = Append(stmtKeywords, NextToken)
  /\ at' = IF NextToken = "WITH" THEN "with" ELSE "rest"
  /\ depth' = 0
  /\ Take(<<>>)
  /\ UNCHANGED <<first, result>>

\* How the name of a schema may be spelled.
SchemaNamesUnquoted == {"WORD"}
SchemaNames == {"WORD", "IDENT", "STRING"}

\* VACUUM as a leader: hasIntoClause looks ahead, one token and perhaps a second.
Vacuum ==
  /\ Reading("leader", {"VACUUM"})
  /\ at' = "into"
  /\ Take(<<>>)
  /\ UNCHANGED <<first, depth, stmtKeywords, result>>

VacuumInto ==
  /\ Reading("into", {"INTO"})
  /\ Refuse
  /\ Take(<<"INTO">>)
  /\ UNCHANGED <<first, depth>>

VacuumAlone ==
  /\ Reading("into", TokenTypes \ (SchemaNames \cup {"INTO"}))
  /\ stmtKeywords' = Append(stmtKeywords, "VACUUM")
  /\ at' = "rest"
  /\ Take(<<NextToken>>)
  /\ UNCHANGED <<first, depth, result>>

VacuumSchema ==
  /\ Reading("into", SchemaNames)
  /\ first' = NextToken
  /\ at' = "schema"
  /\ Take(<<>>)
  /\ UNCHANGED <<depth, stmtKeywords, result>>

VacuumSecondInOrder ==
  /\ at = "schema" /\ Ready
  /\ \/ NextToken = "INTO" /\ Refuse
     \/ /\ NextToken # "INTO"
        /\ stmtKeywords' = Append(stmtKeywords, "VACUUM")
        /\ at' = "rest"
        /\ UNCHANGED result
  /\ Take(<<first, NextToken>>)
  /\ UNCHANGED <<first, depth>>
VacuumSecond ==
  /\ at = "schema" /\ Ready
  /\ \/ NextToken = "INTO" /\ Refuse
     \/ /\ NextToken # "INTO"
        /\ stmtKeywords' = Append(stmtKeywords, "VACUUM")
        /\ at' = "rest"
        /\ UNCHANGED result
  /\ Take(<<NextToken, first>>)
  /\ UNCHANGED <<first, depth>>

\* resolveWithBody, which reads on over semicolons.
WithEnd ==
  /\ Reading("with", {"EOF"})
  /\ at' = "rest"
  /\ Take(<<>>)
  /\ UNCHANGED <<first, depth, stmtKeywords, result>>

WithParenthesis ==
  /\ Reading("with", {"(", ")"})
  /\ depth' = IF NextToken = "(" THEN depth + 1 ELSE IF depth > 0 THEN depth - 1 ELSE 0
  /\ Take(<<>>)
  /\ UNCHANGED <<at, first, stmtKeywords, result>>

WithBody ==
  /\ Reading("with", DML) /\ depth <= 0
  /\ stmtKeywords' = Append(stmtKeywords, NextToken)
  /\ at' = "rest"
  /\ Take(<<>>)
  /\ UNCHANGED <<first, depth, result>>

WithSkip ==
  /\ \/ Reading("with", TokenTypes \ (DML \cup {"EOF", "(", ")"}))
     \/ Reading("with", DML) /\ depth > 0
  /\ Take(<<>>)
  /\ UNCHANGED <<at, first, depth, stmtKeywords, result>>

Step ==
  \/ End \/ Semicolon \/ SkipRest \/ LeaderRefused \/ Leader
  \/ Vacuum \/ VacuumInto \/ VacuumAlone \/ VacuumSchema \/ VacuumSecond
  \/ WithEnd \/ WithParenthesis \/ WithBody \/ WithSkip

Next ==
  \/ Step
  \/ Call
  \/ LexerStep /\ UNCHANGED classifier
  \/ at = "done" /\ UNCHANGED vars

Spec == Init /\ [][Next]_vars
-----------------------------------------------------------------------------
(* Properties. A WITH that has no keyword of DML outside of parentheses    *)
(* (WITH ... VALUES) does not end at its semicolon: resolveWithBody reads  *)
(* on until it finds such a keyword in a later statement, or the end. What *)
(* it reads over is neither refused nor counted, whatever the documents    *)
(* say (EveryStatementCounts, which the code breaks).                      *)

\* The tokens of the whole text, whatever part of it has been read.
tokens == TokensOf(input)

(* What the comments of ClassifySQL and docs/api.md say of every statement *)
(* of a text: ATTACH and VACUUM INTO are rejected outright, and the        *)
(* highest privilege of any statement is the one that is asked for. The    *)
(* code breaks both behind WITH ... VALUES.                                *)
EveryStatementCounts ==
  at = "done" =>
    \A b \in Firsts(tokens) :
      IF Refused(tokens, b) THEN result = "refused"
      ELSE result # "refused" => Priority(Categorize(tokens[b])) <= Priority(result)

(* A text is refused only if one of its statements is, and whenever one is *)
(* that resolveWithBody does not read over, wherever it stands and however *)
(* a schema is quoted. One that it reads over is run.                      *)
RefusedUnlessReadOver ==
  at = "done" =>
    /\ result = "refused" => \E b \in Firsts(tokens) : Refused(tokens, b)
    /\ result # "refused" =>
         \A b \in Firsts(tokens) : Refused(tokens, b) => ReadOver(tokens, b)

(* Otherwise the keywords found are those that lead the statements, in     *)
(* order: what hasIntoClause pushes back is neither lost nor reordered,    *)
(* and what stands in parentheses does not lead.                           *)
LeadersFound ==
  at = "done" /\ result # "refused" =>
    LET places == Ascending(LeaderPlaces(tokens))
    IN /\ \A n \in 1..Len(places) : Resolved(tokens, places[n]) =>
            n <= Len(stmtKeywords) /\ stmtKeywords[n] = tokens[places[n]]
       /\ HasBody(tokens) => stmtKeywords = Leaders(tokens)

(* A role that may run a text may run each of its statements but those     *)
(* that resolveWithBody reads over, which it runs even so; and a role that *)
(* may run each statement may run the text if each WITH has its keyword.   *)
PermittedUnlessReadOver ==
  at = "done" /\ result \in {Categories[i] : i \in 1..4} =>
    \A role \in {"admin", "read_write", "read_only", "system"} :
      LET may(n) == Permitted(role, Categorize(tokens[n]))
      IN /\ Permitted(role, result) =>
              \A n \in LeaderPlaces(tokens) : may(n) \/ ReadOver(tokens, n)
         /\ HasBody(tokens) /\ (\A n \in LeaderPlaces(tokens) : may(n)) =>
              Permitted(role, result)

(* The classification ends for every text: each step comes nearer to the   *)
(* end of it, or leaves a loop or a look-ahead, whatever is pushed back.   *)
(* The end of the text is read twice at most.                              *)
Ends == Cardinality({n \in 1..Len(returned) : returned[n] = "EOF"})

\* What the loop of the lexer, and a look-ahead, have still to do.
Phase(loop) == CASE loop = "space" -> 1 [] loop \in {"quoted", "word"} -> 7 [] OTHER -> 2
LookAhead(state) == CASE state = "into" -> 2 [] state = "schema" -> 5 [] OTHER -> 0

Remaining ==
  7 * (Len(input) + 3 - pos - Ends) + 4 * (Len(returned) - taken + Len(buf))
    + Phase(reading) + LookAhead(at)

EndsInTime == [][0 <= Remaining' /\ Remaining' < Remaining]_vars
=============================================================================
