------------------------- MODULE SQLClassifierProofs -------------------------
(***************************************************************************)
(* What the lexer reads in any text, of any length, and what ClassifySQL   *)
(* finds in it.                                                            *)
(***************************************************************************)
EXTENDS SQLClassifier, FiniteSetTheorems, SequenceTheorems, WellFoundedInduction, TLAPS

-----------------------------------------------------------------------------
(* Induction: a set of numbers that has one has a least one.               *)

LessThan == {p \in Nat \X Nat : p[1] < p[2]}

LEMMA LeastOf ==
  ASSUME NEW T \in SUBSET Nat, T # {}
  PROVE  \E x \in T : \A y \in T : x <= y
<1>1. OpToRel(<, Nat) = LessThan
  BY Zenon DEF OpToRel, LessThan
<1>2. IsWellFoundedOn(LessThan, Nat)
  BY <1>1, NatLessThanWellFounded
<1>3. PICK x \in T : \A y \in T : <<y, x>> \notin LessThan
  BY <1>2, WFMin
<1>4. ASSUME NEW y \in T PROVE x <= y
  <2>1. x \in Nat /\ y \in Nat /\ <<y, x>> \notin LessThan
    BY <1>3
  <2> QED BY <2>1 DEF LessThan
<1> QED BY <1>3, <1>4

(* A set with zero and each successor has them all.                        *)
LEMMA AllOf ==
  ASSUME NEW S \in SUBSET Nat, 0 \in S, \A n \in S : n + 1 \in S
  PROVE  S = Nat
<1> SUFFICES ASSUME Nat \ S # {}  PROVE FALSE
  OBVIOUS
<1>1. PICK x \in Nat \ S : \A y \in Nat \ S : x <= y  BY LeastOf
<1>2. x - 1 \in Nat /\ x - 1 \in S /\ (x - 1) + 1 = x  BY <1>1
<1> QED  BY <1>1, <1>2

-----------------------------------------------------------------------------
(* The modes of a text.                                                    *)

ModeFrom(t, f, i) == NextMode(f[i - 1], t[i - 1], Behind(t, i - 1))

\* f gives the modes of the first n places.
ModesUpTo(t, n, f) ==
  f = [i \in 1..n |-> IF i = 1 THEN "code" ELSE ModeFrom(t, f, i)]

(* The recursive function exists, for texts of any length.                 *)
LEMMA ModesExist ==
  ASSUME NEW t, NEW n \in Nat
  PROVE  \E f : ModesUpTo(t, n, f)
<1> DEFINE S == {k \in Nat : \E f : ModesUpTo(t, k, f)}
<1>1. 0 \in S
  <2>1. ModesUpTo(t, 0, [i \in 1..0 |-> "code"])  BY DEF ModesUpTo
  <2> QED  BY <2>1
<1>2. ASSUME NEW k \in S  PROVE k + 1 \in S
  <2>1. PICK f : ModesUpTo(t, k, f)  OBVIOUS
  <2> DEFINE g == [i \in 1..(k + 1) |-> IF i = 1 THEN "code" ELSE ModeFrom(t, f, i)]
             h == [i \in 1..(k + 1) |-> IF i = 1 THEN "code" ELSE ModeFrom(t, g, i)]
  <2>2. \A i \in 1..k : g[i] = f[i]  BY <2>1 DEF ModesUpTo
  <2>3. \A i \in 1..(k + 1) : i # 1 => i - 1 \in 1..k  OBVIOUS
  <2>4. \A i \in 1..(k + 1) : i # 1 => ModeFrom(t, g, i) = ModeFrom(t, f, i)
    BY <2>2, <2>3 DEF ModeFrom
  <2>5. g = h  BY <2>4
  <2>6. ModesUpTo(t, k + 1, g)  BY <2>5 DEF ModesUpTo
  <2> QED  BY <2>6
<1>3. S = Nat
  <2> HIDE DEF S
  <2>1. S \subseteq Nat  BY DEF S
  <2> QED  BY <1>1, <1>2, <2>1, AllOf
<1> QED  BY <1>3

LEMMA ModeSteps ==
  ASSUME NEW t, Len(t) \in Nat
  PROVE  /\ ModeOf(t)[1] = "code"
         /\ \A i \in 1..Len(t) : ModeOf(t)[i + 1] = NextMode(ModeOf(t)[i], t[i], Behind(t, i))
<1> DEFINE n == Len(t) + 1
           m == ModeOf(t)
<1>1. m = CHOOSE f : ModesUpTo(t, n, f)
  BY DEF ModeOf, ModesUpTo, ModeFrom
<1>2. \E f : ModesUpTo(t, n, f)  BY ModesExist
<1>3. ModesUpTo(t, n, m)  BY <1>1, <1>2
<1> HIDE DEF m
<1>4. m = [i \in 1..n |-> IF i = 1 THEN "code" ELSE ModeFrom(t, m, i)]  BY <1>3 DEF ModesUpTo
<1>5. m[1] = "code"  BY <1>4
<1>6. ASSUME NEW i \in 1..Len(t)  PROVE m[i + 1] = NextMode(m[i], t[i], Behind(t, i))
  <2>1. i + 1 \in 1..n /\ i + 1 # 1 /\ (i + 1) - 1 = i  OBVIOUS
  <2>2. m[i + 1] = ModeFrom(t, m, i + 1)  BY <1>4, <2>1
  <2> QED  BY <2>1, <2>2 DEF ModeFrom
<1> QED  BY <1>5, <1>6 DEF m

-----------------------------------------------------------------------------
(* Places in order.                                                        *)

\* How many of the places in S there are up to n.
UpTo(S, n) == Cardinality({q \in S : q <= n})

LEMMA UpToStep ==
  ASSUME NEW S, \A q \in S : q \in Nat, IsFiniteSet(S), NEW n \in Nat
  PROVE  /\ UpTo(S, n) \in Nat
         /\ UpTo(S, n + 1) = IF n + 1 \in S THEN UpTo(S, n) + 1 ELSE UpTo(S, n)
<1> DEFINE upTo(m) == {q \in S : q <= m}
<1>1. IsFiniteSet(upTo(n))  BY FS_Subset, upTo(n) \subseteq S
<1>2. UpTo(S, n) \in Nat  BY <1>1, FS_CardinalityType DEF UpTo
<1>3. CASE n + 1 \in S
  <2>1. upTo(n + 1) = upTo(n) \cup {n + 1}  BY <1>3
  <2>2. n + 1 \notin upTo(n)  OBVIOUS
  <2>3. Cardinality(upTo(n + 1)) = Cardinality(upTo(n)) + 1
    BY <1>1, <2>1, <2>2, FS_AddElement
  <2> QED  BY <1>2, <1>3, <2>3 DEF UpTo
<1>4. CASE n + 1 \notin S
  <2>1. upTo(n + 1) = upTo(n)  BY <1>4
  <2> QED  BY <1>2, <1>4, <2>1 DEF UpTo
<1> QED  BY <1>3, <1>4

LEMMA UpToBounds ==
  ASSUME NEW S, \A q \in S : q \in Nat, IsFiniteSet(S), NEW n \in Nat, NEW p \in S, p <= n
  PROVE  /\ UpTo(S, p) \in 1..UpTo(S, n) /\ UpTo(S, n) \in Nat
         /\ n \notin S \/ p = n \/ UpTo(S, p) < UpTo(S, n)
<1> DEFINE upTo(m) == {q \in S : q <= m}
<1>1. IsFiniteSet(upTo(n)) /\ IsFiniteSet(upTo(p))
  BY FS_Subset, upTo(n) \subseteq S, upTo(p) \subseteq S
<1>2. upTo(p) \subseteq upTo(n)  OBVIOUS
<1>3. Cardinality(upTo(p)) <= Cardinality(upTo(n))  BY <1>1, <1>2, FS_Subset
<1>4. Cardinality(upTo(p)) # 0
  <2>1. p \in upTo(p)  OBVIOUS
  <2> QED  BY <1>1, <2>1, FS_EmptySet
<1>5. Cardinality(upTo(p)) \in Nat /\ Cardinality(upTo(n)) \in Nat
  BY <1>1, FS_CardinalityType
<1>6. ASSUME n \in S, p # n  PROVE UpTo(S, p) < UpTo(S, n)
  <2>1. n \notin upTo(p)  BY <1>6
  <2>2. upTo(p) \cup {n} \subseteq upTo(n)
    <3>1. n \in upTo(n)  BY <1>6
    <3> HIDE DEF upTo
    <3> QED  BY <1>2, <3>1
  <2>3. Cardinality(upTo(p) \cup {n}) = Cardinality(upTo(p)) + 1
    BY <1>1, <2>1, FS_AddElement
  <2>4. Cardinality(upTo(p) \cup {n}) <= Cardinality(upTo(n))
    BY <1>1, <2>2, FS_Subset
  <2> QED  BY <1>5, <2>3, <2>4 DEF UpTo
<1> QED  BY <1>3, <1>4, <1>5, <1>6 DEF UpTo

(* Each count up to the number of places is that of one of them.           *)
LEMMA UpToReaches ==
  ASSUME NEW N \in Nat, NEW S, \A q \in S : q \in 1..N, NEW n \in 1..UpTo(S, N)
  PROVE  \E s \in S : UpTo(S, s) = n
<1> DEFINE T == {k \in Nat : UpTo(S, k) >= n}
<1>a. \A q \in S : q \in Nat  OBVIOUS
<1>b. IsFiniteSet(S)
  <2>1. IsFiniteSet(1..N)  BY FS_Interval
  <2>2. S \subseteq 1..N  OBVIOUS
  <2> QED  BY <2>1, <2>2, FS_Subset
<1>1. UpTo(S, 0) = 0
  <2>1. {q \in S : q <= 0} = {}  OBVIOUS
  <2> QED  BY <2>1, FS_EmptySet DEF UpTo
<1>2. UpTo(S, N) \in Nat  BY <1>a, <1>b, UpToStep
<1>3. N \in T  BY <1>2
<1>4. T \subseteq Nat  OBVIOUS
<1>5. PICK k \in T : \A j \in T : k <= j
  <2> HIDE DEF T
  <2> QED  BY <1>3, <1>4, LeastOf
<1>6. k \in Nat /\ k # 0 /\ UpTo(S, k) >= n  BY <1>1, <1>5
<1>7. k - 1 \in Nat /\ (k - 1) + 1 = k /\ k - 1 \notin T  BY <1>5, <1>6
<1>8. UpTo(S, k - 1) \in Nat /\ UpTo(S, k - 1) < n  BY <1>a, <1>b, <1>7, UpToStep
<1>9. UpTo(S, k) = IF k \in S THEN UpTo(S, k - 1) + 1 ELSE UpTo(S, k - 1)
  BY <1>a, <1>b, <1>7, UpToStep
<1> HIDE DEF T
<1>10. k \in S /\ UpTo(S, k) = n  BY <1>6, <1>8, <1>9
<1> QED  BY <1>10

(* Each place stands in Ascending where its count says.                    *)
LEMMA AscendingAt ==
  ASSUME NEW N \in Nat, NEW S, \A q \in S : q \in 1..N
  PROVE  /\ IsFiniteSet(S) /\ Cardinality(S) \in Nat /\ UpTo(S, N) = Cardinality(S)
         /\ Len(Ascending(S)) = Cardinality(S)
         /\ \A s \in S : /\ UpTo(S, s) \in 1..Cardinality(S)
                         /\ Ascending(S)[UpTo(S, s)] = s
         /\ \A m \in 1..Cardinality(S) :
              Ascending(S)[m] \in S /\ UpTo(S, Ascending(S)[m]) = m
<1>0. \A q \in S : q \in Nat  OBVIOUS
<1>1. IsFiniteSet(S)
  <2>1. IsFiniteSet(1..N)  BY FS_Interval
  <2>2. S \subseteq 1..N  OBVIOUS
  <2> QED  BY <2>1, <2>2, FS_Subset
<1>2. Cardinality(S) \in Nat  BY <1>1, FS_CardinalityType
<1>3. UpTo(S, N) = Cardinality(S)
  <2>1. {q \in S : q <= N} = S  OBVIOUS
  <2> QED  BY <2>1 DEF UpTo
<1>4. Ascending(S) = [n \in 1..Cardinality(S) |-> CHOOSE i \in S : UpTo(S, i) = n]
  BY DEF Ascending, UpTo
<1>5. Len(Ascending(S)) = Cardinality(S)  BY <1>2, <1>4
<1>6. ASSUME NEW s \in S
      PROVE  UpTo(S, s) \in 1..Cardinality(S) /\ Ascending(S)[UpTo(S, s)] = s
  <2>1. UpTo(S, s) \in 1..Cardinality(S)
    BY <1>0, <1>1, <1>3, UpToBounds
  <2>2. ASSUME NEW i \in S, UpTo(S, i) = UpTo(S, s)  PROVE i = s
    <3>1. CASE i < s
      <4>1. UpTo(S, i) < UpTo(S, s) /\ UpTo(S, s) \in Nat  BY <1>0, <1>1, <3>1, UpToBounds
      <4> QED  BY <2>2, <4>1
    <3>2. CASE s < i
      <4>1. UpTo(S, s) < UpTo(S, i) /\ UpTo(S, i) \in Nat  BY <1>0, <1>1, <3>2, UpToBounds
      <4> QED  BY <2>2, <4>1
    <3> QED  BY <3>1, <3>2
  <2>3. Ascending(S)[UpTo(S, s)] = CHOOSE i \in S : UpTo(S, i) = UpTo(S, s)
    BY <1>4, <2>1
  <2>4. PICK i : i = CHOOSE j \in S : UpTo(S, j) = UpTo(S, s)  OBVIOUS
  <2>5. i \in S /\ UpTo(S, i) = UpTo(S, s)  BY <2>4
  <2> QED  BY <2>1, <2>2, <2>3, <2>4, <2>5
<1>7. ASSUME NEW n \in 1..Cardinality(S)
      PROVE  Ascending(S)[n] \in S /\ UpTo(S, Ascending(S)[n]) = n
  <2>1. \E i \in S : UpTo(S, i) = n  BY <1>3, UpToReaches
  <2>2. PICK i : i = CHOOSE j \in S : UpTo(S, j) = n  OBVIOUS
  <2>3. i \in S /\ UpTo(S, i) = n  BY <2>1, <2>2
  <2>4. Ascending(S)[n] = i  BY <1>4, <2>2
  <2> QED  BY <2>3, <2>4
<1> QED  BY <1>1, <1>2, <1>3, <1>5, <1>6, <1>7

-----------------------------------------------------------------------------
(* The tokens of a text. *)

Found == Seq(TokenTypes \ {"EOF"})    \* what may stand in a text

StartsOf(t) == {i \in 1..Len(t) : Begins(t, ModeOf(t), i)}

\* The last character stands in a comment that is not closed, and is no space.
StrayIn(t) == t # <<>> /\ ModeOf(t)[Len(t)] = "block" /\ t[Len(t)] \notin Spaces

LEMMA TypeAtType ==
  ASSUME NEW t \in Seq(Atoms), NEW i \in 1..Len(t), t[i] \notin Spaces
  PROVE  TypeAt(t, i) \in TokenTypes \ {"EOF"}
<1>1. t[i] \in Atoms \ Spaces  OBVIOUS
<1>2. CASE t[i] \in WordAtoms
  BY <1>2 DEF TypeAt, TokenTypes, WordAtoms, Keywords, Quotes
<1>3. CASE t[i] \in Quotes \cup {"["}
  BY <1>3 DEF TypeAt, TokenTypes, Quotes
<1>4. CASE t[i] \in Symbols \cup {"semicolon"}
  BY <1>4 DEF TypeAt, TokenTypes, Quotes, WordAtoms, Keywords, Symbols
<1> QED  BY <1>1, <1>2, <1>3, <1>4 DEF Atoms

(* Where each token stands among them, and how many there are.             *)
LEMMA TokensAre ==
  ASSUME NEW t \in Seq(Atoms), NEW S, S = StartsOf(t)
  PROVE  /\ TokensOf(t) \in Found
         /\ Cardinality(S) \in Nat /\ UpTo(S, Len(t)) = Cardinality(S) /\ IsFiniteSet(S)
         /\ \A q \in S : q \in 1..Len(t)
         /\ Len(TokensOf(t)) = Cardinality(S) + IF StrayIn(t) THEN 1 ELSE 0
         /\ \A s \in S : TokenAt(TokensOf(t), UpTo(S, s)) = TypeAt(t, s)
         /\ StrayIn(t) => TokenAt(TokensOf(t), Cardinality(S) + 1) = TypeAt(t, Len(t))
<1> DEFINE N == Cardinality(S)
           starts == Ascending(S)
<1>0. Len(t) \in Nat  OBVIOUS
<1>1. \A q \in S : q \in 1..Len(t)  BY DEF StartsOf
<1>1a. \A q \in S : t[q] \notin Spaces  BY DEF StartsOf, Begins
<1>2. /\ N \in Nat /\ Len(starts) = N /\ UpTo(S, Len(t)) = N /\ IsFiniteSet(S)
      /\ \A s \in S : UpTo(S, s) \in 1..N /\ starts[UpTo(S, s)] = s
      /\ \A n \in 1..N : starts[n] \in S
  BY <1>0, <1>1, AscendingAt
<1>3. Tokens(t) = [n \in 1..N |-> TypeAt(t, starts[n])]
  BY <1>2 DEF Tokens, StartsOf
<1>4. \A q \in S : TypeAt(t, q) \in TokenTypes \ {"EOF"}
  BY <1>1, <1>1a, TypeAtType
<1> HIDE DEF N, starts
<1>5. /\ Tokens(t) \in Found /\ Len(Tokens(t)) = N
      /\ \A s \in S : Tokens(t)[UpTo(S, s)] = TypeAt(t, s)
  BY <1>2, <1>3, <1>4 DEF Found
<1>6. StrayToken(t) = IF StrayIn(t) THEN <<TypeAt(t, Len(t))>> ELSE <<>>
  BY DEF StrayToken, StrayIn
<1>7. CASE StrayIn(t)
  <2>1. Len(t) \in 1..Len(t)
    <3>1. t # <<>>  BY <1>7 DEF StrayIn
    <3> QED  BY <3>1
  <2>2. TypeAt(t, Len(t)) \in TokenTypes \ {"EOF"}
    BY <1>7, <2>1, TypeAtType DEF StrayIn
  <2>3. TokensOf(t) = Append(Tokens(t), TypeAt(t, Len(t)))
    BY <1>5, <1>6, <1>7, <2>2 DEF TokensOf, Found
  <2>4. TokensOf(t) \in Found /\ Len(TokensOf(t)) = N + 1 /\ TokensOf(t)[N + 1] = TypeAt(t, Len(t))
    BY <1>2, <1>5, <2>2, <2>3 DEF Found
  <2>5. \A n \in 1..N : TokensOf(t)[n] = Tokens(t)[n]
    BY <1>2, <1>5, <2>2, <2>3 DEF Found
  <2>6. \A s \in S : TokenAt(TokensOf(t), UpTo(S, s)) = TypeAt(t, s)
    BY <1>2, <1>5, <2>4, <2>5 DEF TokenAt
  <2>7. TokenAt(TokensOf(t), N + 1) = TypeAt(t, Len(t))
    BY <1>2, <2>4 DEF TokenAt
  <2> QED  BY <1>1, <1>2, <1>7, <2>4, <2>6, <2>7 DEF N
<1>8. CASE ~StrayIn(t)
  <2>1. TokensOf(t) = Tokens(t)
    BY <1>5, <1>6, <1>8 DEF TokensOf, Found
  <2>2. \A s \in S : TokenAt(TokensOf(t), UpTo(S, s)) = TypeAt(t, s)
    BY <1>2, <1>5, <2>1 DEF TokenAt
  <2>3. Len(TokensOf(t)) = N  BY <1>5, <2>1
  <2> QED  BY <1>1, <1>2, <1>5, <1>8, <2>1, <2>2, <2>3 DEF N
<1> QED  BY <1>7, <1>8

-----------------------------------------------------------------------------
(* What holds in each loop of the lexer.                                   *)

Mode == ModeOf(input)
Starts == StartsOf(input)

\* The text ends in a comment that is not closed.
Unclosed == input # <<>> /\ Mode[Len(input)] = "block"

\* What has been returned are the tokens that begin up to n.
Returned(n) == Len(returned) = UpTo(Starts, n)

\* The place p is outside of all that is one token or no token, or the end is reached there.
AtToken(p) ==
  IF p <= Len(input)
    THEN /\ Mode[p] = "code"
         /\ p > 1 => /\ ~(Mode[p - 1] = "code" /\ input[p - 1] \in WordAtoms /\ input[p] \in WordAtoms)
                     /\ ~(Mode[p - 1] = input[p] /\ input[p] \in Quotes)
    ELSE ~Unclosed

Between ==
  \/ Returned(pos - 1) /\ AtToken(pos)
  \/ Returned(pos - 1) /\ Is(pos, "newline") /\ Mode[pos] = "line"
  \/ Returned(pos - 1) /\ pos = Len(input) /\ Unclosed
  \/ pos = Len(input) + 1 /\ Len(tokens) <= Len(returned)

\* A token that began at start is read, and no other one begins in front of pos.
UnderWay ==
  /\ start \in Starts /\ start < pos
  /\ UpTo(Starts, start) = Len(returned) + 1
  /\ UpTo(Starts, pos - 1) = Len(returned) + 1

StrayUnderWay ==
  /\ start = Len(input) /\ pos = Len(input) + 1
  /\ StrayIn(input) /\ Len(returned) = Cardinality(Starts)

InLoop ==
  /\ reading \in {"nothing", "space"} => Between
  /\ reading = "line" => /\ Returned(pos - 1) /\ pos > 1
                         /\ Mode[pos] = "line" /\ Mode[pos - 1] = "line"
  /\ reading = "block" => /\ Returned(pos - 1) /\ Mode[pos] = "block"
                          /\ pos <= Len(input) \/ ~Unclosed
  /\ reading = "quoted" =>
       /\ input[start] \in Quotes \cup {"["}
       /\ \/ StrayUnderWay
          \/ /\ UnderWay /\ Mode[pos] = input[start]
             /\ Mode[pos - 1] \in {"code", input[start]}
  /\ reading = "word" =>
       /\ input[start] \in WordAtoms
       /\ \/ StrayUnderWay
          \/ /\ UnderWay /\ Mode[pos] = "code"
             /\ \A j \in start..(pos - 1) : input[j] \in WordAtoms /\ Mode[j] = "code"

(* What has been returned is what stands in the text, at each step.        *)
Correct == \A n \in 1..Len(returned) : returned[n] = TokenAt(tokens, n)

LexerType ==
  /\ input \in Seq(Atoms)
  /\ pos \in 1..(Len(input) + 1)
  /\ start \in 1..(Len(input) + 1)
  /\ reading \in {"nothing", "space", "line", "block", "quoted", "word"}
  /\ returned \in Seq(TokenTypes)

LexerInv == LexerType /\ Correct /\ InLoop

-----------------------------------------------------------------------------
(* One step of the lexer.                                                  *)

(* The mode behind a character, and the count of the tokens up to it.      *)
LEMMA OneChar ==
  ASSUME LexerType, NEW p \in 1..Len(input)
  PROVE  /\ Mode[p + 1] = NextMode(Mode[p], input[p], Behind(input, p))
         /\ Behind(input, p) = IF p < Len(input) THEN input[p + 1] ELSE "nothing"
         /\ UpTo(Starts, p - 1) \in Nat /\ UpTo(Starts, p) \in Nat
         /\ UpTo(Starts, p) = IF p \in Starts THEN UpTo(Starts, p - 1) + 1 ELSE UpTo(Starts, p - 1)
         /\ p \in Starts <=> Begins(input, Mode, p)
<1>1. Len(input) \in Nat  BY DEF LexerType
<1>2. Mode[p + 1] = NextMode(Mode[p], input[p], Behind(input, p))
  BY <1>1, ModeSteps DEF Mode
<1>3. (\A q \in Starts : q \in Nat) /\ IsFiniteSet(Starts)
  BY TokensAre DEF LexerType, Starts
<1>4. p - 1 \in Nat /\ p \in Nat /\ (p - 1) + 1 = p  BY <1>1
<1>5. /\ UpTo(Starts, p - 1) \in Nat /\ UpTo(Starts, p) \in Nat
      /\ UpTo(Starts, p) = IF p \in Starts THEN UpTo(Starts, p - 1) + 1 ELSE UpTo(Starts, p - 1)
  <2>1. \A n \in Nat : /\ UpTo(Starts, n) \in Nat
                       /\ UpTo(Starts, n + 1) = IF n + 1 \in Starts THEN UpTo(Starts, n) + 1
                                                                   ELSE UpTo(Starts, n)
    BY <1>3, UpToStep
  <2> QED  BY <1>4, <2>1
<1>6. p \in Starts <=> Begins(input, Mode, p)  BY DEF Starts, StartsOf, Mode
<1> QED  BY <1>2, <1>5, <1>6 DEF Behind

(* The modes behind a mode.                                                *)
LEMMA Modes ==
  ASSUME NEW a \in Atoms, NEW b
  PROVE  /\ NextMode("code", a, b) = IF a \in Quotes \cup {"["} THEN a
                                     ELSE IF a = "-" /\ b = "-" THEN "line"
                                     ELSE IF a = "/" /\ b = "*" THEN "opening" ELSE "code"
         /\ \A q \in Quotes : NextMode(q, a, b) = IF a = q THEN "code" ELSE q
         /\ NextMode("[", a, b) = IF a = "]" THEN "code" ELSE "["
         /\ NextMode("line", a, b) = IF a = "newline" THEN "code" ELSE "line"
         /\ NextMode("opening", a, b) = "block"
         /\ NextMode("block", a, b) = IF a = "*" /\ b = "/" THEN "closing" ELSE "block"
         /\ NextMode("closing", a, b) = "code"
<1>1. NextMode("code", a, b) = IF a \in Quotes \cup {"["} THEN a
                               ELSE IF a = "-" /\ b = "-" THEN "line"
                               ELSE IF a = "/" /\ b = "*" THEN "opening" ELSE "code"
  BY DEF NextMode, Quotes
<1>2. \A q \in Quotes : NextMode(q, a, b) = IF a = q THEN "code" ELSE q
  BY DEF NextMode, Quotes
<1>3. /\ NextMode("[", a, b) = IF a = "]" THEN "code" ELSE "["
      /\ NextMode("line", a, b) = IF a = "newline" THEN "code" ELSE "line"
  BY DEF NextMode, Quotes
<1>4. /\ NextMode("opening", a, b) = "block"
      /\ NextMode("block", a, b) = IF a = "*" /\ b = "/" THEN "closing" ELSE "block"
      /\ NextMode("closing", a, b) = "code"
  BY DEF NextMode, Quotes
<1> QED  BY <1>1, <1>2, <1>3, <1>4

(* What is to be returned next.                                            *)
LEMMA TokensHere ==
  ASSUME LexerType
  PROVE  /\ tokens \in Found /\ Len(tokens) \in Nat /\ Cardinality(Starts) \in Nat
         /\ UpTo(Starts, Len(input)) = Cardinality(Starts)
         /\ Len(tokens) = Cardinality(Starts) + IF StrayIn(input) THEN 1 ELSE 0
         /\ \A s \in Starts : TokenAt(tokens, UpTo(Starts, s)) = TypeAt(input, s)
         /\ StrayIn(input) => TokenAt(tokens, Cardinality(Starts) + 1) = TypeAt(input, Len(input))
         /\ \A s \in Starts : s \in 1..Len(input) /\ TypeAt(input, s) \in TokenTypes
         /\ StrayIn(input) => Len(input) \in 1..Len(input) /\ TypeAt(input, Len(input)) \in TokenTypes
<1>1. /\ tokens \in Found /\ Cardinality(Starts) \in Nat
      /\ UpTo(Starts, Len(input)) = Cardinality(Starts)
      /\ Len(tokens) = Cardinality(Starts) + IF StrayIn(input) THEN 1 ELSE 0
      /\ \A s \in Starts : TokenAt(tokens, UpTo(Starts, s)) = TypeAt(input, s)
      /\ StrayIn(input) => TokenAt(tokens, Cardinality(Starts) + 1) = TypeAt(input, Len(input))
      /\ \A s \in Starts : s \in 1..Len(input)
  BY TokensAre DEF LexerType, Starts, tokens
<1>2. \A s \in Starts : input[s] \notin Spaces  BY DEF Starts, StartsOf, Begins
<1>3. StrayIn(input) => Len(input) \in 1..Len(input) /\ input[Len(input)] \notin Spaces
  BY DEF StrayIn, LexerType
<1>4. \A i \in 1..Len(input) : input[i] \notin Spaces => TypeAt(input, i) \in TokenTypes
  BY TypeAtType DEF LexerType
<1>5. Len(tokens) \in Nat  BY <1>1
<1> QED  BY <1>1, <1>2, <1>3, <1>4, <1>5

(* Returning the next token of the text keeps what is returned correct.    *)
LEMMA ReturnsNext ==
  ASSUME LexerType, Correct, NEW type \in TokenTypes, NEW to \in 1..(Len(input) + 1),
         Return(type, to), type = TokenAt(tokens, Len(returned) + 1)
  PROVE  LexerType' /\ Correct'
<1>1. input' = input /\ tokens' = tokens /\ returned' = Append(returned, type)
  BY DEF Return, tokens
<1>2. LexerType'  BY DEF LexerType, Return
<1>3. Len(returned) \in Nat /\ Len(returned') = Len(returned) + 1
      /\ \A n \in 1..(Len(returned) + 1) :
           returned'[n] = IF n <= Len(returned) THEN returned[n] ELSE type
  BY <1>1 DEF LexerType
<1>4. Correct'
  BY <1>1, <1>3 DEF Correct
<1> QED  BY <1>2, <1>4

LEMMA GoesOn ==
  ASSUME LexerType, Correct, NEW loop \in {"space", "line", "block", "quoted", "word"},
         NEW to \in 1..(Len(input) + 1), GoOn(loop, to)
  PROVE  /\ LexerType' /\ Correct'
         /\ input' = input /\ returned' = returned /\ pos' = to /\ reading' = loop
         /\ start' = IF reading = "space" THEN pos ELSE start
         /\ Mode' = Mode /\ Starts' = Starts /\ tokens' = tokens /\ Unclosed' = Unclosed
<1>1. input' = input /\ returned' = returned /\ pos' = to /\ reading' = loop
      /\ start' = IF reading = "space" THEN pos ELSE start
  BY DEF GoOn
<1>2. Mode' = Mode /\ Starts' = Starts /\ tokens' = tokens /\ Unclosed' = Unclosed
  BY <1>1 DEF Mode, Starts, tokens, Unclosed
<1>3. LexerType'
  BY <1>1 DEF LexerType
<1>4. Correct'  BY <1>1, <1>2 DEF Correct
<1> QED  BY <1>1, <1>2, <1>3, <1>4

LEMMA SkipSpaceKeeps ==
  ASSUME LexerInv, SkipSpace
  PROVE  LexerInv'
<1>1. LexerType /\ Correct /\ Between /\ reading = "space" /\ Len(input) \in Nat
  BY DEF LexerInv, InLoop, SkipSpace, LexerType
<1>2. CASE pos <= Len(input) /\ input[pos] \in Spaces /\ GoOn("space", pos + 1)
  <2>1. pos \in 1..Len(input) /\ input[pos] \in Atoms  BY <1>1, <1>2 DEF LexerType
  <2>2. /\ LexerType' /\ Correct' /\ input' = input /\ returned' = returned
        /\ pos' = pos + 1 /\ reading' = "space"
        /\ Mode' = Mode /\ Starts' = Starts /\ tokens' = tokens /\ Unclosed' = Unclosed
    BY <1>1, <1>2, <2>1, GoesOn
  <2>3. input[pos] \notin WordAtoms /\ input[pos] \notin Quotes \cup {"[", "-", "/"}
    BY <1>2 DEF Spaces, WordAtoms, Keywords, Quotes
  <2>4. pos \notin Starts /\ UpTo(Starts, pos) = UpTo(Starts, pos - 1)
    BY <1>1, <1>2, <2>1, OneChar DEF Begins
  <2>5. CASE Returned(pos - 1) /\ Mode[pos] \in {"code", "line"} /\ (Mode[pos] = "line" => input[pos] = "newline")
    <3>1. Mode[pos + 1] = "code"
      BY <1>1, <2>1, <2>3, <2>5, OneChar, Modes
    <3>2. pos = Len(input) => ~Unclosed  BY <2>5 DEF Unclosed
    <3>3. Mode[pos] \notin Quotes  BY <2>5 DEF Quotes
    <3>4. AtToken(pos + 1)
      BY <1>1, <2>1, <2>3, <3>1, <3>2, <3>3 DEF AtToken
    <3>5. Returned(pos)  BY <2>4, <2>5 DEF Returned
    <3>6. Between'
      BY <1>1, <2>1, <2>2, <3>4, <3>5 DEF Between, Returned, AtToken
    <3> QED  BY <2>2, <3>6 DEF LexerInv, InLoop
  <2>6. CASE Returned(pos - 1) /\ pos = Len(input) /\ Unclosed
    <3>1. ~StrayIn(input)  BY <1>2, <2>6 DEF StrayIn
    <3>2. Len(returned) = Len(tokens)
      BY <1>1, <2>4, <2>6, <3>1, TokensHere DEF Returned
    <3>3. Between'
      BY <1>1, <2>2, <2>6, <3>2, TokensHere DEF Between
    <3> QED  BY <2>2, <3>3 DEF LexerInv, InLoop
  <2> QED  BY <1>1, <2>1, <2>5, <2>6 DEF Between, AtToken, Is
<1>3. ASSUME NEW loop \in {"line", "block"}, GoOn(loop, pos + 2),
             NEW m, m = IF loop = "line" THEN "line" ELSE "opening",
             loop = "line" => OpensLine, loop = "block" => OpensBlock
      PROVE  LexerInv'
  <2>1. /\ pos \in 1..Len(input) /\ pos + 1 \in 1..Len(input)
        /\ input[pos] \in Atoms /\ input[pos + 1] \in Atoms
        /\ IF loop = "line" THEN input[pos] = "-" /\ input[pos + 1] = "-"
                            ELSE input[pos] = "/" /\ input[pos + 1] = "*"
    BY <1>1, <1>3 DEF LexerType, OpensLine, OpensBlock, Is
  <2>2. /\ LexerType' /\ Correct' /\ input' = input /\ returned' = returned
        /\ pos' = pos + 2 /\ reading' = loop
        /\ Mode' = Mode /\ Starts' = Starts /\ Unclosed' = Unclosed
    <3>1. pos + 2 \in 1..(Len(input) + 1)  BY <1>1, <2>1
    <3> QED  BY <1>1, <1>3, <3>1, GoesOn
  <2>3. Returned(pos - 1) /\ Mode[pos] = "code"
    BY <1>1, <2>1 DEF Between, AtToken, Is
  <2>4. Mode[pos + 1] = m
    <3>1. Mode[pos + 1] = NextMode("code", input[pos], input[pos + 1])
      BY <1>1, <2>1, <2>3, OneChar
    <3>2. input[pos] \notin Quotes \cup {"["}  BY <2>1 DEF Quotes
    <3>3. CASE loop = "line"  BY <1>3, <2>1, <3>1, <3>2, <3>3, Modes
    <3>4. CASE loop # "line"  BY <1>3, <2>1, <3>1, <3>2, <3>4, Modes
    <3> QED  BY <3>3, <3>4
  <2>5. Mode[pos + 2] = loop
    BY <1>1, <1>3, <2>1, <2>4, OneChar, Modes
  <2>6. pos \notin Starts /\ UpTo(Starts, pos) = UpTo(Starts, pos - 1)
    BY <1>1, <1>3, <2>1, <2>4, OneChar DEF Begins
  <2>7. UpTo(Starts, pos + 1) = UpTo(Starts, pos)
    <3>1. Mode[pos + 1] # "code"  BY <1>3, <2>4
    <3>2. pos + 1 \notin Starts  BY <1>1, <2>1, <3>1, OneChar DEF Begins
    <3>3. (pos + 1) - 1 = pos  BY <2>1
    <3> QED  BY <1>1, <2>1, <3>2, <3>3, OneChar
  <2>8. Len(returned) = UpTo(Starts, pos + 1)  BY <2>3, <2>6, <2>7 DEF Returned
  <2>9. pos + 2 <= Len(input) \/ ~Unclosed \/ loop = "line"
    BY <1>1, <1>3, <2>1, <2>4 DEF Unclosed
  <2>10. pos' - 1 = pos + 1 /\ pos' > 1  BY <1>1, <2>1, <2>2
  <2> QED  BY <1>3, <2>2, <2>4, <2>5, <2>8, <2>9, <2>10 DEF LexerInv, InLoop, Returned
<1>4. CASE OpensLine /\ GoOn("line", pos + 2)  BY <1>3, <1>4
<1>5. CASE OpensBlock /\ GoOn("block", pos + 2)  BY <1>3, <1>5
<1> QED  BY <1>2, <1>4, <1>5 DEF SkipSpace

LEMMA SkipLineKeeps ==
  ASSUME LexerInv, SkipLine
  PROVE  LexerInv'
<1>1. /\ LexerType /\ Correct /\ Len(input) \in Nat /\ pos \in 1..(Len(input) + 1)
      /\ Returned(pos - 1) /\ pos > 1 /\ Mode[pos] = "line" /\ Mode[pos - 1] = "line"
      /\ reading = "line"
  BY DEF LexerInv, InLoop, SkipLine, LexerType
<1>2. CASE pos <= Len(input) /\ ~Is(pos, "newline") /\ GoOn("line", pos + 1)
  <2>1. pos \in 1..Len(input) /\ input[pos] \in Atoms /\ input[pos] # "newline"
    BY <1>1, <1>2 DEF LexerType, Is
  <2>2. /\ LexerType' /\ Correct' /\ returned' = returned /\ pos' = pos + 1 /\ reading' = "line"
        /\ Mode' = Mode /\ Starts' = Starts
    BY <1>1, <1>2, <2>1, GoesOn
  <2>3. Mode[pos + 1] = "line"  BY <1>1, <2>1, OneChar, Modes
  <2>4. UpTo(Starts, pos) = UpTo(Starts, pos - 1)
    BY <1>1, <2>1, OneChar DEF Begins
  <2>5. pos' - 1 = pos /\ pos' > 1  BY <1>1, <2>2
  <2> QED  BY <1>1, <2>2, <2>3, <2>4, <2>5 DEF LexerInv, InLoop, Returned
<1>3. CASE (pos > Len(input) \/ Is(pos, "newline")) /\ GoOn("space", pos)
  <2>1. /\ LexerType' /\ Correct' /\ returned' = returned /\ pos' = pos /\ reading' = "space"
        /\ input' = input /\ Mode' = Mode /\ Starts' = Starts /\ Unclosed' = Unclosed
    BY <1>1, <1>3, GoesOn
  <2>2. pos > Len(input) => pos - 1 = Len(input)  BY <1>1
  <2>3. pos > Len(input) => ~Unclosed  BY <1>1, <2>2 DEF Unclosed
  <2>4. Between'
    BY <1>1, <1>3, <2>1, <2>3 DEF Between, Returned, AtToken, Is
  <2> QED  BY <2>1, <2>4 DEF LexerInv, InLoop
<1> QED  BY <1>2, <1>3 DEF SkipLine

LEMMA SkipBlockKeeps ==
  ASSUME LexerInv, SkipBlock
  PROVE  LexerInv'
<1>1. /\ LexerType /\ Correct /\ Len(input) \in Nat /\ pos \in 1..(Len(input) + 1)
      /\ Returned(pos - 1) /\ Mode[pos] = "block" /\ (pos <= Len(input) \/ ~Unclosed)
      /\ reading = "block"
  BY DEF LexerInv, InLoop, SkipBlock, LexerType
<1>2. CASE ClosesBlock /\ GoOn("space", pos + 2)
  <2>1. /\ pos \in 1..Len(input) /\ pos + 1 \in 1..Len(input)
        /\ input[pos] = "*" /\ input[pos + 1] = "/"
        /\ input[pos] \in Atoms /\ input[pos + 1] \in Atoms
    BY <1>1, <1>2 DEF LexerType, ClosesBlock, Is
  <2>2. /\ LexerType' /\ Correct' /\ input' = input /\ returned' = returned
        /\ pos' = pos + 2 /\ reading' = "space"
        /\ Mode' = Mode /\ Starts' = Starts /\ Unclosed' = Unclosed
    <3>1. pos + 2 \in 1..(Len(input) + 1)  BY <1>1, <2>1
    <3> QED  BY <1>1, <1>2, <3>1, GoesOn
  <2>3. Mode[pos + 1] = "closing"
    BY <1>1, <2>1, OneChar, Modes
  <2>4. Mode[pos + 2] = "code"  BY <1>1, <2>1, <2>3, OneChar, Modes
  <2>5. UpTo(Starts, pos) = UpTo(Starts, pos - 1)
    BY <1>1, <2>1, OneChar DEF Begins
  <2>6. UpTo(Starts, pos + 1) = UpTo(Starts, pos)
    <3>1. pos + 1 \notin Starts  BY <1>1, <2>1, <2>3, OneChar DEF Begins
    <3>2. (pos + 1) - 1 = pos  BY <2>1
    <3> QED  BY <1>1, <2>1, <3>1, <3>2, OneChar
  <2>7. Returned(pos + 1)  BY <1>1, <2>5, <2>6 DEF Returned
  <2>8. pos + 1 = Len(input) => ~Unclosed  BY <2>3 DEF Unclosed
  <2>9. AtToken(pos + 2)
    <3>1. (pos + 2) - 1 = pos + 1 /\ (pos + 2 <= Len(input) \/ pos + 1 = Len(input))  BY <1>1, <2>1
    <3> QED  BY <2>3, <2>4, <2>8, <3>1 DEF AtToken, Quotes
  <2>10. pos' - 1 = pos + 1  BY <1>1, <2>2
  <2>11. Between'  BY <2>2, <2>7, <2>9, <2>10 DEF Between, Returned, AtToken
  <2> QED  BY <2>2, <2>11 DEF LexerInv, InLoop
<1>3. CASE pos + 1 <= Len(input) /\ ~ClosesBlock /\ GoOn("block", pos + 1)
  <2>1. pos \in 1..Len(input) /\ input[pos] \in Atoms
        /\ ~(input[pos] = "*" /\ input[pos + 1] = "/") /\ pos < Len(input)
    BY <1>1, <1>3 DEF LexerType, ClosesBlock, Is
  <2>2. /\ LexerType' /\ Correct' /\ returned' = returned /\ pos' = pos + 1 /\ reading' = "block"
        /\ input' = input /\ Mode' = Mode /\ Starts' = Starts
    <3>1. pos + 1 \in 1..(Len(input) + 1)  BY <1>1, <2>1
    <3> QED  BY <1>1, <1>3, <3>1, GoesOn
  <2>3. Mode[pos + 1] = "block"  BY <1>1, <2>1, OneChar, Modes
  <2>4. UpTo(Starts, pos) = UpTo(Starts, pos - 1)
    BY <1>1, <2>1, OneChar DEF Begins
  <2>5. pos' - 1 = pos /\ pos' <= Len(input)  BY <1>1, <1>3, <2>2
  <2> QED  BY <1>1, <2>2, <2>3, <2>4, <2>5 DEF LexerInv, InLoop, Returned
<1>4. CASE pos + 1 > Len(input) /\ GoOn("space", pos)
  <2>1. /\ LexerType' /\ Correct' /\ returned' = returned /\ pos' = pos /\ reading' = "space"
        /\ input' = input /\ Mode' = Mode /\ Starts' = Starts /\ Unclosed' = Unclosed
    BY <1>1, <1>4, GoesOn
  <2>2. pos = Len(input) => Unclosed
    <3>1. ASSUME pos = Len(input) PROVE input # <<>>
      <4>1. Len(input) # 0  BY <1>1, <3>1
      <4> QED  BY <4>1
    <3> QED  BY <1>1, <3>1 DEF Unclosed
  <2>3. pos = Len(input) \/ pos > Len(input)  BY <1>1, <1>4
  <2>4. Between'
    BY <1>1, <2>1, <2>2, <2>3 DEF Between, Returned, AtToken
  <2> QED  BY <2>1, <2>4 DEF LexerInv, InLoop
<1> QED  BY <1>2, <1>3, <1>4 DEF SkipBlock

LEMMA SwitchKeeps ==
  ASSUME LexerInv, Switch
  PROVE  LexerInv'
<1>1. /\ LexerType /\ Correct /\ Between /\ reading = "space"
      /\ Len(input) \in Nat /\ Len(returned) \in Nat /\ pos \in 1..(Len(input) + 1)
  BY DEF LexerInv, InLoop, Switch, LexerType
<1>2. CASE pos > Len(input) /\ Return("EOF", pos)
  <2>1. pos = Len(input) + 1 /\ pos - 1 = Len(input)  BY <1>1, <1>2
  <2>2. Len(tokens) <= Len(returned)
    <3>1. CASE Returned(pos - 1) /\ AtToken(pos)
      <4>1. ~StrayIn(input)  BY <1>2, <2>1, <3>1 DEF AtToken, Unclosed, StrayIn, Mode
      <4> QED  BY <1>1, <2>1, <3>1, <4>1, TokensHere DEF Returned
    <3>2. ~(pos <= Len(input)) /\ pos # Len(input)
      <4>1. Len(input) \in Nat  BY <1>1
      <4>2. ~(pos <= Len(input))  BY <2>1, <4>1
      <4>3. pos # Len(input)  BY <4>1, <4>2
      <4> QED  BY <4>2, <4>3
    <3> QED  BY <1>1, <3>1, <3>2 DEF Between, Is
  <2>3. "EOF" = TokenAt(tokens, Len(returned) + 1)
    BY <1>1, <2>2, TokensHere DEF TokenAt
  <2>4. LexerType' /\ Correct'
    BY <1>1, <1>2, <2>3, ReturnsNext DEF TokenTypes
  <2>5. Between'
    <3>1. input' = input /\ pos' = pos /\ tokens' = tokens /\ Len(returned') = Len(returned) + 1
      BY <1>1, <1>2 DEF Return, tokens, LexerType
    <3>2. Len(tokens') <= Len(returned')  BY <1>1, <2>2, <3>1, TokensHere
    <3> QED  BY <2>1, <3>1, <3>2 DEF Between
  <2> QED  BY <1>2, <2>4, <2>5 DEF LexerInv, InLoop, Return
(* What begins here is a token: one of the text, or the stray one.         *)
<1>3. ASSUME pos \in 1..Len(input), input[pos] \notin Spaces,
             ~OpensLine, ~OpensBlock
      PROVE  /\ \/ /\ pos \in Starts /\ Mode[pos] = "code"
                   /\ Mode[pos + 1] = IF input[pos] \in Quotes \cup {"["} THEN input[pos] ELSE "code"
                   /\ UpTo(Starts, pos) = Len(returned) + 1
                \/ /\ pos = Len(input) /\ StrayIn(input)
                   /\ Len(returned) = Cardinality(Starts)
             /\ TypeAt(input, pos) = TokenAt(tokens, Len(returned) + 1)
  <2>1. input[pos] \in Atoms  BY <1>1, <1>3 DEF LexerType
  <2>2. ~(input[pos] = "-" /\ Behind(input, pos) = "-")
        /\ ~(input[pos] = "/" /\ Behind(input, pos) = "*")
    BY <1>1, <1>3 DEF OpensLine, OpensBlock, Is, Behind
  <2>3. CASE Returned(pos - 1) /\ AtToken(pos)
    <3>1. Mode[pos] = "code"  BY <1>1, <1>3, <2>3 DEF AtToken
    <3>2. Mode[pos + 1] = IF input[pos] \in Quotes \cup {"["} THEN input[pos] ELSE "code"
      <4>1. Mode[pos + 1] = NextMode("code", input[pos], Behind(input, pos))
        BY <1>1, <1>3, <3>1, OneChar
      <4> QED  BY <2>1, <2>2, <4>1, Modes
    <3>3. Mode[pos + 1] \notin {"line", "opening"}  BY <3>2 DEF Quotes
    <3>4. pos > 1 => /\ ~(Mode[pos - 1] = "code" /\ input[pos - 1] \in WordAtoms /\ input[pos] \in WordAtoms)
                     /\ ~(Mode[pos - 1] = input[pos] /\ input[pos] \in Quotes)
      BY <1>3, <1>1, <2>3 DEF AtToken
    <3>5. Begins(input, Mode, pos)  BY <1>3, <3>1, <3>3, <3>4 DEF Begins
    <3>6. pos \in Starts /\ UpTo(Starts, pos) = Len(returned) + 1
      BY <1>1, <1>3, <2>3, <3>5, OneChar DEF Returned
    <3> QED  BY <1>1, <3>1, <3>2, <3>6, TokensHere
  <2>4. CASE Returned(pos - 1) /\ pos = Len(input) /\ Unclosed
    <3>1. StrayIn(input)  BY <1>3, <2>4 DEF Unclosed, StrayIn, Mode
    <3>2. pos \notin Starts  BY <1>1, <1>3, <2>4, OneChar DEF Begins, Unclosed
    <3>3. Len(returned) = Cardinality(Starts)
      BY <1>1, <1>3, <2>4, <3>2, OneChar, TokensHere DEF Returned
    <3> QED  BY <1>1, <2>4, <3>1, <3>3, TokensHere
  <2> QED  BY <1>1, <1>3, <2>3, <2>4 DEF Between, Is, Spaces
<1>4. ASSUME NEW loop \in {"quoted", "word"}, GoOn(loop, pos + 1), pos \in 1..Len(input),
             IF loop = "quoted" THEN input[pos] \in Quotes \cup {"["} ELSE input[pos] \in WordAtoms
      PROVE  LexerInv'
  <2>1. /\ input[pos] \notin Spaces /\ ~OpensLine /\ ~OpensBlock
        /\ input[pos] \in Quotes \cup {"["} <=> loop = "quoted"
    BY <1>4 DEF Spaces, Quotes, WordAtoms, Keywords, OpensLine, OpensBlock, Is
  <2>2. /\ LexerType' /\ Correct' /\ input' = input /\ returned' = returned
        /\ pos' = pos + 1 /\ reading' = loop /\ start' = pos
        /\ Mode' = Mode /\ Starts' = Starts
    <3>1. pos + 1 \in 1..(Len(input) + 1)  BY <1>1, <1>4
    <3> QED  BY <1>1, <1>4, <3>1, GoesOn
  <2>3. pos' - 1 = pos /\ pos < pos'  BY <1>1, <2>2
  <2>4. CASE /\ pos \in Starts /\ Mode[pos] = "code"
             /\ Mode[pos + 1] = IF input[pos] \in Quotes \cup {"["} THEN input[pos] ELSE "code"
             /\ UpTo(Starts, pos) = Len(returned) + 1
    <3>1. UnderWay'  BY <2>2, <2>3, <2>4 DEF UnderWay
    <3>2. CASE loop = "quoted"
      BY <1>4, <2>1, <2>2, <2>3, <2>4, <3>1, <3>2 DEF LexerInv, InLoop
    <3>3. CASE loop = "word"
      <4>1. \A j \in start'..(pos' - 1) : j = pos  BY <1>1, <2>2, <2>3
      <4> QED  BY <1>4, <2>1, <2>2, <2>3, <2>4, <3>1, <3>3, <4>1 DEF LexerInv, InLoop
    <3> QED  BY <3>2, <3>3
  <2>5. CASE pos = Len(input) /\ StrayIn(input) /\ Len(returned) = Cardinality(Starts)
    <3>1. StrayUnderWay'  BY <2>2, <2>5 DEF StrayUnderWay
    <3> QED  BY <1>4, <2>1, <2>2, <3>1 DEF LexerInv, InLoop
  <2> QED  BY <1>3, <1>4, <2>1, <2>4, <2>5
<1>5. CASE pos <= Len(input) /\ input[pos] \in Quotes \cup {"["} /\ GoOn("quoted", pos + 1)
  BY <1>1, <1>4, <1>5
<1>6. CASE IsWordChar(pos) /\ GoOn("word", pos + 1)
  BY <1>1, <1>4, <1>6 DEF IsWordChar
<1>7. CASE /\ pos <= Len(input) /\ input[pos] \in Symbols \cup {"semicolon"}
           /\ ~OpensLine /\ ~OpensBlock
           /\ Return(input[pos], pos + 1)
  <2>1. /\ pos \in 1..Len(input) /\ input[pos] \notin Spaces
        /\ input[pos] \notin Quotes \cup {"["} /\ input[pos] \notin WordAtoms
        /\ input[pos] \in TokenTypes /\ pos + 1 \in 1..(Len(input) + 1)
    BY <1>1, <1>7 DEF Spaces, Symbols, Quotes, WordAtoms, Keywords, TokenTypes
  <2>2. TypeAt(input, pos) = input[pos]  BY <2>1 DEF TypeAt, Quotes
  <2>3. LexerType' /\ Correct'  BY <1>1, <1>3, <1>7, <2>1, <2>2, ReturnsNext
  <2>4. /\ input' = input /\ pos' = pos + 1 /\ tokens' = tokens /\ reading' = "nothing"
        /\ Mode' = Mode /\ Starts' = Starts /\ Unclosed' = Unclosed
        /\ Len(returned') = Len(returned) + 1 /\ pos' - 1 = pos
    BY <1>1, <1>7 DEF Return, tokens, LexerType, Mode, Starts, Unclosed
  <2>5. CASE /\ pos \in Starts /\ Mode[pos] = "code"
             /\ Mode[pos + 1] = IF input[pos] \in Quotes \cup {"["} THEN input[pos] ELSE "code"
             /\ UpTo(Starts, pos) = Len(returned) + 1
    <3>1. pos = Len(input) => ~Unclosed  BY <2>5 DEF Unclosed
    <3>2. AtToken(pos + 1)
      <4>1. (pos + 1) - 1 = pos /\ (pos + 1 <= Len(input) \/ pos = Len(input))  BY <1>1, <2>1
      <4> QED  BY <2>1, <2>5, <3>1, <4>1 DEF AtToken, Quotes
    <3>3. Between'  BY <2>4, <2>5, <3>2 DEF Between, Returned, AtToken
    <3> QED  BY <2>3, <2>4, <3>3 DEF LexerInv, InLoop
  <2>6. CASE pos = Len(input) /\ StrayIn(input) /\ Len(returned) = Cardinality(Starts)
    <3>1. Len(tokens') <= Len(returned')  BY <1>1, <2>4, <2>6, TokensHere
    <3>2. pos' = Len(input') + 1  BY <2>4, <2>6
    <3>3. Between'  BY <3>1, <3>2 DEF Between
    <3> QED  BY <2>3, <2>4, <3>3 DEF LexerInv, InLoop
  <2> QED  BY <1>3, <1>7, <2>1, <2>5, <2>6
<1> QED  BY <1>2, <1>5, <1>6, <1>7 DEF Switch

LEMMA ReadQuotedKeeps ==
  ASSUME LexerInv, ReadQuoted
  PROVE  LexerInv'
<1> DEFINE close == IF input[start] = "[" THEN "]" ELSE input[start]
           doubled == close # "]" /\ Is(pos + 1, close)
           type == IF input[start] = "apostrophe" THEN "STRING" ELSE "IDENT"
           q == input[start]
<1>0. LexerInv /\ reading = "quoted"  BY DEF ReadQuoted
<1>1. /\ LexerType /\ Correct /\ reading = "quoted"
      /\ Len(input) \in Nat /\ Len(returned) \in Nat /\ pos \in 1..(Len(input) + 1)
      /\ q \in Quotes \cup {"["}
      /\ \/ StrayUnderWay
         \/ UnderWay /\ Mode[pos] = q /\ Mode[pos - 1] \in {"code", q}
  BY <1>0 DEF LexerInv, InLoop, LexerType
<1>2. TypeAt(input, start) = type /\ type \in TokenTypes
  <2>1. type \in TokenTypes  BY DEF TokenTypes
  <2>2. q = "apostrophe" \/ q \in {"quote", "backtick", "["}  BY <1>1 DEF Quotes
  <2>3. TypeAt(input, start) = type  BY <2>2 DEF TypeAt, WordAtoms, Keywords
  <2> QED  BY <2>1, <2>3
<1>3. close \in Quotes <=> close # "]"  BY <1>1 DEF Quotes
<1>4. close \in Quotes => q = close  BY <1>1 DEF Quotes
<1>5. TypeAt(input, start) = TokenAt(tokens, Len(returned) + 1)
  BY <1>1, TokensHere DEF StrayUnderWay, UnderWay
<1>6. CASE pos > Len(input) /\ Return(type, pos)
  <2>1. LexerType' /\ Correct'  BY <1>1, <1>2, <1>5, <1>6, ReturnsNext
  <2>2. /\ input' = input /\ pos' = pos /\ tokens' = tokens /\ reading' = "nothing"
        /\ Mode' = Mode /\ Starts' = Starts /\ Unclosed' = Unclosed
        /\ Len(returned') = Len(returned) + 1 /\ pos = Len(input) + 1 /\ pos - 1 = Len(input)
    BY <1>1, <1>6 DEF Return, tokens, LexerType, Mode, Starts, Unclosed
  <2>3. Between'
    <3>1. CASE StrayUnderWay
      <4>1. Len(tokens') <= Len(returned')
        BY <1>1, <2>2, <3>1, TokensHere DEF StrayUnderWay
      <4>2. pos' = Len(input') + 1  BY <2>2
      <4> QED  BY <4>1, <4>2 DEF Between
    <3>2. CASE UnderWay /\ Mode[pos - 1] \in {"code", q}
      <4>1. ~Unclosed  BY <1>1, <2>2, <3>2 DEF Unclosed, Quotes
      <4>2. ~(pos' <= Len(input'))  BY <1>1, <2>2
      <4>3. AtToken(pos)'  BY <2>2, <4>1, <4>2 DEF AtToken
      <4>4. Returned(pos - 1)'  BY <1>1, <2>2, <3>2 DEF UnderWay, Returned
      <4> QED  BY <4>3, <4>4 DEF Between
    <3> QED  BY <1>1, <3>1, <3>2
  <2> QED  BY <2>1, <2>2, <2>3 DEF LexerInv, InLoop
<1>7. ASSUME pos <= Len(input)
      PROVE  /\ pos \in 1..Len(input) /\ input[pos] \in Atoms
             /\ UnderWay /\ Mode[pos] = q
             /\ Mode[pos + 1] = IF input[pos] = close THEN "code" ELSE q
             /\ pos \notin Starts /\ UpTo(Starts, pos) = UpTo(Starts, pos - 1)
  <2>1. pos \in 1..Len(input) /\ input[pos] \in Atoms  BY <1>1, <1>7 DEF LexerType
  <2>2. UnderWay /\ Mode[pos] = q  BY <1>1, <1>7 DEF StrayUnderWay
  <2>3. Mode[pos + 1] = NextMode(q, input[pos], Behind(input, pos))
    BY <1>1, <2>1, <2>2, OneChar
  <2>4. Mode[pos + 1] = IF input[pos] = close THEN "code" ELSE q
    <3>1. CASE q \in Quotes  BY <2>1, <2>3, <3>1, Modes DEF Quotes
    <3>2. CASE q = "["  BY <2>1, <2>3, <3>2, Modes
    <3> QED  BY <1>1, <3>1, <3>2
  <2>5. q # "code"  BY <1>1 DEF Quotes
  <2>6. pos \notin Starts /\ UpTo(Starts, pos) = UpTo(Starts, pos - 1)
    BY <1>1, <2>1, <2>2, <2>5, OneChar DEF Begins
  <2> QED  BY <2>1, <2>2, <2>4, <2>6
<1>8. CASE Is(pos, close) /\ ~doubled /\ Return(type, pos + 1)
  <2>1. pos <= Len(input) /\ input[pos] = close /\ pos + 1 \in 1..(Len(input) + 1)
    BY <1>1, <1>8 DEF Is
  <2>2. LexerType' /\ Correct'  BY <1>1, <1>2, <1>5, <1>8, <2>1, ReturnsNext
  <2>3. /\ input' = input /\ pos' = pos + 1 /\ reading' = "nothing"
        /\ Mode' = Mode /\ Starts' = Starts /\ Unclosed' = Unclosed
        /\ Len(returned') = Len(returned) + 1 /\ pos' - 1 = pos
    BY <1>1, <1>8 DEF Return, LexerType, Mode, Starts, Unclosed
  <2>4. q # "code" /\ q # "block"  BY <1>1 DEF Quotes
  <2>5. AtToken(pos + 1)
    <3>1. (pos + 1) - 1 = pos /\ (pos + 1 <= Len(input) \/ pos = Len(input))  BY <1>1, <2>1
    <3>2. pos = Len(input) => ~Unclosed  BY <1>7, <2>1, <2>4 DEF Unclosed
    <3>3. pos + 1 <= Len(input) => ~(q = input[pos + 1] /\ input[pos + 1] \in Quotes)
      BY <1>3, <1>8 DEF Is, Quotes
    <3> QED  BY <1>7, <2>1, <2>4, <3>1, <3>2, <3>3 DEF AtToken
  <2>6. Between'
    BY <1>7, <2>1, <2>3, <2>5 DEF Between, Returned, AtToken, UnderWay
  <2> QED  BY <2>2, <2>3, <2>6 DEF LexerInv, InLoop
<1>9. CASE Is(pos, close) /\ doubled /\ GoOn("quoted", pos + 2)
  <2>1. /\ pos <= Len(input) /\ input[pos] = close /\ pos + 1 \in 1..Len(input)
        /\ input[pos + 1] = close /\ close \in Quotes /\ pos + 2 \in 1..(Len(input) + 1)
        /\ (pos + 1) - 1 = pos /\ pos + 1 > 1
    BY <1>1, <1>3, <1>9 DEF Is
  <2>2. /\ LexerType' /\ Correct' /\ input' = input /\ returned' = returned
        /\ pos' = pos + 2 /\ reading' = "quoted" /\ start' = start
        /\ Mode' = Mode /\ Starts' = Starts /\ pos' - 1 = pos + 1
    BY <1>1, <1>9, <2>1, GoesOn
  <2>3. q = close  BY <1>4, <2>1
  <2>4. Mode[pos] = q /\ Mode[pos + 1] = "code"  BY <1>7, <2>1
  <2>5. Mode[pos + 2] = q
    <3>1. Mode[(pos + 1) + 1] = NextMode("code", q, Behind(input, pos + 1))
      BY <1>1, <2>1, <2>3, <2>4, OneChar
    <3>2. q \in Atoms  BY <2>1, <2>3 DEF Atoms
    <3>3. NextMode("code", q, Behind(input, pos + 1)) = q  BY <2>1, <2>3, <3>2, Modes
    <3>4. (pos + 1) + 1 = pos + 2  BY <1>1
    <3> QED  BY <3>1, <3>3, <3>4
  <2>6. pos + 1 \notin Starts
    BY <1>1, <2>1, <2>3, <2>4, OneChar DEF Begins
  <2>7. UpTo(Starts, pos + 1) = UpTo(Starts, pos)
    BY <1>1, <2>1, <2>6, OneChar
  <2>8. UnderWay'
    BY <1>1, <1>7, <2>1, <2>2, <2>7 DEF UnderWay, LexerType
  <2> HIDE DEF close, doubled, type
  <2> QED  BY <1>1, <2>2, <2>4, <2>5, <2>8 DEF LexerInv, InLoop
<1>10. CASE pos <= Len(input) /\ ~Is(pos, close) /\ GoOn("quoted", pos + 1)
  <2>1. input[pos] # close /\ pos + 1 \in 1..(Len(input) + 1)  BY <1>1, <1>10 DEF Is
  <2>2. /\ LexerType' /\ Correct' /\ input' = input /\ returned' = returned
        /\ pos' = pos + 1 /\ reading' = "quoted" /\ start' = start
        /\ Mode' = Mode /\ Starts' = Starts /\ pos' - 1 = pos
    BY <1>1, <1>10, <2>1, GoesOn
  <2>3. UnderWay'
    BY <1>1, <1>7, <1>10, <2>2 DEF UnderWay, LexerType
  <2> HIDE DEF close, doubled, type
  <2> QED  BY <1>1, <1>7, <1>10, <2>1, <2>2, <2>3 DEF LexerInv, InLoop
<1> QED  BY <1>6, <1>8, <1>9, <1>10 DEF ReadQuoted

LEMMA ReadWordKeeps ==
  ASSUME LexerInv, ReadWord
  PROVE  LexerInv'
<1> DEFINE type == IF input[start] \in Keywords /\ pos = start + 1 THEN input[start] ELSE "WORD"
<1>1. /\ LexerType /\ Correct /\ reading = "word"
      /\ Len(input) \in Nat /\ Len(returned) \in Nat /\ pos \in 1..(Len(input) + 1)
      /\ start \in 1..(Len(input) + 1) /\ input[start] \in WordAtoms
      /\ \/ StrayUnderWay
         \/ /\ UnderWay /\ Mode[pos] = "code"
            /\ \A j \in start..(pos - 1) : input[j] \in WordAtoms /\ Mode[j] = "code"
  BY DEF LexerInv, InLoop, ReadWord, LexerType
<1>2. TypeAt(input, start) = TokenAt(tokens, Len(returned) + 1)
  BY <1>1, TokensHere DEF StrayUnderWay, UnderWay
<1>3. CASE IsWordChar(pos) /\ GoOn("word", pos + 1)
  <2>1. pos \in 1..Len(input) /\ input[pos] \in WordAtoms /\ pos + 1 \in 1..(Len(input) + 1)
        /\ input[pos] \in Atoms
    BY <1>1, <1>3 DEF IsWordChar, Atoms
  <2>2. /\ LexerType' /\ Correct' /\ input' = input /\ returned' = returned
        /\ pos' = pos + 1 /\ reading' = "word" /\ start' = start
        /\ Mode' = Mode /\ Starts' = Starts /\ pos' - 1 = pos
    BY <1>1, <1>3, <2>1, GoesOn
  <2>3. /\ UnderWay /\ Mode[pos] = "code"
        /\ \A j \in start..(pos - 1) : input[j] \in WordAtoms /\ Mode[j] = "code"
    BY <1>1, <2>1 DEF StrayUnderWay
  <2>4. Mode[pos + 1] = "code"
    <3>1. Mode[pos + 1] = NextMode("code", input[pos], Behind(input, pos))
      BY <1>1, <2>1, <2>3, OneChar
    <3>2. input[pos] \notin Quotes \cup {"[", "-", "/"}  BY <2>1 DEF WordAtoms, Keywords, Quotes
    <3> QED  BY <2>1, <3>1, <3>2, Modes
  <2>5. pos \notin Starts
    <3>1. pos - 1 \in start..(pos - 1) /\ pos > 1  BY <1>1, <2>3 DEF UnderWay
    <3> QED  BY <1>1, <2>1, <2>3, <3>1, OneChar DEF Begins
  <2>6. UpTo(Starts, pos) = UpTo(Starts, pos - 1)  BY <1>1, <2>1, <2>5, OneChar
  <2>7. UnderWay'  BY <1>1, <2>2, <2>3, <2>6 DEF UnderWay
  <2>8. \A j \in start..pos : input[j] \in WordAtoms /\ Mode[j] = "code"
    <3>1. \A j \in start..pos : j = pos \/ j \in start..(pos - 1)  BY <1>1
    <3> QED  BY <2>1, <2>3, <3>1
  <2> QED  BY <1>1, <2>2, <2>4, <2>7, <2>8 DEF LexerInv, InLoop
<1>4. CASE ~IsWordChar(pos) /\ Return(type, pos)
  <2>1. TypeAt(input, start) = type
    <3>1. TypeAt(input, start) =
            IF input[start] \in Keywords /\ Behind(input, start) \notin WordAtoms THEN input[start] ELSE "WORD"
      <4>1. input[start] \notin Quotes \cup {"["}  BY <1>1 DEF WordAtoms, Keywords, Quotes
      <4> QED  BY <1>1, <4>1 DEF TypeAt, Quotes
    <3>2. "nothing" \notin WordAtoms  BY DEF WordAtoms, Keywords
    <3>3. CASE StrayUnderWay
      BY <3>1, <3>2, <3>3 DEF StrayUnderWay, Behind
    <3>4. CASE UnderWay /\ \A j \in start..(pos - 1) : input[j] \in WordAtoms
      <4>1. CASE pos = start + 1
        BY <1>1, <1>4, <3>1, <3>2, <4>1 DEF Behind, IsWordChar
      <4>2. CASE pos # start + 1
        <5>1. start + 1 \in start..(pos - 1) /\ start < Len(input)
          BY <1>1, <3>4, <4>2 DEF UnderWay
        <5> QED  BY <3>1, <3>4, <4>2, <5>1 DEF Behind
      <4> QED  BY <4>1, <4>2
    <3> QED  BY <1>1, <3>3, <3>4
  <2>2. type \in TokenTypes  BY DEF TokenTypes
  <2>3. LexerType' /\ Correct'  BY <1>1, <1>2, <1>4, <2>1, <2>2, ReturnsNext
  <2>4. /\ input' = input /\ pos' = pos /\ tokens' = tokens /\ reading' = "nothing"
        /\ Mode' = Mode /\ Starts' = Starts /\ Unclosed' = Unclosed
        /\ Len(returned') = Len(returned) + 1
    BY <1>1, <1>4 DEF Return, tokens, LexerType, Mode, Starts, Unclosed
  <2>5. Between'
    <3>1. CASE StrayUnderWay
      <4>1. Len(tokens') <= Len(returned')
        BY <1>1, <2>4, <3>1, TokensHere DEF StrayUnderWay
      <4>2. pos' = Len(input') + 1  BY <2>4, <3>1 DEF StrayUnderWay
      <4> QED  BY <4>1, <4>2 DEF Between
    <3>2. CASE /\ UnderWay /\ Mode[pos] = "code"
               /\ \A j \in start..(pos - 1) : input[j] \in WordAtoms /\ Mode[j] = "code"
      <4>1. pos - 1 \in start..(pos - 1) /\ pos > 1  BY <1>1, <3>2 DEF UnderWay
      <4>2. Mode[pos - 1] = "code"  BY <3>2, <4>1
      <4>3. pos > Len(input) => ~Unclosed
        <5>1. pos > Len(input) => pos - 1 = Len(input)  BY <1>1
        <5> QED  BY <4>2, <5>1 DEF Unclosed
      <4>4. AtToken(pos)
        BY <1>1, <1>4, <3>2, <4>2, <4>3 DEF AtToken, IsWordChar, Quotes
      <4> QED  BY <2>4, <3>2, <4>4 DEF Between, Returned, AtToken, UnderWay
    <3> QED  BY <1>1, <3>1, <3>2
  <2> QED  BY <2>3, <2>4, <2>5 DEF LexerInv, InLoop
<1> QED  BY <1>3, <1>4 DEF ReadWord

(* Each step of the lexer keeps what holds in its loops.                   *)
LEMMA LexerKeeps ==
  ASSUME LexerInv, LexerStep
  PROVE  LexerInv'
BY SkipSpaceKeeps, SkipLineKeeps, SkipBlockKeeps, SwitchKeeps, ReadQuotedKeeps, ReadWordKeeps
DEF LexerStep

-----------------------------------------------------------------------------
(* The inductive invariant. *)

\* The n-th token of the text; behind the last one is the end.
Tok(n) == TokenAt(tokens, n)

\* How many tokens ClassifySQL has read for good.
Read == taken - Len(buf)

(* What is pushed back are the last tokens taken, the next one on top, and *)
(* there are two of them only below the name of a schema.                  *)
PushedBack ==
  /\ \A j \in 1..Len(buf) : buf[j] = Tok(taken - j + 1)
  /\ at \notin {"rest", "done"} => buf = <<>>
  /\ Len(buf) = 2 => buf[2] \in SchemaNames

\* The place n leads a statement, and is a VACUUM.
VacuumAt(n) == n \in Firsts(tokens) /\ tokens[n] = "VACUUM"

\* Where ClassifySQL is in the text.
Position ==
  /\ at = "leader" => Read = 0 \/ Tok(Read) = "semicolon"
  /\ at = "rest" => Read <= Len(tokens) + 1
  /\ at = "with" => Read <= Len(tokens)
  /\ at = "into" => VacuumAt(Read)
  /\ at = "schema" => VacuumAt(Read - 1) /\ Tok(Read) \in SchemaNames /\ first = Tok(Read)
  /\ result = "refused" => \E b \in Firsts(tokens) : Refused(tokens, b)
  /\ result # "none" <=> at = "done"
  /\ at = "done" /\ result # "refused" =>
       result = IF stmtKeywords = <<>> THEN "empty" ELSE Highest(stmtKeywords)

\* The parentheses opened and not closed from m to n.
Open(tok, m, n) == CountOf(tok, "(", m, n) - CountOf(tok, ")", m, n)

\* d is how many of them there are behind n, in the statement at b.
DepthIs(tok, b, n, d) ==
  /\ \A m \in b..n : Open(tok, m, n) <= d
  /\ d = 0 \/ \E m \in b..n : Open(tok, m, n) = d

\* The keywords are those of the leaders up to n, in order.
Rank(tok, p) == UpTo(LeaderPlaces(tok), p)
FoundUpTo(tok, keywords, n) ==
  /\ Len(keywords) = Rank(tok, n)
  /\ \A p \in LeaderPlaces(tok) : p <= n => keywords[Rank(tok, p)] = tok[p]
  /\ \A i \in 1..Len(keywords) : \E p \in LeaderPlaces(tok) : p <= n /\ Rank(tok, p) = i

\* No statement that begins up to n is refused.
NoneRefused(tok, n) == \A b \in Firsts(tok) : b <= n => ~Refused(tok, b)

FoundAll(tok, keywords, n) == FoundUpTo(tok, keywords, n) /\ NoneRefused(tok, n)

\* Behind n, a semicolon comes before the next leader.
NextBehindSemicolon(tok, n) ==
  \A p \in LeaderPlaces(tok) : p > n => \E m \in (n + 1)..(p - 1) : tok[m] = "semicolon"

\* resolveWithBody, in a statement that has a body, is in front of it.
InWith(tok, n, d) ==
  \E b \in Withs(tok) : /\ b <= n /\ \E e \in Body(tok, b) : e > n
                       /\ DepthIs(tok, b, n, d)

(* What has been found when so much is read. *)
Progress ==
  /\ at \in {"leader", "rest", "with"} => FoundAll(tokens, stmtKeywords, Read)
  /\ at = "into" => FoundAll(tokens, stmtKeywords, Read - 1)
  /\ at = "schema" => FoundAll(tokens, stmtKeywords, Read - 2)
  /\ at = "rest" => NextBehindSemicolon(tokens, Read)
  /\ at = "with" => InWith(tokens, Read, depth)
  /\ at = "done" /\ result # "refused" => FoundAll(tokens, stmtKeywords, Len(tokens))

(* The keywords begin with those of the leaders up to n.                   *)
FoundPrefix(tok, keywords, n) ==
  /\ Rank(tok, n) <= Len(keywords)
  /\ \A p \in LeaderPlaces(tok) : p <= n => keywords[Rank(tok, p)] = tok[p]

(* A WITH without a keyword of its own was read: what had been found up to *)
(* it stays found.                                                         *)
Lost ==
  \E w \in Withs(tokens) : /\ Body(tokens, w) = {}
                           /\ FoundPrefix(tokens, stmtKeywords, w)
                           /\ NoneRefused(tokens, w)

(* A leader counts if its keyword is among those found and it is not       *)
(* refused; each up to n does that is not read over.                       *)
Counts(tok, keywords, p) ==
  /\ \E i \in 1..Len(keywords) : keywords[i] = tok[p]
  /\ p \in Firsts(tok) => ~Refused(tok, p)

CountedUpTo(tok, keywords, n) ==
  \A p \in LeaderPlaces(tok) : p <= n => Counts(tok, keywords, p) \/ ReadOver(tok, p)

\* resolveWithBody reads on, in the statement of its WITH or behind it.
ReadingOn(tok, n, d) ==
  \E w \in Withs(tok) : /\ w <= n /\ DepthIs(tok, w, n, d)
                        /\ \A m \in w..n : tok[m] \in DML => Enclosed(tok, w, m)

(* What is counted when so much is read, whatever each WITH has.           *)
Counted ==
  /\ at \in {"leader", "rest", "with"} => CountedUpTo(tokens, stmtKeywords, Read)
  /\ at = "into" => CountedUpTo(tokens, stmtKeywords, Read - 1)
  /\ at = "schema" => CountedUpTo(tokens, stmtKeywords, Read - 2)
  /\ at = "rest" => NextBehindSemicolon(tokens, Read)
  /\ at = "with" => ReadingOn(tokens, Read, depth)
  /\ at = "done" /\ result # "refused" => CountedUpTo(tokens, stmtKeywords, Len(tokens))

(* The lexer is called only if nothing is pushed back, and no more than    *)
(* once behind the end of the text.                                        *)
InCall ==
  /\ reading # "nothing" => buf = <<>> /\ taken = Len(returned) /\ at # "done"
  /\ Len(returned) <= Len(tokens) + 2

Stack == TypeOK /\ LexerInv /\ PushedBack

IInv == Stack /\ InCall /\ Position /\ (Progress \/ Lost) /\ Counted

-----------------------------------------------------------------------------
(* Statements and their leaders. *)

(* The leaders are among the tokens, so there are finitely many.           *)
LEMMA LeadersAreTokens ==
  ASSUME NEW tok \in Found
  PROVE  /\ LeaderPlaces(tok) \subseteq 1..Len(tok)
         /\ IsFiniteSet(LeaderPlaces(tok))
         /\ \A p \in LeaderPlaces(tok) : tok[p] \in TokenTypes \ {"EOF", "semicolon"}
<1>1. Len(tok) \in Nat  BY DEF Found
<1>2. LeaderPlaces(tok) \subseteq 1..Len(tok)
  BY DEF LeaderPlaces, Firsts, Body
<1>3. IsFiniteSet(1..Len(tok))  BY <1>1, FS_Interval
<1>4. IsFiniteSet(LeaderPlaces(tok))  BY <1>2, <1>3, FS_Subset
<1>5. ASSUME NEW p \in LeaderPlaces(tok)  PROVE tok[p] \in TokenTypes \ {"EOF", "semicolon"}
  <2>1. tok[p] \in TokenTypes \ {"EOF"}  BY <1>2 DEF Found
  <2>2. tok[p] # "semicolon"
    BY DEF LeaderPlaces, Firsts, Body, DML
  <2> QED  BY <2>1, <2>2
<1> QED  BY <1>2, <1>4, <1>5

(* The rank grows by one at a leader, and nowhere else.                    *)
LEMMA RankStep ==
  ASSUME NEW tok \in Found, NEW n \in Nat
  PROVE  /\ Rank(tok, n) \in Nat
         /\ Rank(tok, n + 1) = IF n + 1 \in LeaderPlaces(tok) THEN Rank(tok, n) + 1
                                                             ELSE Rank(tok, n)
<1>1. (\A q \in LeaderPlaces(tok) : q \in Nat) /\ IsFiniteSet(LeaderPlaces(tok))
  BY LeadersAreTokens
<1> QED  BY <1>1, UpToStep DEF Rank

LEMMA RankBounds ==
  ASSUME NEW tok \in Found, NEW n \in Nat, NEW p \in LeaderPlaces(tok), p <= n
  PROVE  Rank(tok, p) \in 1..Rank(tok, n)
<1>1. (\A q \in LeaderPlaces(tok) : q \in Nat) /\ IsFiniteSet(LeaderPlaces(tok))
  BY LeadersAreTokens
<1> QED  BY <1>1, UpToBounds DEF Rank

(* Reading a token that does not lead leaves what has been found.          *)
LEMMA FoundSkip ==
  ASSUME NEW tok \in Found, NEW keywords, NEW n \in Nat,
         FoundAll(tok, keywords, n), n + 1 \notin LeaderPlaces(tok)
  PROVE  FoundAll(tok, keywords, n + 1)
<1>1. \A p \in LeaderPlaces(tok) : p <= n + 1 <=> p <= n
  BY LeadersAreTokens
<1>2. Rank(tok, n + 1) = Rank(tok, n)  BY RankStep
<1>3. FoundUpTo(tok, keywords, n + 1)
  BY <1>1, <1>2 DEF FoundAll, FoundUpTo
<1>4. Firsts(tok) \subseteq LeaderPlaces(tok)  BY DEF LeaderPlaces
<1> QED  BY <1>1, <1>3, <1>4 DEF FoundAll, NoneRefused

(* Appending the keyword of a leader that is not refused adds it.          *)
LEMMA FoundLeader ==
  ASSUME NEW tok \in Found, NEW n \in Nat,
         NEW keywords \in Seq(TokenTypes \ {"EOF", "semicolon"}),
         FoundAll(tok, keywords, n), n + 1 \in LeaderPlaces(tok),
         n + 1 \in Firsts(tok) => ~Refused(tok, n + 1)
  PROVE  FoundAll(tok, Append(keywords, tok[n + 1]), n + 1)
<1> DEFINE new == Append(keywords, tok[n + 1])
<1>0. LeaderPlaces(tok) \subseteq Nat  BY LeadersAreTokens
<1>1. Rank(tok, n) \in Nat /\ Rank(tok, n + 1) = Rank(tok, n) + 1  BY RankStep
<1>2. Len(keywords) = Rank(tok, n)  BY DEF FoundAll, FoundUpTo
<1>3. Len(new) = Rank(tok, n + 1)  BY <1>1, <1>2
<1>4. \A i \in 1..Len(keywords) : new[i] = keywords[i]  OBVIOUS
<1>5. new[Rank(tok, n + 1)] = tok[n + 1]  BY <1>1, <1>2
<1>6. ASSUME NEW p \in LeaderPlaces(tok), p <= n + 1  PROVE new[Rank(tok, p)] = tok[p]
  <2>1. CASE p = n + 1  BY <2>1, <1>5
  <2>2. CASE p <= n
    <3>1. Rank(tok, p) \in 1..Len(keywords)  BY <2>2, <1>2, RankBounds
    <3>2. keywords[Rank(tok, p)] = tok[p]  BY <2>2 DEF FoundAll, FoundUpTo
    <3> QED  BY <3>1, <3>2, <1>4
  <2>3. p = n + 1 \/ p <= n  BY <1>0, <1>6
  <2> QED  BY <2>1, <2>2, <2>3
<1>7. ASSUME NEW i \in 1..Len(new)
      PROVE  \E p \in LeaderPlaces(tok) : p <= n + 1 /\ Rank(tok, p) = i
  <2>1. CASE i = Rank(tok, n + 1)  BY <2>1
  <2>2. CASE i # Rank(tok, n + 1)
    <3>1. i \in 1..Len(keywords)  BY <2>2, <1>1, <1>2, <1>3
    <3>2. PICK p \in LeaderPlaces(tok) : p <= n /\ Rank(tok, p) = i
      BY <3>1 DEF FoundAll, FoundUpTo
    <3> QED  BY <3>2, <1>0
  <2> QED  BY <2>1, <2>2
<1>8. FoundUpTo(tok, new, n + 1)
  BY <1>3, <1>6, <1>7 DEF FoundUpTo
<1>9. NoneRefused(tok, n + 1)
  BY <1>0 DEF FoundAll, NoneRefused, LeaderPlaces
<1> QED  BY <1>8, <1>9 DEF FoundAll

(* Behind a place in a statement, the leader of another statement comes    *)
(* only behind a semicolon.                                                *)
LEMMA Separate ==
  ASSUME NEW tok \in Found, NEW b \in Firsts(tok), NEW n \in Nat, Within(tok, b, n),
         NEW p \in LeaderPlaces(tok), p > n
  PROVE  \/ \E m \in (n + 1)..(p - 1) : tok[m] = "semicolon"
         \/ tok[b] = "WITH" /\ p \in Body(tok, b)
<1>0. p \in 1..Len(tok) /\ b \in 1..Len(tok) /\ Len(tok) \in Nat
  BY LeadersAreTokens DEF Firsts, Found
<1>1. b <= n /\ \A m \in b..n : tok[m] # "semicolon"  BY DEF Within
<1>2. ASSUME NEW c \in Firsts(tok), c > n, c <= p
      PROVE  \E m \in (n + 1)..(p - 1) : tok[m] = "semicolon"
  <2>1. c \in Nat /\ c # 1 /\ tok[c - 1] = "semicolon"  BY <1>0, <1>1, <1>2 DEF Firsts
  <2>2. c - 1 # n  BY <1>0, <1>1, <2>1
  <2> QED  BY <1>0, <1>2, <2>1, <2>2
<1>3. CASE p \in Firsts(tok)  BY <1>3, <1>2, <1>0
<1>4. CASE p \notin Firsts(tok)
  <2>1. PICK c \in Firsts(tok) : tok[c] = "WITH" /\ p \in Body(tok, c)
    BY <1>4 DEF LeaderPlaces, Withs
  <2>2. c \in 1..Len(tok) /\ c <= p /\ \A m \in c..p : tok[m] # "semicolon"
    BY <2>1 DEF Body, Within, Firsts
  <2>3. CASE c > n  BY <2>2, <2>3, <1>2
  <2>4. CASE c <= n /\ c > b
    <3>1. tok[c - 1] = "semicolon"  BY <1>0, <2>2, <2>4 DEF Firsts
    <3>2. c - 1 \in b..n  BY <1>0, <2>2, <2>4
    <3> QED  BY <3>1, <3>2, <1>1
  <2>5. CASE c < b
    <3>1. tok[b - 1] = "semicolon"  BY <1>0, <2>2, <2>5 DEF Firsts
    <3>2. b - 1 \in c..p  BY <1>0, <1>1, <2>2, <2>5
    <3> QED  BY <3>1, <3>2, <2>2
  <2>6. CASE c = b  BY <2>1, <2>6
  <2> QED  BY <1>0, <2>2, <2>3, <2>4, <2>5, <2>6
<1> QED  BY <1>3, <1>4

(* A statement other than a WITH has one leader, its first token.          *)
LEMMA LeaderAlone ==
  ASSUME NEW tok \in Found, NEW b \in Firsts(tok), tok[b] # "WITH"
  PROVE  NextBehindSemicolon(tok, b)
<1>1. Within(tok, b, b) /\ b \in Nat  BY DEF Firsts, Within
<1> QED  BY <1>1, Separate DEF NextBehindSemicolon

(* Behind a semicolon, a token other than a semicolon begins a statement.  *)
LEMMA FirstBehind ==
  ASSUME NEW tok \in Found, NEW n \in Nat, n + 1 <= Len(tok), n = 0 \/ tok[n] = "semicolon",
         tok[n + 1] # "semicolon"
  PROVE  n + 1 \in Firsts(tok)
BY DEF Firsts, Found

(* Nothing leads right behind a place where a semicolon is still to come.  *)
LEMMA NoLeaderYet ==
  ASSUME NEW tok \in Found, NEW n \in Nat, NextBehindSemicolon(tok, n)
  PROVE  n + 1 \notin LeaderPlaces(tok)
<1>1. \A m \in (n + 1)..((n + 1) - 1) : FALSE  OBVIOUS
<1> QED  BY <1>1 DEF NextBehindSemicolon

LEMMA NextBehindSkipped ==
  ASSUME NEW tok \in Found, NEW n \in Nat, NextBehindSemicolon(tok, n),
         n + 1 <= Len(tok) => tok[n + 1] # "semicolon"
  PROVE  NextBehindSemicolon(tok, n + 1)
<1> SUFFICES ASSUME NEW p \in LeaderPlaces(tok), p > n + 1
             PROVE  \E m \in (n + 2)..(p - 1) : tok[m] = "semicolon"
  BY DEF NextBehindSemicolon
<1>1. p \in 1..Len(tok) /\ Len(tok) \in Nat  BY LeadersAreTokens DEF Found
<1>2. PICK m \in (n + 1)..(p - 1) : tok[m] = "semicolon"
  BY <1>1 DEF NextBehindSemicolon
<1>3. m # n + 1  BY <1>1, <1>2
<1> QED  BY <1>1, <1>2, <1>3

-----------------------------------------------------------------------------
(* The body of a WITH. *)

(* One more token opens a parenthesis, closes one, or does neither.        *)
LEMMA CountStep ==
  ASSUME NEW tok, NEW type, NEW m \in Nat, NEW n \in Nat, m <= n + 1
  PROVE  /\ CountOf(tok, type, m, n) \in Nat
         /\ CountOf(tok, type, m, n + 1) =
              CountOf(tok, type, m, n) + IF tok[n + 1] = type THEN 1 ELSE 0
<1> DEFINE upTo(k) == {i \in m..k : tok[i] = type}
<1>0. /\ CountOf(tok, type, m, n) = Cardinality(upTo(n))
      /\ CountOf(tok, type, m, n + 1) = Cardinality(upTo(n + 1))
  BY DEF CountOf
<1>1. IsFiniteSet(upTo(n))
  <2>1. IsFiniteSet(m..n)  BY FS_Interval
  <2>2. upTo(n) \in SUBSET (m..n)  OBVIOUS
  <2> QED  BY <2>1, <2>2, FS_Subset
<1>2. Cardinality(upTo(n)) \in Nat  BY <1>1, FS_CardinalityType
<1>3. CASE tok[n + 1] = type
  <2>1. upTo(n + 1) = upTo(n) \cup {n + 1}  BY <1>3
  <2>2. n + 1 \notin upTo(n)  OBVIOUS
  <2>3. Cardinality(upTo(n + 1)) = Cardinality(upTo(n)) + 1
    BY <1>1, <2>1, <2>2, FS_AddElement
  <2> QED  BY <1>0, <1>2, <1>3, <2>3
<1>4. CASE tok[n + 1] # type
  <2>1. upTo(n + 1) = upTo(n)  BY <1>4
  <2> HIDE DEF upTo
  <2> QED  BY <1>0, <1>2, <1>4, <2>1
<1> QED  BY <1>3, <1>4

LEMMA OpenStep ==
  ASSUME NEW tok, NEW m \in Nat, NEW n \in Nat, m <= n + 1
  PROVE  /\ Open(tok, m, n) \in Int
         /\ Open(tok, m, n + 1) = Open(tok, m, n) +
              IF tok[n + 1] = "(" THEN 1 ELSE IF tok[n + 1] = ")" THEN -1 ELSE 0
BY CountStep DEF Open

LEMMA NothingOpenBefore ==
  ASSUME NEW tok, NEW n \in Nat
  PROVE  Open(tok, n + 1, n) = 0
<1>1. ASSUME NEW type  PROVE CountOf(tok, type, n + 1, n) = 0
  <2>1. {i \in (n + 1)..n : tok[i] = type} = {}  OBVIOUS
  <2> QED  BY <2>1, FS_EmptySet DEF CountOf
<1>2. CountOf(tok, "(", n + 1, n) = 0 /\ CountOf(tok, ")", n + 1, n) = 0  BY <1>1
<1> QED  BY <1>2 DEF Open

\* What resolveWithBody makes of its depth when it reads a token.
After(token, d) ==
  IF token = "(" THEN d + 1 ELSE IF token = ")" /\ d > 0 THEN d - 1 ELSE d

LEMMA DepthStep ==
  ASSUME NEW tok, NEW b \in Nat, NEW n \in Nat, b <= n, NEW d \in Nat, DepthIs(tok, b, n, d)
  PROVE  DepthIs(tok, b, n + 1, After(tok[n + 1], d))
<1> DEFINE e == After(tok[n + 1], d)
<1>1. Open(tok, n + 1, n + 1) = IF tok[n + 1] = "(" THEN 1 ELSE IF tok[n + 1] = ")" THEN -1 ELSE 0
  BY OpenStep, NothingOpenBefore
<1>2. \A m \in b..n : m \in Nat /\ m <= n + 1  OBVIOUS
<1>3. \A m \in b..n : Open(tok, m, n) \in Int /\ Open(tok, m, n) <= d
  BY <1>2, OpenStep DEF DepthIs
<1>4. \A m \in b..n : Open(tok, m, n + 1) <= e
  BY <1>2, <1>3, OpenStep DEF After
<1>5. \A m \in b..(n + 1) : Open(tok, m, n + 1) <= e
  BY <1>1, <1>4 DEF After
<1>6. e = 0 \/ \E m \in b..(n + 1) : Open(tok, m, n + 1) = e
  <2>1. CASE d = 0
    BY <2>1, <1>1 DEF After
  <2>2. CASE d # 0
    <3>1. PICK m \in b..n : Open(tok, m, n) = d  BY <2>2 DEF DepthIs
    <3>2. Open(tok, m, n + 1) = e
      BY <2>2, <3>1, <1>2, OpenStep DEF After
    <3> QED  BY <3>2
  <2> QED  BY <2>1, <2>2
<1> QED  BY <1>5, <1>6 DEF DepthIs

(* The depth is what encloses the next token.                              *)
LEMMA DepthEncloses ==
  ASSUME NEW tok, NEW b \in Nat, NEW n \in Nat, NEW d \in Nat, DepthIs(tok, b, n, d)
  PROVE  Enclosed(tok, b, n + 1) <=> d > 0
<1>1. \A m \in b..n : /\ CountOf(tok, "(", m, n) \in Nat /\ CountOf(tok, ")", m, n) \in Nat
                      /\ m \in Nat /\ m <= n + 1
  BY CountStep
<1>2. Enclosed(tok, b, n + 1) <=> \E m \in b..n : Open(tok, m, n) > 0
  BY <1>1 DEF Enclosed, Open
<1>3. \A m \in b..n : Open(tok, m, n) \in Int  BY <1>1 DEF Open
<1> QED  BY <1>2, <1>3 DEF DepthIs

(* In front of the body nothing leads.                                     *)
LEMMA NoLeaderInWith ==
  ASSUME NEW tok \in Found, NEW n \in Nat, NEW d \in Nat, InWith(tok, n, d),
         tok[n + 1] \in DML => d > 0
  PROVE  /\ n + 1 \notin LeaderPlaces(tok)
         /\ InWith(tok, n + 1, After(tok[n + 1], d))
<1>1. PICK b \in Withs(tok) : /\ b <= n /\ \E e \in Body(tok, b) : e > n
                              /\ DepthIs(tok, b, n, d)
  BY DEF InWith
<1>2. PICK e \in Body(tok, b) : e > n  BY <1>1
<1>3. /\ b \in Firsts(tok) /\ b \in Nat /\ tok[b] = "WITH"
      /\ e \in Nat /\ Within(tok, b, e)
  BY DEF Withs, Firsts, Body
<1>4. Within(tok, b, n)  BY <1>1, <1>2, <1>3 DEF Within, Found
<1>5. n + 1 \notin Body(tok, b)
  <2>1. tok[n + 1] \in DML => Enclosed(tok, b, n + 1)
    BY <1>1, <1>3, DepthEncloses
  <2> QED  BY <2>1 DEF Body
<1>6. n + 1 \notin LeaderPlaces(tok)
  <2>1. \A m \in (n + 1)..((n + 1) - 1) : FALSE  OBVIOUS
  <2> QED  BY <1>3, <1>4, <1>5, <2>1, Separate
<1>7. e > n + 1  BY <1>2, <1>3, <1>5
<1>8. DepthIs(tok, b, n + 1, After(tok[n + 1], d))  BY <1>1, <1>3, DepthStep
<1>9. b <= n + 1  BY <1>1, <1>3
<1> QED  BY <1>6, <1>7, <1>8, <1>9 DEF InWith

(* The keyword that resolveWithBody takes is the body, and leads; behind   *)
(* it, nothing else of the statement does.                                 *)
LEMMA BodyLeads ==
  ASSUME NEW tok \in Found, NEW n \in Nat, InWith(tok, n, 0), tok[n + 1] \in DML
  PROVE  /\ n + 1 \in LeaderPlaces(tok) /\ n + 1 \notin Firsts(tok)
         /\ NextBehindSemicolon(tok, n + 1)
<1>1. PICK b \in Withs(tok) : /\ b <= n /\ \E e \in Body(tok, b) : e > n
                              /\ DepthIs(tok, b, n, 0)
  BY DEF InWith
<1>2. PICK e \in Body(tok, b) : e > n  BY <1>1
<1>3. /\ b \in Firsts(tok) /\ b \in Nat /\ tok[b] = "WITH"
      /\ e \in 1..Len(tok) /\ Within(tok, b, e) /\ Len(tok) \in Nat
  BY DEF Withs, Firsts, Body, Found
<1>4. Within(tok, b, n + 1) /\ Within(tok, b, n)
  BY <1>1, <1>2, <1>3 DEF Within
<1>5. ~Enclosed(tok, b, n + 1)  BY <1>1, <1>3, DepthEncloses
<1>6. \A m \in b..((n + 1) - 1) : tok[m] \in DML => Enclosed(tok, b, m)
  <2>1. \A m \in b..(e - 1) : tok[m] \in DML => Enclosed(tok, b, m)  BY DEF Body
  <2> QED  BY <1>2, <1>3, <2>1
<1>7. n + 1 \in Body(tok, b)
  BY <1>2, <1>3, <1>4, <1>5, <1>6 DEF Body
<1>8. n + 1 \in LeaderPlaces(tok)  BY <1>7 DEF LeaderPlaces
<1>9. n + 1 \notin Firsts(tok)
  BY <1>1, <1>3, <1>4 DEF Firsts, Within
<1>10. ASSUME NEW p \in LeaderPlaces(tok), p > n + 1
       PROVE  \E m \in ((n + 1) + 1)..(p - 1) : tok[m] = "semicolon"
  <2>1. p \notin Body(tok, b)
    <3>1. n + 1 \in b..(p - 1)  BY <1>1, <1>3, <1>10, LeadersAreTokens
    <3> QED  BY <3>1, <1>5 DEF Body
  <2> QED  BY <1>3, <1>4, <1>10, <2>1, Separate
<1> QED  BY <1>8, <1>9, <1>10 DEF NextBehindSemicolon

(* Behind WITH itself no parenthesis is open.                              *)
LEMMA WithBegins ==
  ASSUME NEW tok \in Found, NEW b \in Withs(tok), Body(tok, b) # {}
  PROVE  InWith(tok, b, 0)
<1>1. b \in Nat /\ b # 0 /\ tok[b] = "WITH"  BY DEF Withs, Firsts
<1>2. PICK e \in Body(tok, b) : TRUE  OBVIOUS
<1>3. e \in Nat /\ e >= b /\ tok[e] \in DML  BY DEF Body, Within
<1>4. e > b  BY <1>1, <1>3 DEF DML
<1>5. Open(tok, b, b) = 0
  <2>1. b - 1 \in Nat /\ (b - 1) + 1 = b  BY <1>1
  <2>2. Open(tok, b, b - 1) = 0  BY <2>1, NothingOpenBefore
  <2> QED  BY <1>1, <2>1, <2>2, OpenStep
<1>6. DepthIs(tok, b, b, 0)  BY <1>1, <1>5 DEF DepthIs
<1> QED  BY <1>1, <1>4, <1>6 DEF InWith

-----------------------------------------------------------------------------
(* Taking tokens. *)

(* The next token is the one behind those read.                            *)
LEMMA ReadIs ==
  ASSUME TypeOK
  PROVE  /\ Read \in Nat /\ tokens \in Found /\ Len(tokens) \in Nat
         /\ Len(buf) \in Nat /\ taken \in Nat /\ Len(returned) \in Nat
         /\ \A n \in 1..Len(tokens) : tokens[n] # "EOF"
<1>1. Len(buf) \in Nat /\ taken \in Nat /\ Len(returned) \in Nat /\ Read \in Nat
  BY DEF TypeOK, Read
<1>2. tokens \in Found  BY TokensAre DEF TypeOK, tokens
<1> QED  BY <1>1, <1>2 DEF Found

LEMMA NextIs ==
  ASSUME Stack, Ready
  PROVE  /\ Read \in Nat /\ tokens \in Found /\ Len(tokens) \in Nat
         /\ NextToken = Tok(Read + 1) /\ NextToken \in TokenTypes
         /\ NextToken # "EOF" <=> Read + 1 <= Len(tokens)
<1>0. TypeOK /\ Correct /\ PushedBack  BY DEF Stack, LexerInv
<1>1. /\ Read \in Nat /\ tokens \in Found /\ Len(tokens) \in Nat /\ Len(buf) \in Nat
      /\ taken \in Nat /\ Len(returned) \in Nat
  BY <1>0, ReadIs
<1>2. NextToken = Tok(Read + 1)
  <2>1. CASE buf = <<>>
    <3>1. Len(buf) = 0  BY <2>1
    <3>2. taken + 1 \in 1..Len(returned)  BY <1>0, <1>1, <2>1 DEF Ready, TypeOK
    <3>3. NextToken = Tok(taken + 1)  BY <1>0, <2>1, <3>2 DEF Correct, NextToken, Tok
    <3> QED  BY <3>1, <3>3, <1>1 DEF Read
  <2>2. CASE buf # <<>>
    <3>1. Len(buf) \in 1..Len(buf)  BY <1>0, <2>2 DEF TypeOK
    <3>2. Last(buf) = Tok(taken - Len(buf) + 1)  BY <1>0, <3>1 DEF PushedBack, Last
    <3> QED  BY <2>2, <3>2, <1>1 DEF NextToken, Read
  <2> QED  BY <2>1, <2>2
<1>3. Read + 1 <= Len(tokens) => Tok(Read + 1) \in TokenTypes \ {"EOF"}
  <2>1. Read + 1 <= Len(tokens) => Read + 1 \in 1..Len(tokens)  BY <1>1
  <2> QED  BY <1>1, <2>1 DEF Tok, TokenAt, Found
<1>4. Read + 1 > Len(tokens) => Tok(Read + 1) = "EOF"  BY <1>1 DEF Tok, TokenAt
<1>5. "EOF" \in TokenTypes  BY DEF TokenTypes
<1> QED  BY <1>1, <1>2, <1>3, <1>4, <1>5

LEMMA ReadBound ==
  ASSUME TypeOK, Position, at # "done"
  PROVE  Read <= Len(tokens) + 1
<1>1. Read \in Nat /\ Len(tokens) \in Nat  BY ReadIs
<1>2. Tok(Read) # "EOF" => Read <= Len(tokens)  BY <1>1 DEF Tok, TokenAt
<1>3. CASE at = "leader"  BY <1>1, <1>2, <1>3 DEF Position
<1>4. CASE at \in {"rest", "with"}  BY <1>1, <1>4 DEF Position
<1>5. CASE at = "into"
  BY <1>1, <1>5 DEF Position, VacuumAt, Firsts
<1>6. CASE at = "schema"
  BY <1>1, <1>2, <1>6 DEF Position, SchemaNames
<1> QED  BY <1>3, <1>4, <1>5, <1>6 DEF TypeOK

LEMMA FrontIs ==
  ASSUME NEW S, NEW s \in Seq(S), NEW n \in Nat, Len(s) = n + 1
  PROVE  /\ Front(s) \in Seq(S) /\ Len(Front(s)) = n
         /\ \A j \in 1..n : Front(s)[j] = s[j]
<1>1. Front(s) = SubSeq(s, 1, n)
  <2>1. Len(s) - 1 = n  OBVIOUS
  <2> QED  BY <2>1 DEF Front
<1>2. \A j \in 1..n : s[j] \in S  OBVIOUS
<1>3. SubSeq(s, 1, n) \in Seq(S)  BY <1>2, SubSeqProperties
<1>4. Len(SubSeq(s, 1, n)) = IF 1 <= n THEN n - 1 + 1 ELSE 0  BY <1>2, SubSeqProperties
<1>5. (IF 1 <= n THEN n - 1 + 1 ELSE 0) = n  OBVIOUS
<1>6. \A j \in 1..(n - 1 + 1) : SubSeq(s, 1, n)[j] = s[1 + j - 1]
  BY <1>2, SubSeqProperties
<1>7. n - 1 + 1 = n /\ \A j \in 1..n : 1 + j - 1 = j  OBVIOUS
<1> QED  BY <1>1, <1>3, <1>4, <1>5, <1>6, <1>7

(* A token taken and not pushed back is read for good.                     *)
LEMMA TakeOne ==
  ASSUME Stack, Ready, Take(<<>>)
  PROVE  /\ Read' = Read + 1 /\ tokens' = tokens
         /\ taken' = IF buf # <<>> THEN taken ELSE taken + 1
         /\ taken' \in 0..Len(returned)
         /\ buf' \in Seq(TokenTypes) /\ Len(buf') <= 1 /\ Len(buf') <= taken'
         /\ \A j \in 1..Len(buf') : buf'[j] = Tok(taken' - j + 1)
         /\ buf = <<>> => buf' = <<>>
         /\ Len(buf) = 1 => buf' = <<>>
         /\ Len(buf) = 2 => NextToken \in SchemaNames
<1>0. TypeOK /\ PushedBack /\ tokens' = tokens  BY DEF Stack, Take, lexer, tokens
<1>1. CASE buf = <<>>
  <2>1. buf' = <<>> /\ taken' = taken + 1  BY <1>1 DEF Take, Rest
  <2>2. Len(buf) = 0 /\ Len(buf') = 0  BY <1>1, <2>1
  <2>3. \A j \in 1..Len(buf') : FALSE  BY <2>2
  <2>4. taken' \in 0..Len(returned)  BY <1>0, <1>1, <2>1 DEF Ready, TypeOK
  <2> QED  BY <1>0, <1>1, <2>1, <2>2, <2>3, <2>4 DEF Read, TypeOK
<1>2. CASE buf # <<>>
  <2>0. /\ buf \in Seq(TokenTypes) /\ taken \in Nat
        /\ Len(buf) \in Nat /\ Len(buf) <= 2 /\ Len(buf) <= taken
        /\ taken \in 0..Len(returned)
    BY <1>0 DEF TypeOK
  <2>1. /\ Front(buf) \in Seq(TokenTypes) /\ Len(Front(buf)) = Len(buf) - 1
        /\ \A j \in 1..(Len(buf) - 1) : Front(buf)[j] = buf[j]
    <3>1. PICK n \in Nat : Len(buf) = n + 1
      <4>1. Len(buf) - 1 \in Nat /\ Len(buf) = (Len(buf) - 1) + 1  BY <1>2, <2>0
      <4> QED  BY <4>1
    <3>2. Len(buf) - 1 = n  BY <3>1
    <3> QED  BY <2>0, <3>1, <3>2, FrontIs
  <2>2. buf' = Front(buf) /\ taken' = taken
    <3>1. Front(buf) \o <<>> = Front(buf)  BY <2>1
    <3> QED  BY <1>2, <3>1 DEF Take, Rest
  <2>3. Len(buf) = 1 \/ Len(buf) = 2
    <3>1. Len(buf) >= 1 /\ Len(buf) \in Nat /\ Len(buf) <= 2  BY <1>2, <2>0
    <3>2. \A n \in Nat : n >= 1 /\ n <= 2 => n = 1 \/ n = 2  OBVIOUS
    <3> QED  BY <3>1, <3>2, Zenon
  <2>4. \A j \in 1..Len(buf') : buf'[j] = Tok(taken' - j + 1)
    BY <1>0, <2>0, <2>1, <2>2, <2>3 DEF PushedBack
  <2>5. Len(buf) = 2 => NextToken \in SchemaNames
    BY <1>0, <1>2 DEF PushedBack, NextToken, Last
  <2>6. Len(buf) = 1 => buf' = <<>>
    BY <2>1, <2>2
  <2> QED  BY <1>0, <1>2, <2>0, <2>1, <2>2, <2>3, <2>4, <2>5, <2>6 DEF Read
<1> QED  BY <1>1, <1>2

(* A token taken and pushed back is still to be read.                      *)
LEMMA TakeBack ==
  ASSUME Stack, Ready, buf = <<>>, Take(<<NextToken>>)
  PROVE  /\ Read' = Read /\ tokens' = tokens /\ taken' = taken + 1 /\ taken = Read
         /\ taken' \in 0..Len(returned)
         /\ buf' \in Seq(TokenTypes) /\ Len(buf') = 1 /\ Len(buf') <= taken'
         /\ \A j \in 1..Len(buf') : buf'[j] = Tok(taken' - j + 1)
<1>0. TypeOK /\ tokens' = tokens  BY DEF Stack, Take, lexer, tokens
<1>1. Len(buf) = 0 /\ taken \in Nat /\ Read = taken /\ taken + 1 \in 0..Len(returned)
  BY <1>0 DEF TypeOK, Read, Ready
<1>2. taken' = taken + 1 /\ tokens' = tokens /\ buf' = <<NextToken>>
  BY <1>0 DEF Take, Rest
<1>3. NextToken = Tok(taken + 1) /\ NextToken \in TokenTypes  BY NextIs, <1>1
<1>4. Len(buf') = 1 /\ buf' \in Seq(TokenTypes) /\ buf'[1] = NextToken  BY <1>2, <1>3
<1> QED  BY <1>0, <1>1, <1>2, <1>3, <1>4 DEF Read

(* A second token taken is pushed back below the first.                    *)
LEMMA TakeBackTwo ==
  ASSUME Stack, Ready, buf = <<>>, Take(<<NextToken, first>>),
         Read >= 1, first = Tok(Read)
  PROVE  /\ Read' = Read - 1 /\ tokens' = tokens /\ taken' = taken + 1 /\ taken = Read
         /\ taken' \in 0..Len(returned)
         /\ buf' \in Seq(TokenTypes) /\ Len(buf') = 2 /\ Len(buf') <= taken'
         /\ \A j \in 1..Len(buf') : buf'[j] = Tok(taken' - j + 1)
         /\ buf'[2] = first
<1>0. TypeOK /\ tokens' = tokens  BY DEF Stack, Take, lexer, tokens
<1>1. Len(buf) = 0 /\ taken \in Nat /\ Read = taken /\ taken + 1 \in 0..Len(returned)
  BY <1>0 DEF TypeOK, Read, Ready
<1>2. taken' = taken + 1 /\ tokens' = tokens /\ buf' = <<NextToken, first>>
  BY <1>0 DEF Take, Rest
<1>3. NextToken = Tok(taken + 1) /\ NextToken \in TokenTypes /\ first \in TokenTypes
  BY NextIs, <1>0, <1>1 DEF TypeOK
<1>4. Len(buf') = 2 /\ buf' \in Seq(TokenTypes) /\ buf'[1] = NextToken /\ buf'[2] = first
  BY <1>2, <1>3
<1> QED  BY <1>0, <1>1, <1>2, <1>3, <1>4 DEF Read

-----------------------------------------------------------------------------
(* Categories. *)

CategoryNames == {"read", "edit", "manage", "admin"}

LEMMA CategorizeType ==
  ASSUME NEW keyword
  PROVE  Categorize(keyword) \in CategoryNames
BY DEF Categorize, CategoryNames

LEMMA CategoriesAre ==
  /\ {Categories[i] : i \in 1..4} = CategoryNames
  /\ Categories[1] = "read" /\ Categories[2] = "edit"
  /\ Categories[3] = "manage" /\ Categories[4] = "admin"
<1>1. /\ Categories[1] = "read" /\ Categories[2] = "edit"
      /\ Categories[3] = "manage" /\ Categories[4] = "admin"
  BY DEF Categories
<1>2. \A i : i \in 1..4 <=> i = 1 \/ i = 2 \/ i = 3 \/ i = 4  OBVIOUS
<1> QED  BY <1>1, <1>2 DEF CategoryNames

LEMMA Priorities ==
  /\ Priority("read") = 1 /\ Priority("edit") = 2
  /\ Priority("manage") = 3 /\ Priority("admin") = 4
<1>1. \A i : i \in 1..4 <=> i = 1 \/ i = 2 \/ i = 3 \/ i = 4  OBVIOUS
<1>2. \A i \in 1..4 : Categories[i] = "read" <=> i = 1  BY <1>1, CategoriesAre
<1>3. \A i \in 1..4 : Categories[i] = "edit" <=> i = 2  BY <1>1, CategoriesAre
<1>4. \A i \in 1..4 : Categories[i] = "manage" <=> i = 3  BY <1>1, CategoriesAre
<1>5. \A i \in 1..4 : Categories[i] = "admin" <=> i = 4  BY <1>1, CategoriesAre
<1> QED  BY <1>1, <1>2, <1>3, <1>4, <1>5 DEF Priority

(* A category stands for a set of them if it is the one with the highest   *)
(* priority: then a role that has it has all.                              *)
LEMMA HighestIs ==
  ASSUME NEW keywords \in Seq(TokenTypes), keywords # <<>>
  PROVE  /\ \E i \in 1..Len(keywords) : Highest(keywords) = Categorize(keywords[i])
         /\ \A i \in 1..Len(keywords) :
              Priority(Categorize(keywords[i])) <= Priority(Highest(keywords))
<1> DEFINE C == {Categorize(keywords[i]) : i \in 1..Len(keywords)}
           Top(c) == \A i \in 1..Len(keywords) :
                       Priority(Categorize(keywords[i])) <= Priority(c)
<1>1. C \subseteq CategoryNames  BY CategorizeType
<1>2. \E c \in C : TRUE
  <2>1. 1 \in 1..Len(keywords)  OBVIOUS
  <2> QED  BY <2>1
<1>3. \A i \in 1..Len(keywords) : Categorize(keywords[i]) \in C  OBVIOUS
<1>4. \E c \in C : \A d \in C : Priority(d) <= Priority(c)
  <2> HIDE DEF C
  <2> QED  BY <1>1, <1>2, Priorities DEF CategoryNames
<1>5. \E c \in C : Top(c)  BY <1>3, <1>4
<1>6. Highest(keywords) = CHOOSE c \in C : Top(c)  BY DEF Highest
<1>7. Highest(keywords) \in C /\ Top(Highest(keywords))
  <2> HIDE DEF C, Top
  <2> QED  BY <1>5, <1>6
<1> QED  BY <1>7

LEMMA HighestType ==
  ASSUME NEW keywords \in Seq(TokenTypes), keywords # <<>>
  PROVE  Highest(keywords) \in CategoryNames
BY HighestIs, CategorizeType

(* Who may run one category may run every lower one.                       *)
LEMMA PermittedBelow ==
  ASSUME NEW role, NEW c \in CategoryNames, NEW d \in CategoryNames,
         Priority(d) <= Priority(c), Permitted(role, c)
  PROVE  Permitted(role, d)
BY Priorities DEF Permitted, CategoryNames

-----------------------------------------------------------------------------
(* The types, and what is pushed back, step by step.                       *)

StackTypes ==
  /\ taken \in 0..Len(returned)
  /\ buf \in Seq(TokenTypes) /\ Len(buf) <= 2 /\ Len(buf) <= taken

(* Nothing stays pushed back when a statement ends or a look-ahead begins, *)
(* for the name of a schema, below which a token may be, does neither.     *)
LEMMA StackOne ==
  ASSUME Stack, Ready, at # "done", Take(<<>>),
         at' \notin {"rest", "done"} => at # "rest" \/ NextToken \notin SchemaNames
  PROVE  StackTypes' /\ PushedBack'
<1>1. TypeOK /\ PushedBack /\ Len(buf) \in Nat /\ Len(buf) <= 2  BY DEF Stack, TypeOK
<1>2. returned' = returned  BY DEF Take, lexer
<1>3. StackTypes'
  BY <1>1, <1>2, TakeOne DEF StackTypes
<1>4. \A j \in 1..Len(buf') : buf'[j] = (Tok(taken - j + 1))'
  BY TakeOne DEF Tok
<1>7. /\ Len(buf') <= 1 /\ Len(buf') <= taken' /\ buf' \in Seq(TokenTypes)
      /\ buf = <<>> => buf' = <<>>
      /\ Len(buf) = 1 => buf' = <<>>
      /\ Len(buf) = 2 => NextToken \in SchemaNames
  BY TakeOne
<1>5. at' \notin {"rest", "done"} => buf' = <<>>
  <2>1. \A n \in Nat : n <= 2 => n = 0 \/ n = 1 \/ n = 2  OBVIOUS
  <2>2. Len(buf) = 0 \/ Len(buf) = 1 \/ Len(buf) = 2  BY <1>1, <2>1, Zenon
  <2>3. Len(buf) = 0 => buf = <<>>  BY <1>1 DEF TypeOK
  <2>4. at \notin {"rest", "done"} => buf = <<>>  BY <1>1 DEF PushedBack
  <2> QED  BY <1>7, <2>2, <2>3, <2>4
<1>6. Len(buf') # 2
  <2>1. Len(buf') \in Nat /\ Len(buf') <= 1  BY <1>7
  <2> QED  BY <2>1
<1> QED  BY <1>3, <1>4, <1>5, <1>6 DEF PushedBack

(* What a look-ahead pushes back is taken again before anything else.      *)
LEMMA StackBack ==
  ASSUME Stack, Ready, Position, at \in {"into", "schema"}, at' \in {"rest", "done"},
         \/ Take(<<NextToken>>)
         \/ at = "schema" /\ Take(<<NextToken, first>>)
  PROVE  StackTypes' /\ PushedBack'
<1>1. buf = <<>> /\ returned' = returned  BY DEF Stack, PushedBack, Take, lexer
<1>2. ASSUME tokens' = tokens, taken' \in 0..Len(returned), buf' \in Seq(TokenTypes),
             Len(buf') = 1 \/ (Len(buf') = 2 /\ buf'[2] \in SchemaNames),
             Len(buf') <= taken', \A j \in 1..Len(buf') : buf'[j] = Tok(taken' - j + 1)
      PROVE  StackTypes' /\ PushedBack'
  <2>1. StackTypes'  BY <1>1, <1>2 DEF StackTypes
  <2>2. \A j \in 1..Len(buf') : buf'[j] = (Tok(taken - j + 1))'  BY <1>2 DEF Tok
  <2> QED  BY <1>2, <2>1, <2>2 DEF PushedBack
<1>3. CASE Take(<<NextToken>>)
  <2>1. /\ tokens' = tokens /\ taken' \in 0..Len(returned) /\ buf' \in Seq(TokenTypes)
        /\ Len(buf') = 1 /\ Len(buf') <= taken'
        /\ \A j \in 1..Len(buf') : buf'[j] = Tok(taken' - j + 1)
    BY <1>1, <1>3, TakeBack
  <2>2. Len(buf') = 1 \/ (Len(buf') = 2 /\ buf'[2] \in SchemaNames)  BY <2>1
  <2> QED  BY <1>2, <2>1, <2>2
<1>4. CASE at = "schema" /\ Take(<<NextToken, first>>)
  <2>1. Read >= 1 /\ first = Tok(Read) /\ first \in SchemaNames
    BY <1>1, <1>4, NextIs DEF Position, VacuumAt, Firsts
  <2>2. /\ tokens' = tokens /\ taken' \in 0..Len(returned) /\ buf' \in Seq(TokenTypes)
        /\ Len(buf') = 2 /\ buf'[2] \in SchemaNames /\ Len(buf') <= taken'
        /\ \A j \in 1..Len(buf') : buf'[j] = Tok(taken' - j + 1)
    BY <1>1, <1>4, <2>1, TakeBackTwo
  <2> QED  BY <1>2, <2>2, Zenon
<1> QED  BY <1>3, <1>4

LEMMA AppendType ==
  ASSUME TypeOK, NEW token \in TokenTypes \ {"EOF", "semicolon"}
  PROVE  Append(stmtKeywords, token) \in Seq(TokenTypes \ {"EOF", "semicolon"})
BY DEF TypeOK

(* ClassifySQL takes a token in each of its steps, and leaves the lexer.   *)
LEMMA StepTakes ==
  ASSUME Step
  PROVE  Ready /\ UNCHANGED lexer /\ at # "done" /\ tokens' = tokens
<1>1. Ready /\ UNCHANGED lexer /\ at # "done"
  BY DEF Step, End, Semicolon, SkipRest, LeaderRefused, Leader, Vacuum, VacuumInto, VacuumAlone,
         VacuumSchema, VacuumSecond, WithEnd, WithParenthesis, WithBody, WithSkip, Take, Reading
<1>2. tokens' = tokens  BY <1>1 DEF lexer, tokens
<1> QED  BY <1>1, <1>2

LEMMA LexerStays ==
  ASSUME LexerInv, UNCHANGED lexer
  PROVE  LexerInv'
<1>1. /\ input' = input /\ pos' = pos /\ start' = start /\ reading' = reading
      /\ returned' = returned
  BY DEF lexer
<1>2. Mode' = Mode /\ Starts' = Starts /\ tokens' = tokens /\ Unclosed' = Unclosed
  BY <1>1 DEF Mode, Starts, tokens, Unclosed
<1>3. LexerType' /\ Correct'
  BY <1>1, <1>2 DEF LexerInv, LexerType, Correct
<1>4. Between' = Between /\ UnderWay' = UnderWay /\ StrayUnderWay' = StrayUnderWay
  BY <1>1, <1>2 DEF Between, UnderWay, StrayUnderWay, Returned, AtToken, Is
<1>5. InLoop'
  BY <1>1, <1>2, <1>4 DEF LexerInv, InLoop, Returned
<1> QED  BY <1>3, <1>5 DEF LexerInv

LEMMA TypeStep ==
  ASSUME Stack, Position, Step
  PROVE  Stack'
<1> USE DEF Reading, Refuse
<1>0. TypeOK /\ PushedBack /\ LexerInv  BY DEF Stack
<1>a. Ready /\ at # "done" /\ UNCHANGED lexer  BY StepTakes
<1>b. LexerInv'  BY <1>0, <1>a, LexerStays
<1> SUFFICES TypeOK' /\ PushedBack'  BY <1>b DEF Stack
<1>1. NextToken \in TokenTypes  BY <1>a, NextIs
<1>2. /\ StackTypes' /\ at' \in {"leader", "rest", "with", "into", "schema", "done"}
      /\ first' \in TokenTypes /\ depth' \in Nat
      /\ stmtKeywords' \in Seq(TokenTypes \ {"EOF", "semicolon"})
      /\ result' \in CategoryNames \cup {"none", "refused", "empty"}
      => TypeOK'
  BY <1>0, <1>a, CategoriesAre DEF TypeOK, StackTypes, lexer
<1>3. /\ first \in TokenTypes /\ depth \in Nat
      /\ stmtKeywords \in Seq(TokenTypes \ {"EOF", "semicolon"})
      /\ result \in CategoryNames \cup {"none", "refused", "empty"}
  BY <1>0, CategoriesAre DEF TypeOK
<1>4. CASE End
  <2>1. stmtKeywords # <<>> => Highest(stmtKeywords) \in CategoryNames
    <3>1. stmtKeywords \in Seq(TokenTypes)  BY <1>3
    <3> QED  BY <3>1, HighestType
  <2>2. StackTypes' /\ PushedBack'  BY <1>4, <1>a, StackOne DEF End
  <2> QED  BY <1>2, <1>3, <1>4, <2>1, <2>2 DEF End
<1>5. CASE Semicolon
  <2>1. StackTypes' /\ PushedBack'  BY <1>5, <1>a, StackOne DEF Semicolon, SchemaNames
  <2> QED  BY <1>2, <1>3, <1>5, <2>1 DEF Semicolon
<1>6. CASE SkipRest
  <2>1. StackTypes' /\ PushedBack'  BY <1>6, <1>a, StackOne DEF SkipRest
  <2> QED  BY <1>2, <1>3, <1>6, <2>1 DEF SkipRest
<1>7. CASE LeaderRefused
  <2>1. StackTypes' /\ PushedBack'  BY <1>7, <1>a, StackOne DEF LeaderRefused
  <2> QED  BY <1>2, <1>3, <1>7, <2>1 DEF LeaderRefused
<1>8. CASE Leader
  <2>1. StackTypes' /\ PushedBack'  BY <1>8, <1>a, StackOne DEF Leader
  <2>2. stmtKeywords' \in Seq(TokenTypes \ {"EOF", "semicolon"})
    BY <1>1, <1>8, <1>0, AppendType DEF Leader
  <2> QED  BY <1>2, <1>3, <1>8, <2>1, <2>2 DEF Leader
<1>9. CASE Vacuum
  <2>1. StackTypes' /\ PushedBack'  BY <1>9, <1>a, StackOne DEF Vacuum
  <2> QED  BY <1>2, <1>3, <1>9, <2>1 DEF Vacuum
<1>10. CASE VacuumInto
  <2>1. StackTypes' /\ PushedBack'  BY <1>10, <1>a, StackBack DEF VacuumInto
  <2> QED  BY <1>2, <1>3, <1>10, <2>1 DEF VacuumInto
<1>11. CASE VacuumAlone
  <2>1. StackTypes' /\ PushedBack'  BY <1>11, <1>a, StackBack DEF VacuumAlone
  <2>2. stmtKeywords' \in Seq(TokenTypes \ {"EOF", "semicolon"})
    BY <1>11, <1>0, AppendType DEF VacuumAlone, TokenTypes, Keywords
  <2> QED  BY <1>2, <1>3, <1>11, <2>1, <2>2 DEF VacuumAlone
<1>12. CASE VacuumSchema
  <2>1. StackTypes' /\ PushedBack'  BY <1>12, <1>a, StackOne DEF VacuumSchema
  <2> QED  BY <1>1, <1>2, <1>3, <1>12, <2>1 DEF VacuumSchema
<1>13. CASE VacuumSecond
  <2>1. StackTypes' /\ PushedBack'  BY <1>13, <1>a, StackBack DEF VacuumSecond
  <2>2. stmtKeywords' \in Seq(TokenTypes \ {"EOF", "semicolon"})
    BY <1>3, <1>13, <1>0, AppendType DEF VacuumSecond, TokenTypes, Keywords
  <2> QED  BY <1>2, <1>3, <1>13, <2>1, <2>2 DEF VacuumSecond
<1>14. CASE WithEnd
  <2>1. StackTypes' /\ PushedBack'  BY <1>14, <1>a, StackOne DEF WithEnd
  <2> QED  BY <1>2, <1>3, <1>14, <2>1 DEF WithEnd
<1>15. CASE WithParenthesis
  <2>1. StackTypes' /\ PushedBack'  BY <1>15, <1>a, StackOne DEF WithParenthesis
  <2>2. depth' \in Nat  BY <1>3, <1>15 DEF WithParenthesis
  <2> QED  BY <1>2, <1>3, <1>15, <2>1, <2>2 DEF WithParenthesis
<1>16. CASE WithBody
  <2>1. StackTypes' /\ PushedBack'  BY <1>16, <1>a, StackOne DEF WithBody
  <2>2. stmtKeywords' \in Seq(TokenTypes \ {"EOF", "semicolon"})
    BY <1>1, <1>16, <1>0, AppendType DEF WithBody, DML
  <2> QED  BY <1>2, <1>3, <1>16, <2>1, <2>2 DEF WithBody
<1>17. CASE WithSkip
  <2>1. StackTypes' /\ PushedBack'  BY <1>17, <1>a, StackOne DEF WithSkip
  <2> QED  BY <1>2, <1>3, <1>17, <2>1 DEF WithSkip
<1> QED
  BY <1>4, <1>5, <1>6, <1>7, <1>8, <1>9, <1>10, <1>11, <1>12, <1>13, <1>14, <1>15, <1>16, <1>17
  DEF Step

-----------------------------------------------------------------------------
(* Where ClassifySQL is in the text.                                       *)

LEMMA PositionStep ==
  ASSUME Stack, Position, Step
  PROVE  Position'
<1> USE DEF Reading, Refuse, Position
<1>0. TypeOK /\ PushedBack /\ Ready /\ tokens' = tokens  BY StepTakes DEF Stack
<1>1. /\ Read \in Nat /\ tokens \in Found /\ Len(tokens) \in Nat
      /\ NextToken = Tok(Read + 1) /\ NextToken \in TokenTypes
      /\ NextToken # "EOF" <=> Read + 1 <= Len(tokens)
      /\ NextToken # "EOF" => NextToken = tokens[Read + 1]
  BY <1>0, NextIs DEF Tok, TokenAt
<1>2. Take(<<>>) => Read' = Read + 1 /\ tokens' = tokens /\ \A n : (Tok(n))' = Tok(n)
  BY <1>0, TakeOne DEF Tok, TokenAt
<1>3. \A n : tokens' = tokens => (VacuumAt(n))' = VacuumAt(n)
  BY DEF VacuumAt
<1>4. at \notin {"rest", "done"} => buf = <<>>  BY <1>0 DEF PushedBack
<1>5. "EOF" # "semicolon"  OBVIOUS
<1>6. at = "leader" /\ NextToken \notin {"EOF", "semicolon"} => Read + 1 \in Firsts(tokens)
  <2> SUFFICES ASSUME at = "leader", NextToken \notin {"EOF", "semicolon"}
               PROVE  Read + 1 \in Firsts(tokens)
    OBVIOUS
  <2>1. Read = 0 \/ tokens[Read] = "semicolon"  BY <1>1 DEF Tok, TokenAt
  <2> QED  BY <1>1, <2>1, FirstBehind
<1>7. at # "done" => result = "none"  BY <1>0 DEF TypeOK
<1>8. CASE End
  <2>1. stmtKeywords # <<>> => Highest(stmtKeywords) \in CategoryNames
    <3>1. stmtKeywords \in Seq(TokenTypes)  BY <1>0 DEF TypeOK
    <3> QED  BY <3>1, HighestType
  <2> QED  BY <1>2, <1>8, <2>1 DEF End, CategoryNames
<1>9. CASE Semicolon  BY <1>1, <1>2, <1>7, <1>9 DEF Semicolon
<1>10. CASE SkipRest  BY <1>1, <1>2, <1>7, <1>10 DEF SkipRest
<1>11. CASE LeaderRefused
  <2>1. NextToken \notin {"EOF", "semicolon"}  BY <1>11 DEF LeaderRefused, Symbols
  <2>2. Read + 1 \in Firsts(tokens) /\ Refused(tokens, Read + 1)
    BY <1>1, <1>6, <1>11, <2>1 DEF LeaderRefused, Refused
  <2> QED  BY <1>2, <1>11, <2>2 DEF LeaderRefused
<1>12. CASE Leader
  BY <1>1, <1>2, <1>7, <1>12 DEF Leader
<1>13. CASE Vacuum
  <2>1. VacuumAt(Read + 1)  BY <1>1, <1>6, <1>13 DEF Vacuum, VacuumAt
  <2> QED  BY <1>1, <1>2, <1>3, <1>7, <1>13, <2>1 DEF Vacuum
<1>14. CASE VacuumInto
  <2>1. Refused(tokens, Read) /\ Read \in Firsts(tokens)
    BY <1>1, <1>14 DEF VacuumInto, VacuumAt, Refused
  <2>2. tokens' = tokens  BY <1>0
  <2> QED  BY <1>14, <2>1, <2>2 DEF VacuumInto
<1>15. CASE VacuumAlone
  <2>1. Read' = Read  BY <1>4, <1>15, <1>0, TakeBack DEF VacuumAlone
  <2>2. Read <= Len(tokens)  BY <1>15 DEF VacuumAlone, VacuumAt, Firsts
  <2>3. tokens' = tokens  BY <1>0
  <2> QED  BY <1>1, <1>7, <1>15, <2>1, <2>2, <2>3 DEF VacuumAlone
<1>16. CASE VacuumSchema
  <2>1. VacuumAt(Read)  BY <1>16 DEF VacuumSchema
  <2>2. (Read + 1) - 1 = Read  BY <1>1
  <2> QED  BY <1>1, <1>2, <1>3, <1>7, <1>16, <2>1, <2>2 DEF VacuumSchema
<1>17. CASE VacuumSecond
  <2>1. /\ VacuumAt(Read - 1) /\ Tok(Read) \in SchemaNames /\ first = Tok(Read)
        /\ Read - 1 >= 1 /\ Read - 1 <= Len(tokens)
    BY <1>1, <1>17 DEF VacuumSecond, VacuumAt, Firsts
  <2>2. tokens' = tokens  BY <1>0
  <2>3. CASE NextToken = "INTO" /\ Refuse
    <3>1. Tok(Read) = tokens[Read]  BY <1>1, <2>3 DEF Tok, TokenAt
    <3>2. (Read - 1) + 1 = Read /\ (Read - 1) + 2 = Read + 1  BY <1>1
    <3>3. Refused(tokens, Read - 1)
      BY <1>1, <2>1, <2>3, <3>1, <3>2 DEF Refused, SchemaNames, VacuumAt
    <3>4. Read - 1 \in Firsts(tokens)  BY <2>1 DEF VacuumAt
    <3> QED  BY <1>17, <2>2, <2>3, <3>3, <3>4 DEF VacuumSecond
  <2>4. CASE at' = "rest" /\ result' = result
    <3>1. Read' = Read - 1  BY <1>1, <1>4, <1>17, <2>1, <1>0, TakeBackTwo DEF VacuumSecond
    <3> QED  BY <1>1, <1>7, <1>17, <2>1, <2>2, <2>4, <3>1 DEF VacuumSecond
  <2> QED  BY <1>17, <2>3, <2>4 DEF VacuumSecond
<1>18. CASE WithEnd  BY <1>1, <1>2, <1>7, <1>18 DEF WithEnd
<1>19. CASE WithParenthesis  BY <1>1, <1>2, <1>7, <1>19 DEF WithParenthesis
<1>20. CASE WithBody  BY <1>1, <1>2, <1>7, <1>20 DEF WithBody, DML
<1>21. CASE WithSkip  BY <1>1, <1>2, <1>7, <1>21 DEF WithSkip, DML
<1> QED
  BY <1>8, <1>9, <1>10, <1>11, <1>12, <1>13, <1>14, <1>15, <1>16, <1>17, <1>18, <1>19, <1>20, <1>21
  DEF Step

-----------------------------------------------------------------------------
(* What has been found.                                                    *)

(* A leader that is not refused, and not a WITH, is found with its         *)
(* statement.                                                              *)
LEMMA StatementFound ==
  ASSUME NEW tok \in Found, NEW n \in Nat,
         NEW keywords \in Seq(TokenTypes \ {"EOF", "semicolon"}),
         FoundAll(tok, keywords, n), n + 1 \in Firsts(tok), ~Refused(tok, n + 1)
  PROVE  /\ FoundAll(tok, Append(keywords, tok[n + 1]), n + 1)
         /\ tok[n + 1] # "WITH" => NextBehindSemicolon(tok, n + 1)
<1>1. n + 1 \in LeaderPlaces(tok)  BY DEF LeaderPlaces
<1> QED  BY <1>1, FoundLeader, LeaderAlone

(* Beyond the last token there is nothing to find.                         *)
LEMMA FoundToEnd ==
  ASSUME NEW tok \in Found, NEW keywords, NEW n \in Nat, FoundAll(tok, keywords, n),
         n >= Len(tok)
  PROVE  FoundAll(tok, keywords, Len(tok))
<1>1. LeaderPlaces(tok) \subseteq 1..Len(tok) /\ Len(tok) \in Nat
  BY LeadersAreTokens DEF Found
<1>2. \A p \in LeaderPlaces(tok) : p <= n /\ p <= Len(tok)  BY <1>1
<1>3. {q \in LeaderPlaces(tok) : q <= n} = {q \in LeaderPlaces(tok) : q <= Len(tok)}
  BY <1>2
<1>4. Rank(tok, n) = Rank(tok, Len(tok))  BY <1>3 DEF Rank, UpTo
<1>5. Firsts(tok) \subseteq LeaderPlaces(tok)  BY DEF LeaderPlaces
<1> QED  BY <1>2, <1>4, <1>5 DEF FoundAll, FoundUpTo, NoneRefused

LEMMA ProgressStep ==
  ASSUME Stack, Position, Progress, Step
  PROVE  Progress' \/ Lost'
<1> USE DEF Reading
<1>0. TypeOK /\ PushedBack /\ Ready /\ tokens' = tokens  BY StepTakes DEF Stack
<1>1. /\ Read \in Nat /\ tokens \in Found /\ Len(tokens) \in Nat
      /\ NextToken = Tok(Read + 1) /\ NextToken \in TokenTypes
      /\ NextToken # "EOF" <=> Read + 1 <= Len(tokens)
      /\ NextToken # "EOF" => NextToken = tokens[Read + 1]
      /\ stmtKeywords \in Seq(TokenTypes \ {"EOF", "semicolon"}) /\ depth \in Nat
  BY <1>0, NextIs DEF Tok, TokenAt, TypeOK
<1>2. Take(<<>>) => Read' = Read + 1 /\ tokens' = tokens  BY <1>0, TakeOne
<1>3. at \notin {"rest", "done"} => buf = <<>>  BY <1>0 DEF PushedBack
<1>4. at = "leader" /\ NextToken \notin {"EOF", "semicolon"} => Read + 1 \in Firsts(tokens)
  <2> SUFFICES ASSUME at = "leader", NextToken \notin {"EOF", "semicolon"}
               PROVE  Read + 1 \in Firsts(tokens)
    OBVIOUS
  <2>1. Read = 0 \/ tokens[Read] = "semicolon"  BY <1>1 DEF Tok, TokenAt, Position
  <2> QED  BY <1>1, <2>1, FirstBehind
<1>5. LeaderPlaces(tokens) \subseteq 1..Len(tokens)
      /\ \A p \in LeaderPlaces(tokens) : tokens[p] # "semicolon"
  BY <1>1, LeadersAreTokens
<1>6. (Read + 1) - 1 = Read /\ (Read + 1) - 2 = Read - 1  BY <1>1
<1>7. at # "done" => result = "none"  BY DEF Position
<1>8. CASE End
  <2>1. FoundAll(tokens, stmtKeywords, Read) /\ Read >= Len(tokens)
    BY <1>1, <1>8 DEF End, Progress
  <2>2. FoundAll(tokens, stmtKeywords, Len(tokens))  BY <1>1, <2>1, FoundToEnd
  <2> QED  BY <1>2, <1>8, <2>2 DEF End, Progress
<1>9. CASE Semicolon
  <2>1. FoundAll(tokens, stmtKeywords, Read) /\ tokens[Read + 1] = "semicolon"
    BY <1>1, <1>9 DEF Semicolon, Progress
  <2>2. FoundAll(tokens, stmtKeywords, Read + 1)  BY <1>1, <1>5, <2>1, FoundSkip
  <2> QED  BY <1>2, <1>9, <2>2 DEF Semicolon, Progress
<1>10. CASE SkipRest
  <2>1. FoundAll(tokens, stmtKeywords, Read) /\ NextBehindSemicolon(tokens, Read)
    BY <1>10 DEF SkipRest, Progress
  <2>2. Read + 1 \notin LeaderPlaces(tokens)  BY <1>1, <2>1, NoLeaderYet
  <2>3. FoundAll(tokens, stmtKeywords, Read + 1)  BY <1>1, <2>1, <2>2, FoundSkip
  <2>4. NextBehindSemicolon(tokens, Read + 1)
    BY <1>1, <1>10, <2>1, NextBehindSkipped DEF SkipRest
  <2> QED  BY <1>2, <1>10, <2>3, <2>4 DEF SkipRest, Progress
<1>11. CASE LeaderRefused
  BY <1>11 DEF LeaderRefused, Refuse, Progress
<1>12. CASE Leader
  <2>1. /\ FoundAll(tokens, stmtKeywords, Read) /\ Read + 1 \in Firsts(tokens)
        /\ NextToken = tokens[Read + 1]
    BY <1>1, <1>4, <1>12 DEF Leader, Progress
  <2>2. ~Refused(tokens, Read + 1)  BY <1>12, <2>1 DEF Leader, Refused
  <2>3. /\ FoundAll(tokens, stmtKeywords', Read + 1)
        /\ NextToken # "WITH" => NextBehindSemicolon(tokens, Read + 1)
    BY <1>1, <1>12, <2>1, <2>2, StatementFound DEF Leader
  <2>4. CASE NextToken = "WITH" => Body(tokens, Read + 1) # {}
    <3>1. NextToken = "WITH" => InWith(tokens, Read + 1, 0)
      BY <1>1, <2>1, <2>4, WithBegins DEF Withs
    <3> QED  BY <1>2, <1>12, <2>3, <3>1 DEF Leader, Progress
  <2>5. CASE NextToken = "WITH" /\ Body(tokens, Read + 1) = {}
    <3>1. Read + 1 \in Withs(tokens)  BY <2>1, <2>5 DEF Withs
    <3>2. FoundPrefix(tokens, stmtKeywords', Read + 1) /\ NoneRefused(tokens, Read + 1)
      BY <1>1, <2>3, RankStep DEF FoundAll, FoundUpTo, FoundPrefix
    <3> QED  BY <1>0, <2>5, <3>1, <3>2 DEF Lost
  <2> QED  BY <2>4, <2>5
<1>13. CASE Vacuum
  BY <1>2, <1>6, <1>13 DEF Vacuum, Progress
<1>14. CASE VacuumInto
  BY <1>14 DEF VacuumInto, Refuse, Progress
<1>15. CASE VacuumAlone
  <2>1. Read' = Read /\ tokens' = tokens  BY <1>3, <1>15, <1>0, TakeBack DEF VacuumAlone
  <2>2. VacuumAt(Read) /\ FoundAll(tokens, stmtKeywords, Read - 1)
    BY <1>15 DEF VacuumAlone, Position, Progress
  <2>3. Read - 1 \in Nat /\ (Read - 1) + 1 = Read  BY <1>1, <2>2 DEF VacuumAt, Firsts
  <2>4. ~Refused(tokens, Read)
    <3>1. Read + 1 <= Len(tokens) => tokens[Read + 1] \notin SchemaNames \cup {"INTO"}
      BY <1>1, <1>15 DEF VacuumAlone
    <3>2. Read + 2 <= Len(tokens) => Read + 1 <= Len(tokens)  BY <1>1
    <3> QED  BY <2>2, <3>1, <3>2 DEF Refused, VacuumAt, SchemaNames, Symbols
  <2>5. FoundAll(tokens, stmtKeywords', Read) /\ NextBehindSemicolon(tokens, Read)
    BY <1>1, <1>15, <2>2, <2>3, <2>4, StatementFound DEF VacuumAlone, VacuumAt
  <2> QED  BY <1>15, <2>1, <2>5 DEF VacuumAlone, Progress
<1>16. CASE VacuumSchema
  BY <1>2, <1>6, <1>16 DEF VacuumSchema, Progress
<1>17. CASE VacuumSecond
  <2>1. CASE NextToken = "INTO" /\ Refuse
    BY <1>17, <2>1 DEF VacuumSecond, Refuse, Progress
  <2>2. CASE NextToken # "INTO" /\ stmtKeywords' = Append(stmtKeywords, "VACUUM") /\ at' = "rest"
    <3>1. /\ VacuumAt(Read - 1) /\ first = Tok(Read)
          /\ FoundAll(tokens, stmtKeywords, Read - 2)
      BY <1>17 DEF VacuumSecond, Position, Progress
    <3>2. /\ Read >= 1 /\ Read - 2 \in Nat /\ (Read - 2) + 1 = Read - 1
          /\ (Read - 1) + 1 = Read /\ (Read - 1) + 2 = Read + 1
      BY <1>1, <3>1 DEF VacuumAt, Firsts
    <3>3. Read' = Read - 1 /\ tokens' = tokens
      BY <1>3, <1>17, <3>1, <3>2, <1>0, TakeBackTwo DEF VacuumSecond
    <3>4. ~Refused(tokens, Read - 1)
      <4>1. Read <= Len(tokens) => tokens[Read] \in SchemaNames
        BY <1>17 DEF VacuumSecond, Position, Tok, TokenAt
      <4>2. Read + 1 <= Len(tokens) => tokens[Read + 1] # "INTO"  BY <1>1, <2>2
      <4> QED  BY <3>1, <3>2, <4>1, <4>2 DEF Refused, VacuumAt, SchemaNames, Symbols
    <3>5. FoundAll(tokens, stmtKeywords', Read - 1) /\ NextBehindSemicolon(tokens, Read - 1)
      BY <1>1, <2>2, <3>1, <3>2, <3>4, StatementFound DEF VacuumAt
    <3> QED  BY <2>2, <3>3, <3>5 DEF Progress
  <2> QED  BY <1>17, <2>1, <2>2 DEF VacuumSecond
<1>18. CASE WithEnd
  <2>1. InWith(tokens, Read, depth) /\ Read >= Len(tokens)
    BY <1>1, <1>18 DEF WithEnd, Progress
  <2>2. FALSE
    BY <1>1, <2>1 DEF InWith, Body
  <2> QED  BY <2>2
<1>19. CASE WithParenthesis
  <2>1. /\ FoundAll(tokens, stmtKeywords, Read) /\ InWith(tokens, Read, depth)
        /\ tokens[Read + 1] \in {"(", ")"}
    BY <1>1, <1>19 DEF WithParenthesis, Progress
  <2>2. depth' = After(tokens[Read + 1], depth)
    BY <1>1, <1>19 DEF WithParenthesis, After
  <2>3. Read + 1 \notin LeaderPlaces(tokens) /\ InWith(tokens, Read + 1, depth')
    BY <1>1, <2>1, <2>2, NoLeaderInWith DEF DML
  <2>4. FoundAll(tokens, stmtKeywords, Read + 1)  BY <1>1, <2>1, <2>3, FoundSkip
  <2> QED  BY <1>2, <1>19, <2>3, <2>4 DEF WithParenthesis, Progress
<1>20. CASE WithBody
  <2>1. /\ FoundAll(tokens, stmtKeywords, Read) /\ InWith(tokens, Read, 0)
        /\ NextToken = tokens[Read + 1] /\ tokens[Read + 1] \in DML
    BY <1>1, <1>20 DEF WithBody, Progress, DML
  <2>2. /\ Read + 1 \in LeaderPlaces(tokens) /\ Read + 1 \notin Firsts(tokens)
        /\ NextBehindSemicolon(tokens, Read + 1)
    BY <1>1, <2>1, BodyLeads
  <2>3. FoundAll(tokens, stmtKeywords', Read + 1)
    BY <1>1, <1>20, <2>1, <2>2, FoundLeader DEF WithBody
  <2> QED  BY <1>2, <1>20, <2>2, <2>3 DEF WithBody, Progress
<1>21. CASE WithSkip
  <2>1. /\ FoundAll(tokens, stmtKeywords, Read) /\ InWith(tokens, Read, depth)
        /\ tokens[Read + 1] \notin {"(", ")"} /\ (tokens[Read + 1] \in DML => depth > 0)
    BY <1>1, <1>21 DEF WithSkip, Progress, DML
  <2>2. After(tokens[Read + 1], depth) = depth  BY <2>1 DEF After
  <2>3. Read + 1 \notin LeaderPlaces(tokens) /\ InWith(tokens, Read + 1, depth)
    BY <1>1, <2>1, <2>2, NoLeaderInWith
  <2>4. FoundAll(tokens, stmtKeywords, Read + 1)  BY <1>1, <2>1, <2>3, FoundSkip
  <2> QED  BY <1>2, <1>21, <2>3, <2>4 DEF WithSkip, Progress
<1> QED
  BY <1>8, <1>9, <1>10, <1>11, <1>12, <1>13, <1>14, <1>15, <1>16, <1>17, <1>18, <1>19, <1>20, <1>21
  DEF Step

(* What was found in front of a WITH without a keyword is not taken back.  *)
LEMMA LostStays ==
  ASSUME TypeOK, Lost, tokens' = tokens,
         \/ stmtKeywords' = stmtKeywords
         \/ \E token : stmtKeywords' = Append(stmtKeywords, token)
  PROVE  Lost'
<1>1. PICK w \in Withs(tokens) : /\ Body(tokens, w) = {}
                                /\ FoundPrefix(tokens, stmtKeywords, w)
                                /\ NoneRefused(tokens, w)
  BY DEF Lost
<1>2. w \in Nat /\ tokens \in Found  BY ReadIs DEF Withs, Firsts
<1>3. /\ Len(stmtKeywords) \in Nat /\ Len(stmtKeywords') \in Nat
      /\ Len(stmtKeywords) <= Len(stmtKeywords')
      /\ \A i \in 1..Len(stmtKeywords) : stmtKeywords'[i] = stmtKeywords[i]
  BY DEF TypeOK
<1>4. FoundPrefix(tokens, stmtKeywords', w)
  <2>1. Rank(tokens, w) \in Nat /\ Rank(tokens, w) <= Len(stmtKeywords)
    BY <1>1, <1>2, RankStep DEF FoundPrefix
  <2>2. ASSUME NEW p \in LeaderPlaces(tokens), p <= w
        PROVE  stmtKeywords'[Rank(tokens, p)] = tokens[p]
    <3>1. Rank(tokens, p) \in 1..Rank(tokens, w)  BY <1>2, <2>2, RankBounds
    <3>2. Rank(tokens, p) \in 1..Len(stmtKeywords)  BY <1>3, <2>1, <3>1
    <3> QED  BY <1>1, <1>3, <2>2, <3>2 DEF FoundPrefix
  <2> QED  BY <1>3, <2>1, <2>2 DEF FoundPrefix
<1> QED  BY <1>1, <1>4 DEF Lost

LEMMA LostStep ==
  ASSUME TypeOK, Lost, Step
  PROVE  Lost'
<1>1. \/ stmtKeywords' = stmtKeywords
      \/ \E token : stmtKeywords' = Append(stmtKeywords, token)
  BY DEF Step, End, Semicolon, SkipRest, LeaderRefused, Leader, Vacuum, VacuumInto, VacuumAlone,
         VacuumSchema, VacuumSecond, WithEnd, WithParenthesis, WithBody, WithSkip, Refuse
<1> QED  BY <1>1, StepTakes, LostStays

-----------------------------------------------------------------------------
(* What counts, and what is read over.                                     *)

(* A token that does not lead, or is read over, leaves what counts.        *)
LEMMA CountedSkip ==
  ASSUME NEW tok \in Found, NEW keywords, NEW n \in Nat, CountedUpTo(tok, keywords, n),
         n + 1 \notin LeaderPlaces(tok) \/ ReadOver(tok, n + 1)
  PROVE  CountedUpTo(tok, keywords, n + 1)
<1>1. \A p \in LeaderPlaces(tok) : p <= n + 1 => p <= n \/ p = n + 1
  BY LeadersAreTokens
<1> QED  BY <1>1 DEF CountedUpTo

(* A keyword found counts, and those found before it still do.             *)
LEMMA CountedAdd ==
  ASSUME NEW tok \in Found, NEW n \in Nat,
         NEW keywords \in Seq(TokenTypes \ {"EOF", "semicolon"}),
         CountedUpTo(tok, keywords, n), n + 1 \in Firsts(tok) => ~Refused(tok, n + 1)
  PROVE  CountedUpTo(tok, Append(keywords, tok[n + 1]), n + 1)
<1> DEFINE new == Append(keywords, tok[n + 1])
<1>1. /\ Len(keywords) \in Nat /\ Len(new) = Len(keywords) + 1 /\ new[Len(keywords) + 1] = tok[n + 1]
      /\ \A i \in 1..Len(keywords) : i \in 1..Len(new) /\ new[i] = keywords[i]
  OBVIOUS
<1> HIDE DEF new
<1>2. ASSUME NEW p \in LeaderPlaces(tok), p <= n + 1
      PROVE  Counts(tok, new, p) \/ ReadOver(tok, p)
  <2>1. CASE p = n + 1
    <3>1. Len(keywords) + 1 \in 1..Len(new)  BY <1>1
    <3> QED  BY <1>1, <2>1, <3>1 DEF Counts
  <2>2. CASE p <= n
    <3>1. Counts(tok, keywords, p) \/ ReadOver(tok, p)  BY <2>2 DEF CountedUpTo
    <3>2. Counts(tok, keywords, p) => Counts(tok, new, p)  BY <1>1 DEF Counts
    <3> QED  BY <3>1, <3>2
  <2>3. p \in Nat  BY LeadersAreTokens
  <2> QED  BY <1>2, <2>1, <2>2, <2>3
<1> QED  BY <1>2 DEF CountedUpTo, new

(* Beyond the last token nothing counts.                                   *)
LEMMA CountedToEnd ==
  ASSUME NEW tok \in Found, NEW keywords, NEW n \in Nat, CountedUpTo(tok, keywords, n),
         n >= Len(tok)
  PROVE  CountedUpTo(tok, keywords, Len(tok))
<1>1. \A p \in LeaderPlaces(tok) : p <= n
  BY LeadersAreTokens DEF Found
<1> QED  BY <1>1 DEF CountedUpTo

(* Behind WITH itself no parenthesis is open, and it is no DML.            *)
LEMMA WithReads ==
  ASSUME NEW tok \in Found, NEW b \in Withs(tok)
  PROVE  ReadingOn(tok, b, 0)
<1>1. b \in Nat /\ b # 0 /\ tok[b] = "WITH"  BY DEF Withs, Firsts
<1>2. Open(tok, b, b) = 0
  <2>1. b - 1 \in Nat /\ (b - 1) + 1 = b  BY <1>1
  <2>2. Open(tok, b, b - 1) = 0  BY <2>1, NothingOpenBefore
  <2> QED  BY <1>1, <2>1, <2>2, OpenStep
<1>3. DepthIs(tok, b, b, 0)  BY <1>1, <1>2 DEF DepthIs
<1>4. \A m \in b..b : tok[m] \notin DML  BY <1>1 DEF DML
<1> QED  BY <1>1, <1>3, <1>4 DEF ReadingOn

(* What resolveWithBody skips does not lead, or is read over.              *)
LEMMA ReadsOn ==
  ASSUME NEW tok \in Found, NEW n \in Nat, NEW d \in Nat, ReadingOn(tok, n, d),
         tok[n + 1] \in DML => d > 0
  PROVE  /\ n + 1 \notin LeaderPlaces(tok) \/ ReadOver(tok, n + 1)
         /\ ReadingOn(tok, n + 1, After(tok[n + 1], d))
<1>1. PICK w \in Withs(tok) : /\ w <= n /\ DepthIs(tok, w, n, d)
                              /\ \A m \in w..n : tok[m] \in DML => Enclosed(tok, w, m)
  BY DEF ReadingOn
<1>2. w \in Firsts(tok) /\ w \in Nat /\ Len(tok) \in Nat  BY DEF Withs, Firsts, Found
<1>3. tok[n + 1] \in DML => Enclosed(tok, w, n + 1)  BY <1>1, <1>2, DepthEncloses
<1>4. \A m \in w..(n + 1) : m \in w..n \/ m = n + 1  BY <1>1, <1>2
<1>5. \A m \in w..(n + 1) : tok[m] \in DML => Enclosed(tok, w, m)  BY <1>1, <1>3, <1>4
<1>6. ASSUME Within(tok, w, n + 1) PROVE n + 1 \notin LeaderPlaces(tok)
  <2>1. Within(tok, w, n)  BY <1>1, <1>2, <1>6 DEF Within
  <2>2. n + 1 \notin Body(tok, w)  BY <1>3 DEF Body
  <2>3. \A m \in (n + 1)..((n + 1) - 1) : FALSE  OBVIOUS
  <2> QED  BY <1>2, <2>1, <2>2, <2>3, Separate
<1>7. ASSUME ~Within(tok, w, n + 1) PROVE ReadOver(tok, n + 1)
  <2>1. w < n + 1  BY <1>1, <1>2
  <2> QED  BY <1>5, <1>7, <2>1 DEF ReadOver
<1>8. DepthIs(tok, w, n + 1, After(tok[n + 1], d))  BY <1>1, <1>2, DepthStep
<1>9. w <= n + 1  BY <1>1, <1>2
<1> QED  BY <1>5, <1>6, <1>7, <1>8, <1>9 DEF ReadingOn

(* Behind the keyword that resolveWithBody takes, in whichever statement   *)
(* it stands, nothing leads before a semicolon.                            *)
LEMMA ReadsToKeyword ==
  ASSUME NEW tok \in Found, NEW n \in Nat, ReadingOn(tok, n, 0), tok[n + 1] \in DML
  PROVE  NextBehindSemicolon(tok, n + 1)
<1>1. PICK w \in Withs(tok) : w <= n /\ DepthIs(tok, w, n, 0)
  BY DEF ReadingOn
<1>2. w \in 1..Len(tok) /\ Len(tok) \in Nat /\ (w = 1 \/ tok[w - 1] = "semicolon")
  BY DEF Withs, Firsts, Found
<1>3. ~Enclosed(tok, w, n + 1)  BY <1>1, <1>2, DepthEncloses
<1>4. tok[n + 1] \notin {"semicolon", "WITH"}  BY DEF DML
<1> SUFFICES ASSUME NEW p \in LeaderPlaces(tok), p > n + 1,
                    \A m \in (n + 2)..(p - 1) : tok[m] # "semicolon"
             PROVE  FALSE
  BY DEF NextBehindSemicolon
<1>5. p \in 1..Len(tok)  BY LeadersAreTokens
<1>6. \A m \in (n + 1)..(p - 1) : tok[m] # "semicolon"
  <2>1. \A m \in (n + 1)..(p - 1) : m = n + 1 \/ m \in (n + 2)..(p - 1)  BY <1>5
  <2> QED  BY <1>4, <2>1
<1>7. p \notin Firsts(tok)
  <2>1. p - 1 \in (n + 1)..(p - 1) /\ p # 1  BY <1>5
  <2> QED  BY <1>6, <2>1 DEF Firsts
<1>8. PICK c \in Withs(tok) : p \in Body(tok, c)  BY <1>7 DEF LeaderPlaces
<1>9. /\ c \in 1..Len(tok) /\ (c = 1 \/ tok[c - 1] = "semicolon") /\ tok[c] = "WITH"
      /\ c <= p /\ \A m \in c..p : tok[m] # "semicolon"
  BY <1>8 DEF Withs, Firsts, Body, Within
<1>10. c <= n
  <2>1. ~(c > n + 1)
    <3> SUFFICES ASSUME c > n + 1 PROVE FALSE  OBVIOUS
    <3>1. c # 1 /\ c - 1 \in (n + 1)..(p - 1)  BY <1>5, <1>9
    <3> QED  BY <1>6, <1>9, <3>1
  <2>2. c # n + 1  BY <1>4, <1>9
  <2> QED  BY <1>9, <2>1, <2>2
<1>11. Enclosed(tok, c, n + 1)
  <2>1. n + 1 \in c..(p - 1)  BY <1>5, <1>9, <1>10
  <2> QED  BY <1>8, <2>1 DEF Body
<1>12. CASE c >= w
  <2>1. \A m \in c..((n + 1) - 1) : m \in w..((n + 1) - 1)  BY <1>2, <1>9, <1>12
  <2>2. Enclosed(tok, w, n + 1)  BY <1>11, <2>1 DEF Enclosed
  <2> QED  BY <1>3, <2>2
<1>13. CASE c < w
  <2>1. w # 1 /\ w - 1 \in c..p  BY <1>1, <1>2, <1>5, <1>9, <1>13
  <2> QED  BY <1>2, <1>9, <2>1
<1> QED  BY <1>2, <1>9, <1>12, <1>13

LEMMA CountedStep ==
  ASSUME Stack, Position, Counted, Step
  PROVE  Counted'
<1> USE DEF Reading
<1>0. TypeOK /\ PushedBack /\ Ready /\ tokens' = tokens  BY StepTakes DEF Stack
<1>1. /\ Read \in Nat /\ tokens \in Found /\ Len(tokens) \in Nat
      /\ NextToken = Tok(Read + 1) /\ NextToken \in TokenTypes
      /\ NextToken # "EOF" <=> Read + 1 <= Len(tokens)
      /\ NextToken # "EOF" => NextToken = tokens[Read + 1]
      /\ stmtKeywords \in Seq(TokenTypes \ {"EOF", "semicolon"}) /\ depth \in Nat
  BY <1>0, NextIs DEF Tok, TokenAt, TypeOK
<1>2. Take(<<>>) => Read' = Read + 1 /\ tokens' = tokens  BY <1>0, TakeOne
<1>3. at \notin {"rest", "done"} => buf = <<>>  BY <1>0 DEF PushedBack
<1>4. at = "leader" /\ NextToken \notin {"EOF", "semicolon"} => Read + 1 \in Firsts(tokens)
  <2> SUFFICES ASSUME at = "leader", NextToken \notin {"EOF", "semicolon"}
               PROVE  Read + 1 \in Firsts(tokens)
    OBVIOUS
  <2>1. Read = 0 \/ tokens[Read] = "semicolon"  BY <1>1 DEF Tok, TokenAt, Position
  <2> QED  BY <1>1, <2>1, FirstBehind
<1>5. LeaderPlaces(tokens) \subseteq 1..Len(tokens)
      /\ \A p \in LeaderPlaces(tokens) : tokens[p] # "semicolon"
  BY <1>1, LeadersAreTokens
<1>6. (Read + 1) - 1 = Read /\ (Read + 1) - 2 = Read - 1  BY <1>1
<1>7. at # "done" => result = "none"  BY DEF Position
<1>8. CASE End
  <2>1. CountedUpTo(tokens, stmtKeywords, Read) /\ Read >= Len(tokens)
    BY <1>1, <1>8 DEF End, Counted
  <2>2. CountedUpTo(tokens, stmtKeywords, Len(tokens))  BY <1>1, <2>1, CountedToEnd
  <2> QED  BY <1>2, <1>8, <2>2 DEF End, Counted
<1>9. CASE Semicolon
  <2>1. CountedUpTo(tokens, stmtKeywords, Read) /\ tokens[Read + 1] = "semicolon"
    BY <1>1, <1>9 DEF Semicolon, Counted
  <2>2. CountedUpTo(tokens, stmtKeywords, Read + 1)  BY <1>1, <1>5, <2>1, CountedSkip
  <2> QED  BY <1>2, <1>9, <2>2 DEF Semicolon, Counted
<1>10. CASE SkipRest
  <2>1. CountedUpTo(tokens, stmtKeywords, Read) /\ NextBehindSemicolon(tokens, Read)
    BY <1>10 DEF SkipRest, Counted
  <2>2. Read + 1 \notin LeaderPlaces(tokens)  BY <1>1, <2>1, NoLeaderYet
  <2>3. CountedUpTo(tokens, stmtKeywords, Read + 1)  BY <1>1, <2>1, <2>2, CountedSkip
  <2>4. NextBehindSemicolon(tokens, Read + 1)
    BY <1>1, <1>10, <2>1, NextBehindSkipped DEF SkipRest
  <2> QED  BY <1>2, <1>10, <2>3, <2>4 DEF SkipRest, Counted
<1>11. CASE LeaderRefused
  BY <1>11 DEF LeaderRefused, Refuse, Counted
<1>12. CASE Leader
  <2>1. /\ CountedUpTo(tokens, stmtKeywords, Read) /\ Read + 1 \in Firsts(tokens)
        /\ NextToken = tokens[Read + 1]
    BY <1>1, <1>4, <1>12 DEF Leader, Counted
  <2>2. ~Refused(tokens, Read + 1)  BY <1>12, <2>1 DEF Leader, Refused
  <2>3. CountedUpTo(tokens, stmtKeywords', Read + 1)
    BY <1>1, <1>12, <2>1, <2>2, CountedAdd DEF Leader
  <2>4. NextToken # "WITH" => NextBehindSemicolon(tokens, Read + 1)
    BY <1>1, <2>1, LeaderAlone
  <2>5. NextToken = "WITH" => ReadingOn(tokens, Read + 1, 0)
    BY <1>1, <2>1, WithReads DEF Withs
  <2> QED  BY <1>2, <1>12, <2>3, <2>4, <2>5 DEF Leader, Counted
<1>13. CASE Vacuum
  BY <1>2, <1>6, <1>13 DEF Vacuum, Counted
<1>14. CASE VacuumInto
  BY <1>14 DEF VacuumInto, Refuse, Counted
<1>15. CASE VacuumAlone
  <2>1. Read' = Read /\ tokens' = tokens  BY <1>3, <1>15, <1>0, TakeBack DEF VacuumAlone
  <2>2. VacuumAt(Read) /\ CountedUpTo(tokens, stmtKeywords, Read - 1)
    BY <1>15 DEF VacuumAlone, Position, Counted
  <2>3. Read - 1 \in Nat /\ (Read - 1) + 1 = Read  BY <1>1, <2>2 DEF VacuumAt, Firsts
  <2>4. ~Refused(tokens, Read)
    <3>1. Read + 1 <= Len(tokens) => tokens[Read + 1] \notin SchemaNames \cup {"INTO"}
      BY <1>1, <1>15 DEF VacuumAlone
    <3>2. Read + 2 <= Len(tokens) => Read + 1 <= Len(tokens)  BY <1>1
    <3> QED  BY <2>2, <3>1, <3>2 DEF Refused, VacuumAt, SchemaNames, Symbols
  <2>5. CountedUpTo(tokens, stmtKeywords', Read)
    BY <1>1, <1>15, <2>2, <2>3, <2>4, CountedAdd DEF VacuumAlone, VacuumAt
  <2>6. NextBehindSemicolon(tokens, Read)  BY <1>1, <2>2, LeaderAlone DEF VacuumAt
  <2> QED  BY <1>15, <2>1, <2>5, <2>6 DEF VacuumAlone, Counted
<1>16. CASE VacuumSchema
  BY <1>2, <1>6, <1>16 DEF VacuumSchema, Counted
<1>17. CASE VacuumSecond
  <2>1. CASE NextToken = "INTO" /\ Refuse
    BY <1>17, <2>1 DEF VacuumSecond, Refuse, Counted
  <2>2. CASE NextToken # "INTO" /\ stmtKeywords' = Append(stmtKeywords, "VACUUM") /\ at' = "rest"
    <3>1. /\ VacuumAt(Read - 1) /\ first = Tok(Read)
          /\ CountedUpTo(tokens, stmtKeywords, Read - 2)
      BY <1>17 DEF VacuumSecond, Position, Counted
    <3>2. /\ Read >= 1 /\ Read - 2 \in Nat /\ (Read - 2) + 1 = Read - 1
          /\ (Read - 1) + 1 = Read /\ (Read - 1) + 2 = Read + 1
      BY <1>1, <3>1 DEF VacuumAt, Firsts
    <3>3. Read' = Read - 1 /\ tokens' = tokens
      BY <1>3, <1>17, <3>1, <3>2, <1>0, TakeBackTwo DEF VacuumSecond
    <3>4. ~Refused(tokens, Read - 1)
      <4>1. Read <= Len(tokens) => tokens[Read] \in SchemaNames
        BY <1>17 DEF VacuumSecond, Position, Tok, TokenAt
      <4>2. Read + 1 <= Len(tokens) => tokens[Read + 1] # "INTO"  BY <1>1, <2>2
      <4> QED  BY <3>1, <3>2, <4>1, <4>2 DEF Refused, VacuumAt, SchemaNames, Symbols
    <3>5. CountedUpTo(tokens, stmtKeywords', Read - 1)
      BY <1>1, <2>2, <3>1, <3>2, <3>4, CountedAdd DEF VacuumAt
    <3>6. NextBehindSemicolon(tokens, Read - 1)  BY <1>1, <3>1, LeaderAlone DEF VacuumAt
    <3> QED  BY <2>2, <3>3, <3>5, <3>6 DEF Counted
  <2> QED  BY <1>17, <2>1, <2>2 DEF VacuumSecond
<1>18. CASE WithEnd
  <2>1. CountedUpTo(tokens, stmtKeywords, Read) /\ Read + 1 > Len(tokens)
    BY <1>1, <1>18 DEF WithEnd, Counted
  <2>2. Read + 1 \notin LeaderPlaces(tokens) /\ NextBehindSemicolon(tokens, Read + 1)
    BY <1>1, <1>5, <2>1 DEF NextBehindSemicolon
  <2>3. CountedUpTo(tokens, stmtKeywords, Read + 1)  BY <1>1, <2>1, <2>2, CountedSkip
  <2> QED  BY <1>2, <1>18, <2>2, <2>3 DEF WithEnd, Counted
<1>19. CASE WithParenthesis
  <2>1. /\ CountedUpTo(tokens, stmtKeywords, Read) /\ ReadingOn(tokens, Read, depth)
        /\ tokens[Read + 1] \in {"(", ")"}
    BY <1>1, <1>19 DEF WithParenthesis, Counted
  <2>2. depth' = After(tokens[Read + 1], depth)
    BY <1>1, <1>19 DEF WithParenthesis, After
  <2>3. /\ Read + 1 \notin LeaderPlaces(tokens) \/ ReadOver(tokens, Read + 1)
        /\ ReadingOn(tokens, Read + 1, depth')
    BY <1>1, <2>1, <2>2, ReadsOn DEF DML
  <2>4. CountedUpTo(tokens, stmtKeywords, Read + 1)  BY <1>1, <2>1, <2>3, CountedSkip
  <2> QED  BY <1>2, <1>19, <2>3, <2>4 DEF WithParenthesis, Counted
<1>20. CASE WithBody
  <2>1. /\ CountedUpTo(tokens, stmtKeywords, Read) /\ ReadingOn(tokens, Read, 0)
        /\ NextToken = tokens[Read + 1] /\ tokens[Read + 1] \in DML
    BY <1>1, <1>20 DEF WithBody, Counted, DML
  <2>2. ~Refused(tokens, Read + 1)  BY <2>1 DEF Refused, DML, Symbols
  <2>3. CountedUpTo(tokens, stmtKeywords', Read + 1)
    BY <1>1, <1>20, <2>1, <2>2, CountedAdd DEF WithBody
  <2>4. NextBehindSemicolon(tokens, Read + 1)  BY <1>1, <2>1, ReadsToKeyword
  <2> QED  BY <1>2, <1>20, <2>3, <2>4 DEF WithBody, Counted
<1>21. CASE WithSkip
  <2>1. /\ CountedUpTo(tokens, stmtKeywords, Read) /\ ReadingOn(tokens, Read, depth)
        /\ tokens[Read + 1] \notin {"(", ")"} /\ (tokens[Read + 1] \in DML => depth > 0)
    BY <1>1, <1>21 DEF WithSkip, Counted, DML
  <2>2. After(tokens[Read + 1], depth) = depth  BY <2>1 DEF After
  <2>3. /\ Read + 1 \notin LeaderPlaces(tokens) \/ ReadOver(tokens, Read + 1)
        /\ ReadingOn(tokens, Read + 1, depth)
    BY <1>1, <2>1, <2>2, ReadsOn
  <2>4. CountedUpTo(tokens, stmtKeywords, Read + 1)  BY <1>1, <2>1, <2>3, CountedSkip
  <2> QED  BY <1>2, <1>21, <2>3, <2>4 DEF WithSkip, Counted
<1> QED
  BY <1>8, <1>9, <1>10, <1>11, <1>12, <1>13, <1>14, <1>15, <1>16, <1>17, <1>18, <1>19, <1>20, <1>21
  DEF Step

-----------------------------------------------------------------------------
(* The invariant, and what follows from it.                                *)

(* Before the first call of the lexer. *)
LEMMA LexerInit ==
  ASSUME New
  PROVE  LexerInv
<1>1. /\ input \in Seq(Atoms) /\ Len(input) \in Nat /\ pos = 1 /\ start = 1
      /\ reading = "nothing" /\ returned = <<>> /\ Len(returned) = 0
  <2>1. input \in Seq(Atoms)  BY TextsAssumption DEF New
  <2>2. returned = <<>>  BY DEF New
  <2>3. Len(returned) = 0  BY <2>2
  <2> QED  BY <2>1, <2>2, <2>3 DEF New
<1>2. LexerType  BY <1>1 DEF LexerType
<1>3. Correct  BY <1>1 DEF Correct
<1>4. UpTo(Starts, 0) = 0
  <2>1. \A s \in Starts : s \in 1..Len(input)  BY <1>2, TokensHere
  <2>2. {q \in Starts : q <= 0} = {}  BY <2>1
  <2> QED  BY <2>2, FS_EmptySet DEF UpTo
<1>5. Returned(pos - 1)
  <2>1. pos - 1 = 0  BY <1>1
  <2> QED  BY <1>1, <1>4, <2>1 DEF Returned
<1>6. AtToken(pos)
  <2>1. CASE Len(input) = 0
    <3>1. input = <<>>  BY <1>1, <2>1
    <3> QED  BY <1>1, <2>1, <3>1 DEF AtToken, Unclosed
  <2>2. CASE Len(input) # 0
    BY <1>1, <2>2, ModeSteps DEF AtToken, Mode
  <2> QED  BY <2>1, <2>2
<1>7. InLoop  BY <1>1, <1>5, <1>6 DEF InLoop, Between
<1> QED  BY <1>2, <1>3, <1>7 DEF LexerInv

LEMMA InvariantInit ==
  ASSUME Init
  PROVE  IInv
<1>1. LexerInv /\ LexerType  BY LexerInit DEF Init, LexerInv
<1>2. /\ taken = 0 /\ buf = <<>> /\ Len(buf) = 0 /\ Read = 0 /\ Len(returned) = 0
      /\ reading = "nothing" /\ stmtKeywords = <<>>
  <2>1. taken = 0 /\ reading = "nothing"  BY DEF Init, New
  <2>2. buf = <<>> /\ returned = <<>>  BY DEF Init, New
  <2>3. Len(buf) = 0 /\ Len(returned) = 0  BY <2>2
  <2>4. Read = 0  BY <2>1, <2>3 DEF Read
  <2> QED  BY <2>1, <2>2, <2>3, <2>4 DEF Init
<1>3. TypeOK
  BY <1>1, <1>2, CategoriesAre DEF Init, TypeOK, LexerType, TokenTypes
<1>4. PushedBack  BY <1>2 DEF PushedBack
<1>5. Position  BY <1>2 DEF Init, Position
<1>6. tokens \in Found /\ Len(tokens) \in Nat  BY <1>3, ReadIs
<1>7. InCall  BY <1>2, <1>6 DEF InCall
<1>8. FoundAll(tokens, <<>>, 0)
  <2>1. \A p \in LeaderPlaces(tokens) : ~(p <= 0)  BY <1>6, LeadersAreTokens
  <2>2. {q \in LeaderPlaces(tokens) : q <= 0} = {}  BY <2>1
  <2>3. Rank(tokens, 0) = 0  BY <2>2, FS_EmptySet DEF Rank, UpTo
  <2>4. Len(<<>>) = 0 /\ \A i \in 1..0 : FALSE  OBVIOUS
  <2>5. FoundUpTo(tokens, <<>>, 0)  BY <2>1, <2>3, <2>4 DEF FoundUpTo
  <2>6. NoneRefused(tokens, 0)  BY <2>1 DEF NoneRefused, LeaderPlaces
  <2> QED  BY <2>5, <2>6 DEF FoundAll
<1>9. Progress  BY <1>2, <1>8 DEF Init, Progress
<1>10. Counted
  <2>1. \A p \in LeaderPlaces(tokens) : ~(p <= 0)  BY <1>6, LeadersAreTokens
  <2>2. CountedUpTo(tokens, <<>>, 0)  BY <2>1 DEF CountedUpTo
  <2> QED  BY <1>2, <2>2 DEF Init, Counted
<1> QED  BY <1>1, <1>3, <1>4, <1>5, <1>7, <1>9, <1>10 DEF IInv, Stack

(* A step of the lexer goes on, or returns one token.                      *)
LEMMA LexerMoves ==
  ASSUME LexerType, LexerStep
  PROVE  /\ input' = input /\ tokens' = tokens /\ reading # "nothing"
         /\ \/ reading' # "nothing" /\ returned' = returned
            \/ /\ reading' = "nothing"
               /\ \E type : returned' = Append(returned, type)
<1> USE DEF GoOn, Return
<1>1. reading # "nothing"
  BY DEF LexerStep, SkipSpace, SkipLine, SkipBlock, Switch, ReadQuoted, ReadWord
<1>2. ASSUME NEW loop \in {"space", "line", "block", "quoted", "word"}, NEW to, GoOn(loop, to)
      PROVE  input' = input /\ reading' # "nothing" /\ returned' = returned
  BY <1>2
<1>3. ASSUME NEW type, NEW to, Return(type, to)
      PROVE  input' = input /\ reading' = "nothing" /\ returned' = Append(returned, type)
  BY <1>3
<1> HIDE DEF GoOn, Return
<1>4. /\ input' = input
      /\ \/ reading' # "nothing" /\ returned' = returned
         \/ /\ reading' = "nothing"
            /\ \E type : returned' = Append(returned, type)
  <2>1. CASE SkipSpace  BY <1>2, <2>1 DEF SkipSpace
  <2>2. CASE SkipLine  BY <1>2, <2>2 DEF SkipLine
  <2>3. CASE SkipBlock  BY <1>2, <2>3 DEF SkipBlock
  <2>4. CASE Switch
    <3>1. CASE \E loop \in {"quoted", "word"} : GoOn(loop, pos + 1)  BY <1>2, <3>1
    <3>2. CASE \E type, to : Return(type, to)  BY <1>3, <3>2
    <3> QED  BY <2>4, <3>1, <3>2 DEF Switch
  <2>5. CASE ReadQuoted
    <3>1. CASE \E to : GoOn("quoted", to)  BY <1>2, <3>1
    <3>2. CASE \E type, to : Return(type, to)  BY <1>3, <3>2
    <3> QED  BY <2>5, <3>1, <3>2 DEF ReadQuoted
  <2>6. CASE ReadWord
    <3>1. CASE GoOn("word", pos + 1)  BY <1>2, <3>1
    <3>2. CASE \E type, to : Return(type, to)  BY <1>3, <3>2
    <3> QED  BY <2>6, <3>1, <3>2 DEF ReadWord
  <2> QED  BY <2>1, <2>2, <2>3, <2>4, <2>5, <2>6 DEF LexerStep
<1>5. tokens' = tokens  BY <1>4 DEF tokens
<1> QED  BY <1>1, <1>4, <1>5

\* What ClassifySQL has made of the text so far.
Made == PushedBack /\ Position /\ (Progress \/ Lost) /\ Counted

LEMMA MadeStays ==
  ASSUME Made, tokens' = tokens, UNCHANGED classifier
  PROVE  Made'
<1>1. /\ taken' = taken /\ buf' = buf /\ at' = at /\ first' = first /\ depth' = depth
      /\ stmtKeywords' = stmtKeywords /\ result' = result
  BY DEF classifier
<1>2. Read' = Read /\ \A n : (Tok(n))' = Tok(n) /\ (VacuumAt(n))' = VacuumAt(n)
  BY <1>1 DEF Read, Tok, VacuumAt
<1>3. PushedBack'  BY <1>1 DEF Made, PushedBack, Tok
<1>4. Position'  BY <1>1, <1>2 DEF Made, Position
<1>5. Progress => Progress'  BY <1>1, <1>2 DEF Progress
<1>6. Lost => Lost'  BY <1>1 DEF Lost
<1>7. Counted => Counted'  BY <1>1, <1>2 DEF Counted
<1> QED  BY <1>3, <1>4, <1>5, <1>6, <1>7 DEF Made

LEMMA InvariantStep ==
  ASSUME IInv, [Next]_vars
  PROVE  IInv'
<1>0. Stack /\ TypeOK /\ LexerInv /\ LexerType /\ InCall /\ Position /\ Made
  BY DEF IInv, Stack, LexerInv, Made
<1>1. CASE Step
  <2>1. Stack'  BY <1>0, <1>1, TypeStep
  <2>2. Position'  BY <1>0, <1>1, PositionStep
  <2>3. Ready /\ UNCHANGED lexer /\ tokens' = tokens  BY <1>1, StepTakes
  <2>4. /\ Progress' \/ Lost'
        /\ Counted'
    BY <1>0, <1>1, ProgressStep, LostStep, CountedStep DEF Made
  <2>5. reading = "nothing"  BY <1>0, <2>3 DEF InCall, Ready
  <2>6. InCall'  BY <1>0, <2>3, <2>5 DEF InCall, lexer
  <2> QED  BY <2>1, <2>2, <2>4, <2>6 DEF IInv
<1>2. CASE Call
  <2>1. /\ UNCHANGED <<input, pos, start, returned, classifier>> /\ reading = "nothing"
        /\ reading' = "space" /\ at # "done" /\ ~Ready /\ tokens' = tokens
    BY <1>2 DEF Call, tokens
  <2>2. Mode' = Mode /\ Starts' = Starts /\ Unclosed' = Unclosed
    BY <2>1 DEF Mode, Starts, Unclosed
  <2>3. LexerInv'
    <3>1. LexerType' /\ Correct'  BY <1>0, <2>1 DEF LexerInv, LexerType, Correct
    <3>2. Between'
      BY <1>0, <2>1, <2>2 DEF LexerInv, InLoop, Between, Returned, AtToken, Is
    <3> QED  BY <2>1, <3>1, <3>2 DEF LexerInv, InLoop
  <2>4. Made'  BY <1>0, <2>1, MadeStays
  <2>5. InCall'
    <3>1. buf = <<>> /\ taken = Len(returned)  BY <1>0, <2>1 DEF Ready, TypeOK
    <3> QED  BY <1>0, <2>1, <3>1 DEF InCall, classifier
  <2>6. TypeOK'  BY <1>0, <2>1 DEF TypeOK, classifier
  <2> QED  BY <2>3, <2>4, <2>5, <2>6 DEF IInv, Stack, Made
<1>3. CASE LexerStep /\ UNCHANGED classifier
  <2>1. LexerInv'  BY <1>0, <1>3, LexerKeeps
  <2>2. /\ input' = input /\ tokens' = tokens /\ reading # "nothing"
        /\ \/ reading' # "nothing" /\ returned' = returned
           \/ /\ reading' = "nothing"
              /\ \E type : returned' = Append(returned, type)
    BY <1>0, <1>3, LexerMoves
  <2>3. Made'  BY <1>0, <1>3, <2>2, MadeStays
  <2>4. Len(returned) \in Nat /\ Len(tokens) \in Nat  BY <1>0, ReadIs
  <2>5. Len(returned') = Len(returned) \/ Len(returned') = Len(returned) + 1
    BY <1>0, <2>2 DEF TypeOK
  <2>6. /\ taken = Len(returned) /\ buf = <<>> /\ at # "done"
        /\ Len(returned) <= Len(tokens) + 1
    <3>1. taken = Len(returned) /\ buf = <<>> /\ at # "done"  BY <1>0, <2>2 DEF InCall
    <3>2. Read = Len(returned)
      <4>1. Len(buf) = 0  BY <3>1
      <4> QED  BY <2>4, <3>1, <4>1 DEF Read
    <3> QED  BY <1>0, <3>1, <3>2, ReadBound
  <2>7. InCall'
    <3>1. Len(returned') <= Len(tokens') + 2  BY <2>2, <2>4, <2>5, <2>6
    <3> QED  BY <1>3, <2>2, <2>6, <3>1 DEF InCall, classifier
  <2>8. TypeOK'
    <3>1. LexerType'  BY <2>1 DEF LexerInv
    <3>2. taken' \in 0..Len(returned')  BY <1>0, <1>3, <2>4, <2>5, <2>6 DEF classifier
    <3> QED  BY <1>0, <1>3, <3>1, <3>2 DEF TypeOK, LexerType, classifier
  <2> QED  BY <2>1, <2>3, <2>7, <2>8 DEF IInv, Stack, Made
<1>4. CASE UNCHANGED vars
  <2>1. UNCHANGED lexer /\ UNCHANGED classifier  BY <1>4 DEF vars
  <2>2. tokens' = tokens  BY <2>1 DEF lexer, tokens
  <2>3. LexerInv'  BY <1>0, <2>1, LexerStays
  <2>4. Made'  BY <1>0, <2>1, <2>2, MadeStays
  <2>5. TypeOK' /\ InCall'  BY <1>0, <2>1, <2>2 DEF TypeOK, InCall, lexer, classifier
  <2> QED  BY <2>3, <2>4, <2>5 DEF IInv, Stack, Made
<1> QED  BY <1>1, <1>2, <1>3, <1>4 DEF Next

(* The inductive invariant: where the lexer is in the text, that what is   *)
(* pushed back is what was taken last, and that what has been found is     *)
(* what leads up to the token read last, or up to a WITH without a keyword;*)
(* and that, behind such a WITH too, what is not read over counts.         *)
THEOREM ClassifierInvariant == Spec => []IInv
<1>1. Init => IInv  BY InvariantInit
<1>2. IInv /\ [Next]_vars => IInv'  BY InvariantStep
<1> QED  BY <1>1, <1>2, PTL DEF Spec

(* The variables keep their types: two tokens are pushed back at most.     *)
THEOREM TypeCorrect == Spec => []TypeOK
<1>1. IInv => TypeOK  BY DEF IInv, Stack
<1> QED  BY <1>1, ClassifierInvariant, PTL

(* The lexer returns the tokens of the text one after another, for every   *)
(* text: what stands in a literal, an identifier or a comment is none.     *)
THEOREM LexerReadsTextAlways == Spec => []LexerReadsText
<1>1. IInv => LexerReadsText
  BY DEF IInv, Stack, LexerInv, Correct, LexerReadsText, tokens
<1> QED  BY <1>1, ClassifierInvariant, PTL

(* At the end, no statement is refused that has each WITH in front of it   *)
(* resolved, and the keywords of the leaders there are found.              *)
LEMMA FoundWhereResolved ==
  ASSUME IInv, at = "done", result # "refused", NEW p \in LeaderPlaces(tokens),
         Resolved(tokens, p)
  PROVE  /\ Rank(tokens, p) \in 1..Len(stmtKeywords)
         /\ stmtKeywords[Rank(tokens, p)] = tokens[p]
         /\ p \in Firsts(tokens) => ~Refused(tokens, p)
<1>1. /\ tokens \in Found /\ Len(tokens) \in Nat /\ stmtKeywords \in Seq(TokenTypes)
      /\ p \in Nat /\ p <= Len(tokens)
  <2>1. TypeOK  BY DEF IInv, Stack
  <2>2. tokens \in Found /\ Len(tokens) \in Nat  BY <2>1, ReadIs
  <2>3. p \in 1..Len(tokens)  BY <2>2, LeadersAreTokens
  <2> QED  BY <2>1, <2>2, <2>3 DEF TypeOK
<1>2. CASE Progress
  <2>1. FoundAll(tokens, stmtKeywords, Len(tokens))  BY <1>2 DEF Progress
  <2>2. Rank(tokens, p) \in 1..Rank(tokens, Len(tokens))  BY <1>1, RankBounds
  <2> QED  BY <1>1, <2>1, <2>2 DEF FoundAll, FoundUpTo, NoneRefused
<1>3. CASE Lost
  <2>1. PICK w \in Withs(tokens) : /\ Body(tokens, w) = {}
                                  /\ FoundPrefix(tokens, stmtKeywords, w)
                                  /\ NoneRefused(tokens, w)
    BY <1>3 DEF Lost
  <2>2. w \in Nat  BY DEF Withs, Firsts
  <2>3. ~(w < p)  BY <2>1 DEF Resolved
  <2>4. p <= w  BY <1>1, <2>2, <2>3
  <2>5. Rank(tokens, p) \in 1..Rank(tokens, w) /\ Rank(tokens, w) \in Nat
    BY <1>1, <2>2, <2>4, RankBounds, RankStep
  <2>6. Rank(tokens, w) <= Len(stmtKeywords)  BY <2>1 DEF FoundPrefix
  <2>7. Rank(tokens, p) \in 1..Len(stmtKeywords)
    BY <1>1, <2>5, <2>6
  <2> QED  BY <2>1, <2>4, <2>7 DEF FoundPrefix, NoneRefused
<1> QED  BY <1>2, <1>3 DEF IInv

(* If each WITH has its keyword, there are no others.                      *)
LEMMA FoundIfResolved ==
  ASSUME IInv, at = "done", result # "refused", HasBody(tokens)
  PROVE  FoundUpTo(tokens, stmtKeywords, Len(tokens))
<1>1. ~Lost  BY DEF Lost, HasBody
<1> QED  BY <1>1 DEF IInv, Progress, FoundAll

(* ClassifySQL refuses a text only if one of its statements is refused, and *)
(* for every text a statement that is refused by itself is run only if     *)
(* resolveWithBody reads over it.                                          *)
THEOREM RefusedUnlessReadOverAlways == Spec => []RefusedUnlessReadOver
<1>1. IInv => RefusedUnlessReadOver
  <2>1. ASSUME IInv, at = "done", result = "refused"
        PROVE  \E b \in Firsts(tokens) : Refused(tokens, b)
    BY <2>1 DEF IInv, Position
  <2>2. ASSUME IInv, at = "done", result # "refused", NEW b \in Firsts(tokens),
               Refused(tokens, b)
        PROVE  ReadOver(tokens, b)
    <3>1. b <= Len(tokens) /\ b \in LeaderPlaces(tokens)
      <4>1. tokens \in Found  BY <2>2, ReadIs DEF IInv, Stack
      <4> QED  BY <4>1 DEF Firsts, LeaderPlaces, Found
    <3>2. Counts(tokens, stmtKeywords, b) \/ ReadOver(tokens, b)
      BY <2>2, <3>1 DEF IInv, Counted, CountedUpTo
    <3> QED  BY <2>2, <3>2 DEF Counts
  <2> QED  BY <2>1, <2>2 DEF RefusedUnlessReadOver
<1> QED  BY <1>1, ClassifierInvariant, PTL

LEMMA LeadersAre ==
  ASSUME NEW tok \in Found, NEW keywords \in Seq(TokenTypes),
         FoundUpTo(tok, keywords, Len(tok))
  PROVE  keywords = Leaders(tok)
<1> DEFINE S == LeaderPlaces(tok)
           N == Cardinality(S)
<1>1. S \subseteq 1..Len(tok) /\ Len(tok) \in Nat /\ N \in Nat
  BY LeadersAreTokens, FS_CardinalityType DEF Found
<1>2. Rank(tok, Len(tok)) = N
  <2>1. {q \in S : q <= Len(tok)} = S  BY <1>1
  <2> QED  BY <2>1 DEF Rank, UpTo
<1>3. Len(keywords) = N  BY <1>2 DEF FoundUpTo
<1>4. Ascending(S) = [n \in 1..N |-> CHOOSE i \in S : Rank(tok, i) = n]
  BY DEF Ascending, Rank, UpTo
<1>5. ASSUME NEW n \in 1..N
      PROVE  keywords[n] = tok[CHOOSE i \in S : Rank(tok, i) = n]
  <2>1. \E i \in S : Rank(tok, i) = n  BY <1>3 DEF FoundUpTo
  <2>2. PICK p : p = CHOOSE i \in S : Rank(tok, i) = n  OBVIOUS
  <2>3. p \in S /\ Rank(tok, p) = n  BY <2>1, <2>2
  <2>4. keywords[Rank(tok, p)] = tok[p]  BY <1>1, <2>3 DEF FoundUpTo
  <2> QED  BY <2>2, <2>3, <2>4
<1>6. Len(Ascending(S)) = N /\ \A n \in 1..N : Ascending(S)[n] = CHOOSE i \in S : Rank(tok, i) = n
  <2> HIDE DEF S, N
  <2> QED  BY <1>1, <1>4
<1>7. Leaders(tok) = [n \in 1..N |-> tok[Ascending(S)[n]]]
  BY <1>6 DEF Leaders
<1>8. keywords = [n \in 1..N |-> keywords[n]]  BY <1>3
<1>9. \A n \in 1..N : keywords[n] = tok[Ascending(S)[n]]  BY <1>5, <1>6
<1> HIDE DEF S, N
<1> QED  BY <1>7, <1>8, <1>9

(* Of any text that is not refused, the keywords found are those that lead *)
(* the statements, in order, as far as each WITH has its keyword.          *)
THEOREM LeadersFoundAlways == Spec => []LeadersFound
<1>1. IInv => LeadersFound
  <2> DEFINE places == Ascending(LeaderPlaces(tokens))
  <2> SUFFICES ASSUME IInv, at = "done", result # "refused"
               PROVE  /\ \A n \in 1..Len(places) : Resolved(tokens, places[n]) =>
                           n <= Len(stmtKeywords) /\ stmtKeywords[n] = tokens[places[n]]
                      /\ HasBody(tokens) => stmtKeywords = Leaders(tokens)
    BY DEF LeadersFound
  <2>1. /\ stmtKeywords \in Seq(TokenTypes) /\ Len(stmtKeywords) \in Nat
        /\ tokens \in Found /\ Len(tokens) \in Nat
    BY ReadIs DEF IInv, Stack, TypeOK
  <2>2. \A q \in LeaderPlaces(tokens) : q \in 1..Len(tokens)  BY <2>1, LeadersAreTokens
  <2>3. ASSUME NEW n \in 1..Len(places), Resolved(tokens, places[n])
        PROVE  n <= Len(stmtKeywords) /\ stmtKeywords[n] = tokens[places[n]]
    <3>1. places[n] \in LeaderPlaces(tokens) /\ Rank(tokens, places[n]) = n
      <4>1. n \in 1..Cardinality(LeaderPlaces(tokens))  BY <2>1, <2>2, AscendingAt
      <4> QED  BY <2>1, <2>2, <4>1, AscendingAt DEF Rank
    <3> HIDE DEF places
    <3>2. Rank(tokens, places[n]) \in 1..Len(stmtKeywords)
          /\ stmtKeywords[Rank(tokens, places[n])] = tokens[places[n]]
      BY <2>3, <3>1, FoundWhereResolved
    <3> QED  BY <2>1, <3>1, <3>2
  <2>4. HasBody(tokens) => stmtKeywords = Leaders(tokens)
    BY <2>1, FoundIfResolved, LeadersAre
  <2> QED  BY <2>3, <2>4
<1> QED  BY <1>1, ClassifierInvariant, PTL

(* For every text and role: a statement that the role may not run by       *)
(* itself is run only if resolveWithBody reads over it; and if each WITH   *)
(* has its keyword, a role that may run each statement may run the text.   *)
THEOREM PermittedUnlessReadOverAlways == Spec => []PermittedUnlessReadOver
<1>1. IInv => PermittedUnlessReadOver
  <2> SUFFICES ASSUME IInv, at = "done", result \in CategoryNames, NEW role
               PROVE  /\ Permitted(role, result) =>
                           \A n \in LeaderPlaces(tokens) :
                             Permitted(role, Categorize(tokens[n])) \/ ReadOver(tokens, n)
                      /\ /\ HasBody(tokens)
                         /\ \A n \in LeaderPlaces(tokens) :
                              Permitted(role, Categorize(tokens[n]))
                         => Permitted(role, result)
    BY CategoriesAre DEF PermittedUnlessReadOver
  <2>1. /\ stmtKeywords \in Seq(TokenTypes) /\ stmtKeywords # <<>>
        /\ result = Highest(stmtKeywords) /\ result # "refused"
    BY DEF IInv, Stack, TypeOK, Position, CategoryNames
  <2>2. ASSUME Permitted(role, result), NEW n \in LeaderPlaces(tokens), ~ReadOver(tokens, n)
        PROVE  Permitted(role, Categorize(tokens[n]))
    <3>1. n <= Len(tokens)
      <4>1. tokens \in Found /\ Len(tokens) \in Nat  BY ReadIs DEF IInv, Stack
      <4> QED  BY <4>1, LeadersAreTokens
    <3>2. Counts(tokens, stmtKeywords, n)
      BY <2>1, <2>2, <3>1 DEF IInv, Counted, CountedUpTo
    <3>3. PICK i \in 1..Len(stmtKeywords) : stmtKeywords[i] = tokens[n]  BY <3>2 DEF Counts
    <3>4. Priority(Categorize(tokens[n])) <= Priority(result)
      BY <2>1, <3>3, HighestIs
    <3> QED  BY <2>1, <2>2, <3>3, <3>4, PermittedBelow, CategorizeType
  <2>3. ASSUME HasBody(tokens),
               \A n \in LeaderPlaces(tokens) : Permitted(role, Categorize(tokens[n]))
        PROVE  Permitted(role, result)
    <3>1. PICK i \in 1..Len(stmtKeywords) : result = Categorize(stmtKeywords[i])
      BY <2>1, HighestIs
    <3>2. FoundUpTo(tokens, stmtKeywords, Len(tokens))  BY <2>1, <2>3, FoundIfResolved
    <3>3. PICK p \in LeaderPlaces(tokens) : p <= Len(tokens) /\ Rank(tokens, p) = i
      BY <3>2 DEF FoundUpTo
    <3>4. stmtKeywords[i] = tokens[p]  BY <3>2, <3>3 DEF FoundUpTo
    <3> QED  BY <2>3, <3>1, <3>4
  <2> QED  BY <2>2, <2>3
<1> QED  BY <1>1, ClassifierInvariant, PTL

(* What there is to read in the text, when the lexer is where it is.       *)
ToRead == 7 * (Len(input) + 3 - pos - Ends) + Phase(reading)

LEMMA EndsAre ==
  ASSUME TypeOK
  PROVE  /\ Ends \in Nat
         /\ \A type : returned' = Append(returned, type) =>
              Ends' = Ends + IF type = "EOF" THEN 1 ELSE 0
<1> DEFINE n == Len(returned)
<1>1. n \in Nat /\ 1 \in Nat /\ 1 <= n + 1  BY DEF TypeOK
<1>2. \A tok : CountOf(tok, "EOF", 1, n) \in Nat
                /\ CountOf(tok, "EOF", 1, n + 1) =
                     CountOf(tok, "EOF", 1, n) + IF tok[n + 1] = "EOF" THEN 1 ELSE 0
  <2> HIDE DEF n
  <2> QED  BY <1>1, CountStep
<1>3. Ends = CountOf(returned, "EOF", 1, n)  BY DEF Ends, CountOf
<1>4. ASSUME NEW type, returned' = Append(returned, type)
      PROVE  Ends' = Ends + IF type = "EOF" THEN 1 ELSE 0
  <2>1. Len(returned') = n + 1 /\ returned'[n + 1] = type
        /\ \A i \in 1..n : returned'[i] = returned[i]
    BY <1>4 DEF TypeOK
  <2>2. {i \in 1..n : returned'[i] = "EOF"} = {i \in 1..n : returned[i] = "EOF"}
    BY <2>1
  <2>3. CountOf(returned', "EOF", 1, n) = CountOf(returned, "EOF", 1, n)
    BY <2>2 DEF CountOf
  <2>4. Ends' = CountOf(returned', "EOF", 1, n + 1)  BY <2>1 DEF Ends, CountOf
  <2> QED  BY <1>2, <1>3, <2>1, <2>3, <2>4
<1> QED  BY <1>2, <1>3, <1>4

LEMMA ToReadIs ==
  ASSUME TypeOK
  PROVE  ToRead \in Int /\ Phase(reading) \in 1..7
<1>1. Len(input) \in Nat /\ pos \in Nat /\ Ends \in Nat  BY EndsAre DEF TypeOK
<1>2. Phase(reading) \in 1..7  BY DEF Phase
<1>3. PICK n \in Nat, p \in Nat, e \in Nat, a \in 1..7 :
        n = Len(input) /\ p = pos /\ e = Ends /\ a = Phase(reading)
  BY <1>1, <1>2
<1>4. 7 * (n + 3 - p - e) + a \in Int  OBVIOUS
<1> QED  BY <1>2, <1>3, <1>4 DEF ToRead

(* The end is returned twice at most. *)
LEMMA EndsBound ==
  ASSUME IInv
  PROVE  Ends <= 2
<1>1. /\ TypeOK /\ Correct /\ Len(returned) \in Nat /\ Len(tokens) \in Nat
      /\ Len(returned) <= Len(tokens) + 2
      /\ \A n \in 1..Len(tokens) : tokens[n] # "EOF"
  BY ReadIs DEF IInv, Stack, LexerInv, InCall
<1> DEFINE E == {n \in 1..Len(returned) : returned[n] = "EOF"}
           m == Len(tokens) + 1
<1>2. E \subseteq m..(m + 1)
  <2>1. ASSUME NEW n \in E  PROVE n > Len(tokens)
    <3>1. TokenAt(tokens, n) = "EOF"  BY <1>1 DEF Correct
    <3> QED  BY <1>1, <3>1 DEF TokenAt
  <2> QED  BY <1>1, <2>1
<1>3. IsFiniteSet(m..(m + 1)) /\ Cardinality(m..(m + 1)) = 2
  BY <1>1, FS_Interval
<1>4. Cardinality(E) <= 2  BY <1>2, <1>3, FS_Subset
<1> QED  BY <1>4 DEF Ends

(* Each step of the lexer, and each call of it, lowers what is to be read. *)
LEMMA LexerAdvances ==
  ASSUME TypeOK, UNCHANGED classifier, Call \/ LexerStep
  PROVE  Remaining' < Remaining
<1>1. /\ Len(input) \in Nat /\ pos \in Nat /\ Ends \in Nat /\ Len(returned) \in Nat
      /\ taken \in Nat /\ Len(buf) \in Nat
      /\ \A type : returned' = Append(returned, type) =>
           Ends' = Ends + IF type = "EOF" THEN 1 ELSE 0
  BY EndsAre DEF TypeOK
<1>2. UNCHANGED <<taken, buf, at>>  BY DEF classifier
<1> DEFINE more == 4 * (Len(buf) - taken) + LookAhead(at)
           Left(r, p, e, l) == 7 * (Len(input) + 3 - p - e) + 4 * l + Phase(r)
<1>3. LookAhead(at) \in Int /\ more \in Int  BY <1>1 DEF LookAhead
<1>4. Phase("space") = 1 /\ Phase("line") = 2 /\ Phase("block") = 2 /\ Phase("nothing") = 2
      /\ Phase("quoted") = 7 /\ Phase("word") = 7
  BY DEF Phase
<1>5. Remaining = Left(reading, pos, Ends, Len(returned)) + more
  <2>1. Phase(reading) \in Int  BY ToReadIs
  <2> QED  BY <1>1, <1>3, <2>1 DEF Remaining
<1>6. ASSUME input' = input, NEW p \in Nat, pos' = p, NEW e \in Nat, Ends' = e,
             NEW l \in Nat, Len(returned') = l, Phase(reading') \in Int,
             Left(reading', p, e, l) < Left(reading, pos, Ends, Len(returned))
      PROVE  Remaining' < Remaining
  <2>1. Remaining' = 7 * (Len(input) + 3 - p - e) + 4 * (l - taken + Len(buf))
                       + Phase(reading') + LookAhead(at)
    BY <1>2, <1>6 DEF Remaining
  <2>2. Remaining' = Left(reading', p, e, l) + more
    BY <1>1, <1>3, <1>6, <2>1
  <2>3. Left(reading', p, e, l) \in Int
    <3>1. PICK n \in Nat, a \in Int : n = Len(input) /\ a = Phase(reading')  BY <1>1, <1>6
    <3>2. 7 * (n + 3 - p - e) + 4 * l + a \in Int  OBVIOUS
    <3> QED  BY <3>1, <3>2
  <2>4. Left(reading, pos, Ends, Len(returned)) \in Int
    <3>1. PICK n \in Nat, q \in Nat, f \in Nat, m \in Nat, b \in 1..7 :
            /\ n = Len(input) /\ q = pos /\ f = Ends /\ m = Len(returned)
            /\ b = Phase(reading)
      BY <1>1, ToReadIs
    <3>2. 7 * (n + 3 - q - f) + 4 * m + b \in Int  OBVIOUS
    <3> QED  BY <3>1, <3>2
  <2> HIDE DEF Left, more
  <2> QED  BY <1>3, <1>5, <1>6, <2>2, <2>3, <2>4
<1> HIDE DEF more
<1>7. CASE Call
  <2>1. input' = input /\ pos' = pos /\ returned' = returned /\ reading = "nothing" /\ reading' = "space"
    BY <1>7 DEF Call
  <2>2. Ends' = Ends  BY <2>1 DEF Ends
  <2> QED  BY <1>1, <1>4, <1>6, <2>1, <2>2
<1>8. ASSUME NEW loop \in {"space", "line", "block", "quoted", "word"}, NEW to \in Nat, GoOn(loop, to),
             \/ to >= pos + 1 /\ Phase(loop) < Phase(reading) + 7
             \/ to = pos /\ Phase(loop) < Phase(reading)
      PROVE  Remaining' < Remaining
  <2>1. input' = input /\ pos' = to /\ returned' = returned /\ reading' = loop
    BY <1>8 DEF GoOn
  <2>2. Ends' = Ends  BY <2>1 DEF Ends
  <2>3. Phase(loop) \in 1..7 /\ Phase(reading) \in 1..7  BY <1>4, ToReadIs
  <2>4. Left(loop, to, Ends, Len(returned)) < Left(reading, pos, Ends, Len(returned))
    <3>1. PICK a \in 1..7, b \in 1..7 : a = Phase(loop) /\ b = Phase(reading)  BY <2>3
    <3>2. PICK n \in Nat, p \in Nat, e \in Nat, l \in Nat :
            n = Len(input) /\ p = pos /\ e = Ends /\ l = Len(returned)
      BY <1>1
    <3>3. (to >= p + 1 /\ a < b + 7) \/ (to = p /\ a < b)  BY <1>8, <3>1, <3>2
    <3>4. 7 * (n + 3 - to - e) + 4 * l + a < 7 * (n + 3 - p - e) + 4 * l + b  BY <3>3
    <3> QED  BY <3>1, <3>2, <3>4
  <2> HIDE DEF Left
  <2> QED  BY <1>1, <1>6, <2>1, <2>2, <2>3, <2>4
<1>9. ASSUME NEW type, NEW to \in Nat, Return(type, to),
             \/ to >= pos + 1
             \/ to = pos /\ (type = "EOF" \/ Phase(reading) = 7)
      PROVE  Remaining' < Remaining
  <2>1. input' = input /\ pos' = to /\ returned' = Append(returned, type) /\ reading' = "nothing"
    BY <1>9 DEF Return
  <2>2. Len(returned') = Len(returned) + 1  BY <2>1 DEF TypeOK
  <2>3. Ends' = Ends + IF type = "EOF" THEN 1 ELSE 0  BY <1>1, <2>1
  <2>4. Phase(reading) \in 1..7 /\ Phase("nothing") = 2  BY <1>4, ToReadIs
  <2>5. PICK e \in Nat : e = Ends'  BY <1>1, <2>3
  <2>6. e >= Ends /\ (type = "EOF" => e = Ends + 1)  BY <1>1, <2>3, <2>5
  <2>7. Left("nothing", to, e, Len(returned) + 1) < Left(reading, pos, Ends, Len(returned))
    <3>1. PICK b \in 1..7 : b = Phase(reading)  BY <2>4
    <3>2. PICK n \in Nat, p \in Nat, f \in Nat, l \in Nat :
            n = Len(input) /\ p = pos /\ f = Ends /\ l = Len(returned)
      BY <1>1
    <3>3. /\ e >= f /\ to >= p
          /\ to >= p + 1 \/ (to = p /\ (e = f + 1 \/ b = 7))
      BY <1>9, <2>6, <3>1, <3>2
    <3>4. 7 * (n + 3 - to - e) + 4 * (l + 1) + 2 < 7 * (n + 3 - p - f) + 4 * l + b  BY <3>3
    <3> QED  BY <2>4, <3>1, <3>2, <3>4
  <2> HIDE DEF Left
  <2> QED  BY <1>1, <1>6, <2>1, <2>2, <2>4, <2>5, <2>7
<1> HIDE DEF Left
<1>10. pos + 1 \in Nat /\ pos + 2 \in Nat /\ pos + 2 >= pos + 1 /\ pos + 1 >= pos + 1  BY <1>1
<1>11. CASE SkipSpace
  BY <1>1, <1>4, <1>8, <1>10, <1>11 DEF SkipSpace
<1>12. CASE SkipLine
  BY <1>1, <1>4, <1>8, <1>10, <1>12 DEF SkipLine
<1>13. CASE SkipBlock
  BY <1>1, <1>4, <1>8, <1>10, <1>13 DEF SkipBlock
<1>14. CASE Switch
  <2>1. reading = "space"  BY <1>14 DEF Switch
  <2>2. CASE \E loop \in {"quoted", "word"} : GoOn(loop, pos + 1)
    BY <1>1, <1>4, <1>8, <1>10, <2>1, <2>2
  <2>3. CASE Return("EOF", pos)  BY <1>1, <1>9, <2>3
  <2>4. CASE \E type : Return(type, pos + 1)  BY <1>9, <1>10, <2>4
  <2> QED  BY <1>14, <2>2, <2>3, <2>4 DEF Switch
<1>15. CASE ReadQuoted
  <2>1. Phase(reading) = 7  BY <1>4, <1>15 DEF ReadQuoted
  <2>2. CASE GoOn("quoted", pos + 1) \/ GoOn("quoted", pos + 2)
    BY <1>1, <1>4, <1>8, <1>10, <2>1, <2>2
  <2>3. CASE \E type : Return(type, pos) \/ Return(type, pos + 1)
    BY <1>1, <1>9, <1>10, <2>1, <2>3
  <2> QED  BY <1>15, <2>2, <2>3 DEF ReadQuoted
<1>16. CASE ReadWord
  <2>1. Phase(reading) = 7  BY <1>4, <1>16 DEF ReadWord
  <2>2. CASE GoOn("word", pos + 1)  BY <1>1, <1>4, <1>8, <1>10, <2>1, <2>2
  <2>3. CASE \E type : Return(type, pos)  BY <1>1, <1>9, <2>1, <2>3
  <2> QED  BY <1>16, <2>2, <2>3 DEF ReadWord
<1> QED  BY <1>7, <1>11, <1>12, <1>13, <1>14, <1>15, <1>16 DEF LexerStep

(* Each step of ClassifySQL brings it nearer to its end.                   *)
LEMMA StepsAdvance ==
  ASSUME IInv, Step
  PROVE  Remaining' < Remaining
<1> USE DEF Reading, Refuse
<1>1. /\ Stack /\ TypeOK /\ PushedBack /\ Position /\ taken \in Nat /\ Len(buf) \in Nat
      /\ Len(returned) \in Nat /\ Read \in Nat /\ Ready /\ UNCHANGED lexer
  BY StepTakes, ReadIs DEF IInv, Stack
<1>2. taken' \in Nat /\ Len(buf') \in Nat
  <2>1. Stack'  BY <1>1, TypeStep
  <2> QED  BY <2>1 DEF Stack, TypeOK
<1>3. at \notin {"rest", "done"} => buf = <<>>  BY <1>1 DEF PushedBack
<1> DEFINE l == ToRead + 4 * Len(returned)
<1>4. /\ Remaining = l - 4 * Read + LookAhead(at)
      /\ Remaining' = l - 4 * Read' + LookAhead(at') /\ Read' \in Int /\ l \in Int
  <2>1. ToRead \in Int /\ ToRead' = ToRead /\ returned' = returned
    BY <1>1, ToReadIs DEF ToRead, Ends, lexer
  <2>2. LookAhead(at) \in Int /\ LookAhead(at') \in Int  BY DEF LookAhead
  <2>3. Remaining = ToRead + 4 * (Len(returned) - taken + Len(buf)) + LookAhead(at)
    <3>1. Phase(reading) \in Int /\ Ends \in Int  BY <1>1, ToReadIs, EndsAre
    <3> QED  BY <1>1, <2>2, <3>1 DEF Remaining, ToRead, TypeOK
  <2>4. Remaining' = ToRead + 4 * (Len(returned) - taken' + Len(buf')) + LookAhead(at')
    <3>1. /\ Phase(reading) \in Int /\ Ends \in Int /\ pos \in Int /\ Len(input) \in Int
          /\ Phase(reading') = Phase(reading) /\ Ends' = Ends /\ pos' = pos /\ input' = input
      BY <1>1, ToReadIs, EndsAre DEF lexer, Ends, TypeOK
    <3> QED  BY <1>1, <1>2, <2>1, <2>2, <3>1 DEF Remaining, ToRead
  <2>5. /\ Read \in Int /\ Read' \in Int
        /\ Read = taken - Len(buf) /\ Read' = taken' - Len(buf')
    BY <1>1, <1>2 DEF Read
  <2>6. l \in Int /\ l = ToRead + 4 * Len(returned)  BY <1>1, <2>1
  <2> HIDE DEF l
  <2>7. Remaining = l - 4 * Read + LookAhead(at)
    BY <1>1, <2>1, <2>2, <2>3, <2>5, <2>6
  <2>8. Remaining' = l - 4 * Read' + LookAhead(at')
    <3>1. taken' \in Int /\ Len(buf') \in Int /\ Len(returned) \in Int /\ ToRead \in Int
      BY <1>1, <1>2, <2>1
    <3>2. Read' = taken' - Len(buf') /\ l = ToRead + 4 * Len(returned)  BY <2>5, <2>6
    <3>3. PICK w \in Int : w = LookAhead(at')  BY <2>2
    <3>4. PICK t \in Int : t = taken'  BY <3>1
    <3>5. PICK b \in Int : b = Len(buf')  BY <3>1
    <3>6. PICK n \in Int : n = Len(returned)  BY <3>1
    <3>7. PICK r \in Int : r = Read'  BY <2>5
    <3>8. PICK x \in Int : x = ToRead  BY <3>1
    <3>9. PICK m \in Int : m = l  BY <2>6
    <3>10. r = t - b /\ m = x + 4 * n  BY <3>2, <3>4, <3>5, <3>6, <3>7, <3>8, <3>9
    <3>11. x + 4 * (n - t + b) + w = m - 4 * r + w  BY <3>10
    <3>12. ToRead + 4 * (Len(returned) - taken' + Len(buf')) + LookAhead(at')
            = l - 4 * Read' + LookAhead(at')
      BY <3>11, <3>3, <3>4, <3>5, <3>6, <3>7, <3>8, <3>9
    <3> QED  BY <2>4, <3>12
  <2> QED  BY <2>5, <2>6, <2>7, <2>8
<1>5. /\ LookAhead("into") = 2 /\ LookAhead("schema") = 5
      /\ \A state \in {"leader", "rest", "with", "done"} : LookAhead(state) = 0
  BY DEF LookAhead
<1> HIDE DEF l
<1>6. CASE Take(<<>>) /\ Read' = Read + 1 /\ LookAhead(at') <= LookAhead(at) + 3 /\ LookAhead(at') \in Nat
           /\ LookAhead(at) \in Nat
  BY <1>1, <1>4, <1>6
<1>7. Take(<<>>) => Read' = Read + 1  BY <1>1, TakeOne
<1>8. CASE End  BY <1>5, <1>6, <1>7, <1>8 DEF End
<1>9. CASE Semicolon  BY <1>5, <1>6, <1>7, <1>9 DEF Semicolon
<1>10. CASE SkipRest  BY <1>5, <1>6, <1>7, <1>10 DEF SkipRest
<1>11. CASE LeaderRefused  BY <1>5, <1>6, <1>7, <1>11 DEF LeaderRefused
<1>12. CASE Leader  BY <1>5, <1>6, <1>7, <1>12 DEF Leader
<1>13. CASE Vacuum  BY <1>5, <1>6, <1>7, <1>13 DEF Vacuum
<1>14. CASE VacuumInto \/ VacuumAlone
  <2>1. Read' = Read /\ at = "into" /\ at' \in {"rest", "done"}
    BY <1>1, <1>3, <1>14, TakeBack DEF VacuumInto, VacuumAlone
  <2> QED  BY <1>1, <1>4, <1>5, <2>1
<1>15. CASE VacuumSchema  BY <1>5, <1>6, <1>7, <1>15 DEF VacuumSchema
<1>16. CASE VacuumSecond
  <2>1. first = Tok(Read) /\ Read >= 1
    BY <1>1, <1>16 DEF VacuumSecond, Position, VacuumAt, Firsts
  <2>2. Read' = Read - 1 /\ at = "schema" /\ at' \in {"rest", "done"}
    BY <1>1, <1>3, <1>16, <2>1, TakeBackTwo DEF VacuumSecond
  <2> QED  BY <1>1, <1>4, <1>5, <2>2
<1>17. CASE WithEnd  BY <1>5, <1>6, <1>7, <1>17 DEF WithEnd
<1>18. CASE WithParenthesis  BY <1>5, <1>6, <1>7, <1>18 DEF WithParenthesis
<1>19. CASE WithBody  BY <1>5, <1>6, <1>7, <1>19 DEF WithBody
<1>20. CASE WithSkip  BY <1>5, <1>6, <1>7, <1>20 DEF WithSkip
<1> QED
  BY <1>8, <1>9, <1>10, <1>11, <1>12, <1>13, <1>14, <1>15, <1>16, <1>17, <1>18, <1>19, <1>20
  DEF Step

(* What remains is never negative. *)
LEMMA RemainsNatural ==
  ASSUME IInv
  PROVE  0 <= Remaining
<1>1. TypeOK /\ Ends <= 2  BY EndsBound DEF IInv, Stack
<1>2. Ends \in Nat /\ Phase(reading) \in 1..7  BY <1>1, EndsAre, ToReadIs
<1>3. /\ Len(input) \in Nat /\ pos \in 1..(Len(input) + 1) /\ Len(returned) \in Nat
      /\ taken \in 0..Len(returned) /\ Len(buf) \in Nat
  BY <1>1 DEF TypeOK
<1>4. LookAhead(at) \in Nat  BY DEF LookAhead
<1>5. Len(input) + 3 - pos - Ends \in Nat  BY <1>1, <1>2, <1>3
<1>6. Len(returned) - taken + Len(buf) \in Nat  BY <1>3
<1>7. \A a, b, c, d \in Nat : 0 <= 7 * a + 4 * b + c + d  OBVIOUS
<1>8. Phase(reading) \in Nat  BY <1>2
<1> QED  BY <1>4, <1>5, <1>6, <1>7, <1>8 DEF Remaining

(* The classification of a text of n characters takes no more than 7 steps *)
(* for each of them and 16 more: each lowers what remains, which is never  *)
(* negative.                                                               *)
THEOREM EndsInTimeAlways == Spec => EndsInTime
<1>1. IInv /\ [Next]_vars => [Remaining' < Remaining]_vars
  <2> SUFFICES ASSUME IInv, Next, ~UNCHANGED vars
               PROVE  Remaining' < Remaining
    OBVIOUS
  <2>1. CASE Step  BY <2>1, StepsAdvance
  <2>2. CASE Call \/ (LexerStep /\ UNCHANGED classifier)
    <3>1. UNCHANGED classifier /\ TypeOK  BY <2>2 DEF Call, classifier, IInv, Stack
    <3> QED  BY <2>2, <3>1, LexerAdvances
  <2> QED  BY <2>1, <2>2 DEF Next
<1>2. IInv => 0 <= Remaining  BY RemainsNatural
<1>3. IInv /\ (0 <= Remaining)' /\ [Next]_vars => [0 <= Remaining' /\ Remaining' < Remaining]_vars
  BY <1>1
<1> QED  BY <1>2, <1>3, ClassifierInvariant, PTL DEF Spec, EndsInTime
=============================================================================
