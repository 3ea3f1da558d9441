--------------------------- MODULE MCSQLClassifier ---------------------------
(***************************************************************************)
(* Texts for TLC: every sequence of three pieces behind every head, closed *)
(* by one more character, and shorter ones that end in a keyword; and, for *)
(* the run that breaks it, statements behind others.                       *)
(***************************************************************************)
EXTENDS SQLClassifier

Quoted(open, close) == <<open, "VACUUM", close>>

Tails ==
  {<<"INSERT", "space">>, <<"CREATE", "space">>, <<"INTO", "space">>, <<"semicolon">>,
   <<"newline">>, <<"*", "/">>, <<"apostrophe">>}

Pieces ==
  Tails \cup
  {<<"SELECT", "space">>, <<"PRAGMA", "x", "space">>, <<"PRAGMA", "space">>, <<"x">>,
   <<"(">>, <<")">>, <<"(", "INSERT", ")">>, <<"backtick">>,
   Quoted("apostrophe", "apostrophe"), Quoted("[", "]"),
   Quoted("quote", "quote") \o Quoted("quote", "quote"),
   <<"/", "*">>, <<"/", "*", "semicolon", "*", "/">>, <<"-", "-">>}

Heads ==
  {<<>>, <<"VACUUM", "space">>, <<"WITH", "space">>, <<"WITH", "(">>, <<"ATTACH", "space">>,
   <<"x", "semicolon">>}

EndInKeyword ==
  {t \in {h \o a \o <<k>> : h \in Heads, a \in Pieces, k \in {"VACUUM", "INTO", "SELECT", "WITH"}} :
     ModeOf(t)[Len(t)] # "block"}

MCTexts ==
  {h \o a \o b \o c \o <<e>> : h \in Heads, a \in Pieces, b \in Pieces, c \in Tails,
                               e \in {"semicolon", "x"}} \cup EndInKeyword

Commons == <<"WITH", "space", "x", "(", "SELECT", "space", "x", ")">>

InFront == {<<"SELECT", "space", "x">>, Commons \o <<"SELECT", "space", "x">>,
            Commons \o <<"VALUES", "(", "x", ")">>}

Behinds == {<<"ATTACH", "space", "x">>, <<"VACUUM", "space", "INTO", "space", "x">>,
            <<"DROP", "space", "x">>, <<"SELECT", "space", "x">>}

MCStacked == {a \o <<"semicolon">> \o b : a \in InFront, b \in Behinds}
=============================================================================
