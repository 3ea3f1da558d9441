------------------------- MODULE BackedUpDatabaseProofs -------------------------
(***************************************************************************)
(* What follows from the promise of BackedUpDatabase alone, for whatever   *)
(* implements it.                                                          *)
(***************************************************************************)
EXTENDS BackedUpDatabase, TLAPS

\* OnlyCommitted, and the types of what it is about.
Inv ==
  value # None =>
    /\ latest \in Nat
    /\ saved \in [Names -> Known \cup {None, Partial}]
    /\ copied \in [Actors -> Known \cup {None}]
    /\ fetched \in [Actors -> Known \cup {None}]
    /\ value \in Known

LEMMA InvInit == Init => Inv
BY DEF Init, Inv, Known

LEMMA KnownGrows == latest \in Nat /\ latest' \in {latest, latest + 1} => Known \subseteq Known'
BY DEF Known

LEMMA InvCommit == Inv /\ Commit => Inv'
<1>. SUFFICES ASSUME Inv, Commit PROVE Inv'
  OBVIOUS
<1>1. Known \subseteq Known' /\ latest' \in Nat /\ value' \in Known'
  BY KnownGrows DEF Inv, Commit, Known
<1>. QED
  BY <1>1 DEF Inv, Commit

\* Every other step that keeps the promise leaves latest alone.
LEMMA InvCopies ==
  ASSUME Inv, value # None, latest' = latest,
         saved' \in [Names -> Known \cup {None, Partial}],
         copied' \in [Actors -> Known \cup {None}],
         fetched' \in [Actors -> Known \cup {None}],
         value' \in Known
  PROVE  Inv'
BY DEF Inv, Known

LEMMA InvBackup ==
  ASSUME Inv, NEW a \in Actors, NEW n \in Names,
         Snapshot(a, n) \/ Save(a, n) \/ Fetch(a, n)
  PROVE  Inv'
<1>1. value # None /\ latest' = latest /\ value' = value
  BY DEF Snapshot, Save, Fetch
<1>2. /\ saved \in [Names -> Known \cup {None, Partial}]
      /\ copied \in [Actors -> Known \cup {None}]
      /\ fetched \in [Actors -> Known \cup {None}]
      /\ value \in Known /\ Torn \in Known
  BY <1>1 DEF Inv, Known
<1>3. CASE Snapshot(a, n)
  BY <1>1, <1>2, <1>3, InvCopies DEF Snapshot
<1>4. CASE Save(a, n)
  BY <1>1, <1>2, <1>4, InvCopies DEF Save
<1>5. CASE Fetch(a, n)
  <2>1. (IF saved[n] = Partial THEN Torn ELSE saved[n]) \in Known
    BY <1>2, <1>5 DEF Fetch
  <2>. QED
    BY <1>1, <1>2, <1>5, <2>1, InvCopies DEF Fetch
<1>. QED
  BY <1>3, <1>4, <1>5

LEMMA InvEnding ==
  ASSUME Inv, NEW a \in Actors, Restore(a) \/ GiveUp(a)
  PROVE  Inv'
<1>1. value # None /\ latest' = latest /\ saved' = saved
  BY DEF Restore, GiveUp
<1>2. /\ saved \in [Names -> Known \cup {None, Partial}]
      /\ copied \in [Actors -> Known \cup {None}]
      /\ fetched \in [Actors -> Known \cup {None}]
      /\ value \in Known
  BY <1>1 DEF Inv
<1>3. CASE Restore(a)
  BY <1>1, <1>2, <1>3, InvCopies DEF Restore
<1>4. CASE GiveUp(a)
  BY <1>1, <1>2, <1>4, InvCopies DEF GiveUp
<1>. QED
  BY <1>3, <1>4

LEMMA InvLosing ==
  ASSUME Inv, Crash \/ \E n \in Names : Remove(n)
  PROVE  Inv'
<1>1. value # None /\ latest' = latest /\ value' = value
  BY DEF Crash, Remove
<1>2. /\ saved \in [Names -> Known \cup {None, Partial}]
      /\ copied \in [Actors -> Known \cup {None}]
      /\ fetched \in [Actors -> Known \cup {None}]
      /\ value \in Known
  BY <1>1 DEF Inv
<1>3. CASE Crash
  BY <1>1, <1>2, <1>3, InvCopies DEF Crash
<1>4. CASE \E n \in Names : Remove(n)
  BY <1>1, <1>2, <1>4, InvCopies DEF Remove
<1>. QED
  BY <1>3, <1>4

(* Whatever implements BackedUpDatabase keeps only states that were        *)
(* committed: what is read, what is in a backup, and what is on its way.   *)
THEOREM OnlyCommittedAlways == Spec => []OnlyCommitted
<1>1. Inv /\ [Next]_vars => Inv'
  <2>. SUFFICES ASSUME Inv, [Next]_vars PROVE Inv'
    OBVIOUS
  <2>1. CASE End
    BY <2>1 DEF End, Inv
  <2>2. CASE UNCHANGED vars
    BY <2>2 DEF vars, Inv, Known
  <2>. QED
    BY <2>1, <2>2, InvCommit, InvBackup, InvEnding, InvLosing DEF Next
<1>2. Inv => OnlyCommitted
  BY DEF Inv, OnlyCommitted
<1>. QED
  BY InvInit, <1>1, <1>2, PTL DEF Spec
=============================================================================
