----------------------------- MODULE MCMigration -----------------------------
(***************************************************************************)
(* A small instance of Migration for TLC: 10_b, a version with more digits *)
(* than an int holds, and 9_a, in the order of their texts.                *)
(***************************************************************************)
EXTENDS Migration, TLC

MCSymmetry == Permutations(Callers)

MCVersions == 1..3
MCNumber == [v \in MCVersions |-> CASE v = 1 -> 10 [] v = 2 -> TooLarge [] v = 3 -> 9]

\* Two versions; all three, the last one without an up file.
MCDisks ==
  LET both(v) == {<<v, "up">>, <<v, "down">>}
  IN {both(1) \cup both(3),
      both(1) \cup {<<2, "plain">>, <<3, "down">>}}
=============================================================================
