-------------------------- MODULE MCProjectLifecycle --------------------------
(***************************************************************************)
(* Small instances of ProjectLifecycle for TLC.                            *)
(***************************************************************************)
EXTENDS ProjectLifecycle, TLC

\* One role that may manage keys, one that may not, and two that the handler
\* must refuse.
MCRequestedRoles == {"admin", "read_write", "system", "owner"}

\* The sets are model values no formula tells apart (safety runs only).
MCSymmetry ==
  Permutations(Projects) \cup Permutations(Keys) \cup Permutations(Workers)
=============================================================================
