---------------------------- MODULE VersionedSchema ----------------------------
(***************************************************************************)
(* What the migrations of a database promise: the SQL of a version and the *)
(* record that it ran are one atomic step, taken up at most once before it *)
(* is taken down. To take down once more what is down is not refused.      *)
(***************************************************************************)
EXTENDS Integers

CONSTANT Versions

VARIABLES
  schema,    \* how many times the up file of a version ran, less its down file
  recorded   \* the versions that __migrations has

Init ==
  /\ schema = [v \in Versions |-> 0]
  /\ recorded = {}

Apply(v) ==
  /\ v \notin recorded
  /\ recorded' = recorded \cup {v}
  /\ schema' = [schema EXCEPT ![v] = @ + 1]

Revert(v) ==
  /\ v \in recorded
  /\ recorded' = recorded \ {v}
  /\ schema' = [schema EXCEPT ![v] = @ - 1]

Redo(v) ==
  /\ v \notin recorded
  /\ schema' = [schema EXCEPT ![v] = @ - 1]
  /\ UNCHANGED recorded

Next == \E v \in Versions : Apply(v) \/ Revert(v) \/ Redo(v)

Spec == Init /\ [][Next]_<<schema, recorded>>
=============================================================================
