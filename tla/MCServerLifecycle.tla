-------------------------- MODULE MCServerLifecycle --------------------------
(***************************************************************************)
(* A small instance of ServerLifecycle for TLC.                            *)
(***************************************************************************)
EXTENDS ServerLifecycle

\* Each variable unset, malformed, sensible, and senseless.
MCEnvironments ==
  {[interval |-> i, maxGen |-> Unset] : i \in {Unset, Malformed, 1, 0}}
    \cup {[interval |-> Unset, maxGen |-> g] : g \in {Malformed, 0, -1}}
=============================================================================
