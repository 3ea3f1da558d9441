---------------------------- MODULE MCProjectLock ----------------------------
(***************************************************************************)
(* ProjectLock on two projects and three requests: two that race to create *)
(* a project's RWMutex and one that holds or waits.                        *)
(***************************************************************************)
EXTENDS ProjectLock
=============================================================================
