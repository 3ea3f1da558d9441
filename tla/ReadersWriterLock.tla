-------------------------- MODULE ReadersWriterLock --------------------------
(***************************************************************************)
(* What domain.ProjectLockRegistry promises for one project (lock.go 5-15, *)
(* docs/spec.md section 11): any number of shared holders or one exclusive *)
(* holder, acquired without waiting.  ProjectLock implements it with a     *)
(* registry of RWMutexes; ProjectData uses it.                             *)
(***************************************************************************)
CONSTANT Holders

VARIABLES readers, writers

lockVars == <<readers, writers>>

TypeOK == readers \subseteq Holders /\ writers \subseteq Holders

Init == readers = {} /\ writers = {}

TryReadLock(h) ==
  /\ writers = {}
  /\ readers' = readers \cup {h}
  /\ UNCHANGED writers

TryWriteLock(h) ==
  /\ writers = {} /\ readers = {}
  /\ writers' = {h}
  /\ UNCHANGED readers

ReadUnlock(h) ==
  /\ h \in readers
  /\ readers' = readers \ {h}
  /\ UNCHANGED writers

WriteUnlock(h) ==
  /\ h \in writers
  /\ writers' = writers \ {h}
  /\ UNCHANGED readers

Next ==
  \E h \in Holders :
    TryReadLock(h) \/ TryWriteLock(h) \/ ReadUnlock(h) \/ WriteUnlock(h)

Spec == Init /\ [][Next]_lockVars

(* An exclusive holder is alone.                                           *)
Exclusion ==
  /\ writers # {} => readers = {}
  /\ \A g, h \in writers : g = h
=============================================================================
