--------------------------- MODULE ProjectLockProofs ---------------------------
(***************************************************************************)
(* Proofs about ProjectLock, for any number of projects and requests.      *)
(***************************************************************************)
EXTENDS ProjectLock, TLAPS

\* Only the goroutine that has mu is inside get.
InsideGet ==
  \A h \in Holders : req[h].pc \in {"lookup", "create", "unlock"} => mu = h

\* A pointer that get returned is the one RWMutex of the project, for good.
Pointers ==
  \A h \in Holders :
    /\ req[h].pc # "idle" => req[h].project \in Projects
    /\ req[h].pc = "create" => locks[req[h].project] = NoMutex
    /\ req[h].pc \in {"unlock", "try", "held"} =>
         req[h].l \in Mutexes /\ locks[req[h].project] = req[h].l

\* No two projects share an RWMutex.
OwnMutex ==
  \A p, q \in Projects : locks[p] = locks[q] /\ locks[p] # NoMutex => p = q

\* An RWMutex is held by the requests that got it and have not released it.
MutexHolders ==
  \A m \in Mutexes, h \in Holders :
    /\ h \in rlocked[m] <=> req[h].pc = "held" /\ req[h].l = m /\ req[h].mode = "read"
    /\ h \in wlocked[m] <=> req[h].pc = "held" /\ req[h].l = m /\ req[h].mode = "write"

MutexExclusion ==
  \A m \in Mutexes :
    /\ wlocked[m] # {} => rlocked[m] = {}
    /\ \A g, h \in wlocked[m] : g = h

LockInv ==
  TypeOK /\ InsideGet /\ Pointers /\ OwnMutex /\ MutexHolders /\ MutexExclusion

-----------------------------------------------------------------------------
LEMMA LockInit == Init => LockInv
<1>. SUFFICES ASSUME Init PROVE LockInv
  OBVIOUS
<1>1. TypeOK
  BY DEF Init, TypeOK, Idle, Requests
<1>. QED
  BY <1>1 DEF Init, LockInv, InsideGet, Pointers, OwnMutex, MutexHolders, MutexExclusion, Idle

\* The pointer a request uses is in the map, and its project has an entry.
LEMMA HasPointer ==
  ASSUME LockInv, NEW h \in Holders
  PROVE  /\ req[h] \in Requests
         /\ req[h].pc # "idle" => req[h].project \in Projects
         /\ req[h].pc \in {"try", "held"} => req[h].l \in Mutexes
BY DEF LockInv, TypeOK, Pointers

LEMMA TypeStep ==
  ASSUME LockInv, NEW h \in Holders, Call(h) \/ GetLock(h) \/ Get(h) \/ Try(h) \/ Release(h)
  PROVE  TypeOK'
<1>. /\ TypeOK
     /\ req[h] \in Requests
     /\ req[h].pc # "idle" => req[h].project \in Projects
     /\ req[h].pc \in {"try", "held"} => req[h].l \in Mutexes
  BY HasPointer DEF LockInv
<1>1. CASE Call(h)
  BY <1>1 DEF Call, TypeOK, Requests
<1>2. CASE GetLock(h)
  BY <1>2 DEF GetLock, Goto, TypeOK, Requests
<1>3. CASE GetLookup(h)
  BY <1>3 DEF GetLookup, TypeOK, Requests, At
<1>4. CASE GetCreate(h)
  BY <1>4 DEF GetCreate, TypeOK, Requests, At
<1>5. CASE GetUnlock(h)
  BY <1>5 DEF GetUnlock, Goto, TypeOK, Requests
<1>6. CASE TryRLock(h)
  BY <1>6 DEF TryRLock, Goto, TypeOK, Requests, At
<1>7. CASE TryLock(h)
  BY <1>7 DEF TryLock, Goto, TypeOK, Requests, At
<1>8. CASE TryFails(h)
  BY <1>8 DEF TryFails, Idle, TypeOK, Requests
<1>9. CASE Release(h)
  BY <1>9 DEF Release, Idle, TypeOK, Requests, At
<1>. QED
  BY <1>1, <1>2, <1>3, <1>4, <1>5, <1>6, <1>7, <1>8, <1>9 DEF Get, Try

-----------------------------------------------------------------------------
\* One step of get, or of a caller on its way to it: the RWMutexes stay as
\* they are, and the caller does not have one.
LEMMA GetStep ==
  ASSUME LockInv, NEW h \in Holders, Call(h) \/ GetLock(h) \/ Get(h)
  PROVE  LockInv'
<1>. /\ TypeOK /\ InsideGet /\ Pointers /\ OwnMutex /\ MutexHolders /\ MutexExclusion
     /\ req[h] \in Requests
     /\ req[h].pc # "idle" => req[h].project \in Projects
  BY HasPointer DEF LockInv
<1>1. TypeOK' /\ UNCHANGED <<rlocked, wlocked>>
  BY TypeStep DEF Call, GetLock, Get, GetLookup, GetCreate, GetUnlock
<1>2. MutexExclusion'
  BY <1>1 DEF MutexExclusion
<1>3. MutexHolders'
  <2>1. req[h].pc # "held" /\ req'[h].pc # "held"
    <3>1. CASE Call(h)
      BY <3>1 DEF Call, At, TypeOK
    <3>2. CASE GetLock(h)
      BY <3>2 DEF GetLock, At, Goto, TypeOK, Requests
    <3>3. CASE GetLookup(h)
      BY <3>3 DEF GetLookup, At, TypeOK, Requests
    <3>4. CASE GetCreate(h)
      BY <3>4 DEF GetCreate, At, TypeOK, Requests
    <3>5. CASE GetUnlock(h)
      BY <3>5 DEF GetUnlock, At, Goto, TypeOK, Requests
    <3>. QED
      BY <3>1, <3>2, <3>3, <3>4, <3>5 DEF Get
  <2>2. \A g \in Holders \ {h} : req'[g] = req[g]
    BY DEF Call, GetLock, Get, GetLookup, GetCreate, GetUnlock, Goto, TypeOK
  <2>. QED
    BY <1>1, <2>1, <2>2 DEF MutexHolders
<1>4. CASE Call(h)
  BY <1>1, <1>2, <1>3, <1>4 DEF Call, LockInv, TypeOK, At, InsideGet, Pointers, OwnMutex
<1>5. CASE GetLock(h)
  <2>1. InsideGet'
    BY <1>5, LockAssumption DEF GetLock, Goto, InsideGet, At, TypeOK, Requests
  <2>2. Pointers'
    BY <1>5 DEF GetLock, Goto, Pointers, At, TypeOK, Requests
  <2>3. OwnMutex'
    BY <1>5 DEF GetLock, OwnMutex
  <2>. QED
    BY <1>1, <1>2, <1>3, <2>1, <2>2, <2>3 DEF LockInv
<1>6. CASE GetLookup(h)
  <2>1. InsideGet'
    BY <1>6 DEF GetLookup, InsideGet, At, TypeOK, Requests
  <2>2. Pointers'
    BY <1>6 DEF GetLookup, Pointers, At, TypeOK, Requests
  <2>3. OwnMutex'
    BY <1>6 DEF GetLookup, OwnMutex
  <2>. QED
    BY <1>1, <1>2, <1>3, <2>1, <2>2, <2>3 DEF LockInv
<1>7. CASE GetCreate(h)
  <2>. PICK m \in Mutexes :
         /\ ~InUse(m)
         /\ locks' = [locks EXCEPT ![req[h].project] = m]
         /\ req' = [req EXCEPT ![h].l = m, ![h].pc = "unlock"]
    BY <1>7 DEF GetCreate
  <2>1. InsideGet'
    BY <1>7 DEF GetCreate, InsideGet, At, TypeOK
  <2>2. Pointers'
    BY <1>1, <1>7, LockAssumption DEF GetCreate, InsideGet, Pointers, At, TypeOK
  <2>3. OwnMutex'
    BY <1>7 DEF GetCreate, OwnMutex, InUse, TypeOK, At
  <2>. QED
    BY <1>1, <1>2, <1>3, <2>1, <2>2, <2>3 DEF LockInv
<1>8. CASE GetUnlock(h)
  BY <1>1, <1>2, <1>3, <1>8
    DEF GetUnlock, Goto, LockInv, TypeOK, At, InsideGet, Pointers, OwnMutex
<1>. QED
  BY <1>4, <1>5, <1>6, <1>7, <1>8 DEF Get

\* One step on an RWMutex: the registry stays as it is.
LEMMA MutexStep ==
  ASSUME LockInv, NEW h \in Holders, Try(h) \/ Release(h)
  PROVE  LockInv'
<1>. /\ TypeOK /\ InsideGet /\ Pointers /\ OwnMutex /\ MutexHolders /\ MutexExclusion
     /\ req[h] \in Requests
     /\ req[h].pc \in {"try", "held"} => req[h].l \in Mutexes
  BY HasPointer DEF LockInv
<1>1. TypeOK' /\ UNCHANGED <<mu, locks>>
  BY TypeStep DEF Try, TryRLock, TryLock, TryFails, Release
<1>2. OwnMutex'
  BY <1>1 DEF OwnMutex
<1>3. CASE TryRLock(h)
  BY <1>1, <1>2, <1>3
    DEF TryRLock, Goto, At, LockInv, TypeOK, InsideGet, Pointers, MutexHolders, MutexExclusion
<1>4. CASE TryLock(h)
  BY <1>1, <1>2, <1>4
    DEF TryLock, Goto, At, LockInv, TypeOK, InsideGet, Pointers, MutexHolders, MutexExclusion
<1>5. CASE TryFails(h)
  BY <1>1, <1>2, <1>5
    DEF TryFails, Idle, At, LockInv, TypeOK, InsideGet, Pointers, MutexHolders, MutexExclusion
<1>6. CASE Release(h)
  BY <1>1, <1>2, <1>6
    DEF Release, Idle, At, LockInv, TypeOK, InsideGet, Pointers, MutexHolders, MutexExclusion
<1>. QED
  BY <1>3, <1>4, <1>5, <1>6 DEF Try

LEMMA LockInvStep == LockInv /\ [Next]_vars => LockInv'
<1>. SUFFICES ASSUME LockInv, [Next]_vars PROVE LockInv'
  OBVIOUS
<1>1. CASE UNCHANGED vars
  BY <1>1 DEF vars, LockInv, TypeOK, InsideGet, Pointers, OwnMutex, MutexHolders,
    MutexExclusion
<1>2. CASE Next
  BY <1>2, GetStep, MutexStep DEF Next
<1>. QED
  BY <1>1, <1>2

(* The inductive invariant: the registry hands out one RWMutex per project *)
(* and the RWMutexes are held by the requests that say so.                 *)
THEOREM LockInvariant == Spec => []LockInv
BY LockInit, LockInvStep, PTL DEF Spec

-----------------------------------------------------------------------------
\* The requests that have a project are those that have its RWMutex.
LEMMA HoldingRWMutex ==
  ASSUME LockInv, NEW p \in Projects
  PROVE  IF locks[p] = NoMutex
           THEN Holding(p, "read") = {} /\ Holding(p, "write") = {}
           ELSE /\ locks[p] \in Mutexes
                /\ Holding(p, "read") = rlocked[locks[p]]
                /\ Holding(p, "write") = wlocked[locks[p]]
<1>. /\ TypeOK /\ Pointers /\ OwnMutex /\ MutexHolders
  BY DEF LockInv
<1>1. CASE locks[p] = NoMutex
  BY <1>1, LockAssumption DEF Holding, Pointers
<1>2. CASE locks[p] # NoMutex
  <2>1. locks[p] \in Mutexes
    BY <1>2 DEF TypeOK
  <2>2. \A h \in Holders : req[h].pc = "held" => (req[h].l = locks[p] <=> req[h].project = p)
    BY <1>2 DEF Pointers, OwnMutex
  <2>3. rlocked[locks[p]] \subseteq Holders /\ wlocked[locks[p]] \subseteq Holders
    BY <2>1 DEF TypeOK
  <2>. QED
    BY <1>2, <2>1, <2>2, <2>3 DEF Holding, MutexHolders
<1>. QED
  BY <1>1, <1>2

(* No two requests have a project at once unless all of them share it.     *)
THEOREM ExclusionAlways == Spec => []Exclusion
<1>1. LockInv => Exclusion
  <2>. SUFFICES ASSUME LockInv, NEW p \in Projects PROVE Lock(p)!Exclusion
    BY DEF Exclusion
  <2>. MutexExclusion
    BY DEF LockInv
  <2>. QED
    BY HoldingRWMutex DEF Lock!Exclusion, MutexExclusion
<1>. QED
  BY <1>1, LockInvariant, PTL

(* A request is refused only because another request has its project.      *)
THEOREM RefusedByOwnProjectAlways == Spec => RefusedByOwnProject
<1>1. LockInv /\ [Next]_vars => [RefusalStep]_vars
  <2>. SUFFICES ASSUME LockInv, NEW h \in Holders, TryFails(h)
                PROVE  \E g \in Holders \ {h} :
                         req[g].pc = "held" /\ req[g].project = req[h].project
    BY DEF RefusalStep
  <2>. TypeOK /\ Pointers /\ OwnMutex /\ MutexHolders
    BY DEF LockInv
  <2>1. /\ req[h].pc = "try" /\ req[h].l \in Mutexes
        /\ req[h].project \in Projects /\ locks[req[h].project] = req[h].l
    BY DEF TryFails, At, Pointers
  <2>2. PICK g \in Holders : g \in rlocked[req[h].l] \/ g \in wlocked[req[h].l]
    BY <2>1 DEF TryFails, TypeOK
  <2>3. req[g].pc = "held" /\ req[g].l = req[h].l
    BY <2>1, <2>2 DEF MutexHolders
  <2>4. req[g].project = req[h].project
    BY <2>1, <2>3, LockAssumption DEF Pointers, OwnMutex
  <2>. QED
    BY <2>1, <2>3, <2>4
<1>. QED
  BY <1>1, LockInvariant, PTL DEF Spec, RefusedByOwnProject

-----------------------------------------------------------------------------
(* The refinement: what a step does to the holders of one project.         *)

\* Looking the RWMutex up gives nobody the project.
LEMMA GetStutters ==
  ASSUME LockInv, NEW h \in Holders, Call(h) \/ GetLock(h) \/ Get(h) \/ TryFails(h),
         NEW p \in Projects
  PROVE  UNCHANGED Lock(p)!lockVars
<1>. TypeOK
  BY DEF LockInv
<1>1. req[h].pc # "held" /\ req'[h].pc # "held"
  <2>1. CASE Call(h)
    BY <2>1 DEF Call, At, TypeOK
  <2>2. CASE GetLock(h)
    BY <2>2 DEF GetLock, At, Goto, TypeOK, Requests
  <2>3. CASE GetLookup(h)
    BY <2>3 DEF GetLookup, At, TypeOK, Requests
  <2>4. CASE GetCreate(h)
    BY <2>4 DEF GetCreate, At, TypeOK, Requests
  <2>5. CASE GetUnlock(h)
    BY <2>5 DEF GetUnlock, At, Goto, TypeOK, Requests
  <2>6. CASE TryFails(h)
    BY <2>6 DEF TryFails, At, Idle, TypeOK
  <2>. QED
    BY <2>1, <2>2, <2>3, <2>4, <2>5, <2>6 DEF Get
<1>2. \A g \in Holders \ {h} : req'[g] = req[g]
  BY DEF Call, GetLock, Get, GetLookup, GetCreate, GetUnlock, TryFails, Goto, TypeOK
<1>. QED
  BY <1>1, <1>2 DEF Lock!lockVars, Holding

\* Taking or releasing the RWMutex is that operation on the one project.
LEMMA MutexStepImplements ==
  ASSUME LockInv, NEW h \in Holders, TryRLock(h) \/ TryLock(h) \/ Release(h),
         NEW p \in Projects
  PROVE  Lock(p)!Next \/ UNCHANGED Lock(p)!lockVars
<1>. /\ TypeOK /\ Pointers /\ req[h] \in Requests
  BY DEF LockInv, TypeOK
<1>. DEFINE q == req[h].project
<1>1. q \in Projects /\ locks[q] = req[h].l /\ req[h].l \in Mutexes
  BY DEF TryRLock, TryLock, Release, At, Pointers
<1>2. \A g \in Holders \ {h} : req'[g] = req[g]
  BY DEF TryRLock, TryLock, Release, Goto, TypeOK
<1>3. /\ Holding(q, "read") = rlocked[req[h].l]
      /\ Holding(q, "write") = wlocked[req[h].l]
  BY <1>1, HoldingRWMutex, LockAssumption
<1>4. CASE TryRLock(h)
  <2>1. req[h].pc = "try" /\ req[h].mode = "read" /\ req'[h] = [req[h] EXCEPT !.pc = "held"]
    BY <1>4 DEF TryRLock, At, Goto, TypeOK
  <2>2. req'[h].pc = "held" /\ req'[h].mode = "read" /\ req'[h].project = q
    BY <2>1 DEF Requests
  <2>3. CASE p = q
    <3>1. Holding(p, "write") = {}
      BY <1>3, <1>4, <2>3 DEF TryRLock
    <3>2. Holding(p, "write")' = {}
      BY <1>2, <2>2, <3>1 DEF Holding
    <3>3. Holding(p, "read")' = Holding(p, "read") \cup {h}
      BY <1>2, <2>2, <2>3 DEF Holding
    <3>. QED
      BY <3>1, <3>2, <3>3 DEF Lock!Next, Lock!TryReadLock
  <2>4. CASE p # q
    <3>1. Holding(p, "read")' = Holding(p, "read")
      BY <1>2, <2>2, <2>4 DEF Holding
    <3>2. Holding(p, "write")' = Holding(p, "write")
      BY <1>2, <2>2, <2>4 DEF Holding
    <3>. QED
      BY <3>1, <3>2 DEF Lock!lockVars
  <2>. QED
    BY <2>3, <2>4
<1>5. CASE TryLock(h)
  <2>1. req[h].pc = "try" /\ req[h].mode = "write" /\ req'[h] = [req[h] EXCEPT !.pc = "held"]
    BY <1>5 DEF TryLock, At, Goto, TypeOK
  <2>2. req'[h].pc = "held" /\ req'[h].mode = "write" /\ req'[h].project = q
    BY <2>1 DEF Requests
  <2>3. CASE p = q
    <3>1. Holding(p, "write") = {} /\ Holding(p, "read") = {}
      BY <1>3, <1>5, <2>3 DEF TryLock
    <3>2. Holding(p, "read")' = {}
      BY <1>2, <2>2, <3>1 DEF Holding
    <3>3. Holding(p, "write")' = {h}
      BY <1>2, <2>2, <2>3, <3>1 DEF Holding
    <3>. QED
      BY <3>1, <3>2, <3>3 DEF Lock!Next, Lock!TryWriteLock
  <2>4. CASE p # q
    <3>1. Holding(p, "read")' = Holding(p, "read")
      BY <1>2, <2>2, <2>4 DEF Holding
    <3>2. Holding(p, "write")' = Holding(p, "write")
      BY <1>2, <2>2, <2>4 DEF Holding
    <3>. QED
      BY <3>1, <3>2 DEF Lock!lockVars
  <2>. QED
    BY <2>3, <2>4
<1>6. CASE Release(h)
  <2>1. req[h].pc = "held" /\ req'[h].pc = "idle"
    BY <1>6 DEF Release, At, Idle, TypeOK
  <2>2. req[h].mode \in {"read", "write"}
    BY DEF Requests
  <2>3. CASE p = q /\ req[h].mode = "read"
    <3>1. h \in Holding(p, "read") /\ Holding(p, "read")' = Holding(p, "read") \ {h}
      BY <1>2, <2>1, <2>3 DEF Holding
    <3>2. Holding(p, "write")' = Holding(p, "write")
      BY <1>2, <2>1, <2>3 DEF Holding
    <3>. QED
      BY <3>1, <3>2 DEF Lock!Next, Lock!ReadUnlock
  <2>4. CASE p = q /\ req[h].mode = "write"
    <3>1. h \in Holding(p, "write") /\ Holding(p, "write")' = Holding(p, "write") \ {h}
      BY <1>2, <2>1, <2>4 DEF Holding
    <3>2. Holding(p, "read")' = Holding(p, "read")
      BY <1>2, <2>1, <2>4 DEF Holding
    <3>. QED
      BY <3>1, <3>2 DEF Lock!Next, Lock!WriteUnlock
  <2>5. CASE p # q
    BY <1>2, <2>1, <2>5 DEF Lock!lockVars, Holding
  <2>. QED
    BY <2>2, <2>3, <2>4, <2>5
<1>. QED
  BY <1>4, <1>5, <1>6

(* The registry implements one readers-writer lock per project: its steps  *)
(* are Try and Unlock operations on one of them, or invisible.             *)
THEOREM Implementation == Spec => ImplementsLock
<1>1. Init => \A p \in Projects : Lock(p)!Init
  <2>. SUFFICES ASSUME Init, NEW p \in Projects PROVE Lock(p)!Init
    OBVIOUS
  <2>1. Holding(p, "read") = {} /\ Holding(p, "write") = {}
    BY DEF Init, Idle, Holding
  <2>. QED
    BY <2>1 DEF Lock!Init
<1>2. LockInv /\ [Next]_vars => [LockStep]_vars
  <2>. SUFFICES ASSUME LockInv, Next, NEW p \in Projects
                PROVE  Lock(p)!Next \/ UNCHANGED Lock(p)!lockVars
    BY DEF LockStep
  <2>. PICK h \in Holders : Call(h) \/ GetLock(h) \/ Get(h) \/ Try(h) \/ Release(h)
    BY DEF Next
  <2>. QED
    BY GetStutters, MutexStepImplements DEF Try
<1>. QED
  BY <1>1, <1>2, LockInvariant, PTL DEF Spec, ImplementsLock
=============================================================================
