----------------------------- MODULE ProjectLock -----------------------------
(***************************************************************************)
(* domain.ProjectLockRegistry: a map from project ids to RWMutexes, filled *)
(* on demand under the mutex mu, and the two Try operations on it.  Each   *)
(* holder is a request: it looks the RWMutex up, tries to take it without  *)
(* waiting, and releases it in a deferred call.                            *)
(*                                                                         *)
(* sync.Mutex and sync.RWMutex are external: TryRLock fails exactly when   *)
(* the RWMutex has a writer, TryLock when it has any holder (no code here  *)
(* calls the blocking Lock, so no writer is ever pending), and a goroutine *)
(* waiting for mu gets it in the end (the mutex's starvation mode).        *)
(*                                                                         *)
(* An operator that stands right before another one and differs from it by *)
(* a suffix (Any, Shared, Skipped...) is that definition with a bug.       *)
(***************************************************************************)
EXTENDS Naturals

CONSTANTS
  Projects,
  Holders,    \* the requests
  Mutexes,    \* the RWMutex objects
  NoProject,  \* the project of no request
  NoMutex,    \* a nil *sync.RWMutex
  NoHolder    \* mu is free

ASSUME LockAssumption ==
  NoProject \notin Projects /\ NoMutex \notin Mutexes /\ NoHolder \notin Holders

VARIABLES
  mu,      \* ProjectLockRegistry.mu: the goroutine inside get
  locks,   \* ProjectLockRegistry.locks
  rlocked, \* of each RWMutex: the goroutines that have it shared
  wlocked, \* of each RWMutex: the goroutines that have it exclusively
  req      \* of each request: where it is, what it asked for, the pointer it got

vars == <<mu, locks, rlocked, wlocked, req>>

Requests == [pc: {"idle", "lock", "lookup", "create", "unlock", "try", "held"},
             project: Projects \cup {NoProject}, mode: {"read", "write"},
             l: Mutexes \cup {NoMutex}]

Idle == [pc |-> "idle", project |-> NoProject, mode |-> "read", l |-> NoMutex]

(* The values the variables have: an RWMutex is held by requests only.     *)
TypeOK ==
  /\ mu \in Holders \cup {NoHolder}
  /\ locks \in [Projects -> Mutexes \cup {NoMutex}]
  /\ rlocked \in [Mutexes -> SUBSET Holders]
  /\ wlocked \in [Mutexes -> SUBSET Holders]
  /\ req \in [Holders -> Requests]

Init ==
  /\ mu = NoHolder
  /\ locks = [p \in Projects |-> NoMutex]
  /\ rlocked = [m \in Mutexes |-> {}]
  /\ wlocked = [m \in Mutexes |-> {}]
  /\ req = [h \in Holders |-> Idle]

At(h, pc) == req[h].pc = pc
Goto(h, pc) == req' = [req EXCEPT ![h].pc = pc]

\* TryReadLock or TryWriteLock is called.
Call(h) ==
  /\ At(h, "idle")
  /\ \E p \in Projects, mode \in {"read", "write"} :
       req' = [req EXCEPT ![h] = [pc |-> "lock", project |-> p, mode |-> mode, l |-> NoMutex]]
  /\ UNCHANGED <<mu, locks, rlocked, wlocked>>

-----------------------------------------------------------------------------
(* get: the body of the critical section, one access to the map a step.    *)

GetLockAny(h) ==
  /\ At(h, "lock")
  /\ mu' = h
  /\ Goto(h, "lookup")
  /\ UNCHANGED <<locks, rlocked, wlocked>>
GetLock(h) ==
  /\ At(h, "lock")
  /\ mu = NoHolder
  /\ mu' = h
  /\ Goto(h, "lookup")
  /\ UNCHANGED <<locks, rlocked, wlocked>>

GetLookup(h) ==
  LET m == locks[req[h].project] IN
  /\ At(h, "lookup")
  /\ req' = [req EXCEPT ![h].l = m, ![h].pc = IF m = NoMutex THEN "create" ELSE "unlock"]
  /\ UNCHANGED <<mu, locks, rlocked, wlocked>>

\* &sync.RWMutex{}: an object nobody has a pointer to.
InUse(m) == (\E p \in Projects : locks[p] = m) \/ (\E h \in Holders : req[h].l = m)

GetCreateShared(h) ==
  /\ At(h, "create")
  /\ \E m \in Mutexes :
       /\ locks' = [p \in Projects |-> m]
       /\ req' = [req EXCEPT ![h].l = m, ![h].pc = "unlock"]
  /\ UNCHANGED <<mu, rlocked, wlocked>>
GetCreate(h) ==
  /\ At(h, "create")
  /\ \E m \in Mutexes :
       /\ ~InUse(m)
       /\ locks' = [locks EXCEPT ![req[h].project] = m]
       /\ req' = [req EXCEPT ![h].l = m, ![h].pc = "unlock"]
  /\ UNCHANGED <<mu, rlocked, wlocked>>

GetUnlockSkipped(h) ==
  /\ At(h, "unlock")
  /\ Goto(h, "try")
  /\ UNCHANGED <<mu, locks, rlocked, wlocked>>
GetUnlock(h) ==
  /\ At(h, "unlock")
  /\ mu' = NoHolder
  /\ Goto(h, "try")
  /\ UNCHANGED <<locks, rlocked, wlocked>>

-----------------------------------------------------------------------------
TryRLockUnchecked(h) ==
  LET m == req[h].l IN
  /\ At(h, "try") /\ req[h].mode = "read"
  /\ rlocked' = [rlocked EXCEPT ![m] = @ \cup {h}]
  /\ Goto(h, "held")
  /\ UNCHANGED <<mu, locks, wlocked>>
TryRLock(h) ==
  LET m == req[h].l IN
  /\ At(h, "try") /\ req[h].mode = "read"
  /\ wlocked[m] = {}
  /\ rlocked' = [rlocked EXCEPT ![m] = @ \cup {h}]
  /\ Goto(h, "held")
  /\ UNCHANGED <<mu, locks, wlocked>>

TryLock(h) ==
  LET m == req[h].l IN
  /\ At(h, "try") /\ req[h].mode = "write"
  /\ wlocked[m] = {} /\ rlocked[m] = {}
  /\ wlocked' = [wlocked EXCEPT ![m] = {h}]
  /\ Goto(h, "held")
  /\ UNCHANGED <<mu, locks, rlocked>>

\* The try fails: 409 PROJECT_LOCKED.
TryFails(h) ==
  LET m == req[h].l IN
  /\ At(h, "try")
  /\ wlocked[m] # {} \/ (req[h].mode = "write" /\ rlocked[m] # {})
  /\ req' = [req EXCEPT ![h] = Idle]
  /\ UNCHANGED <<mu, locks, rlocked, wlocked>>

\* RUnlock or Unlock, deferred by the handler.
Release(h) ==
  LET m == req[h].l IN
  /\ At(h, "held")
  /\ rlocked' = [rlocked EXCEPT ![m] = @ \ {h}]
  /\ wlocked' = [wlocked EXCEPT ![m] = @ \ {h}]
  /\ req' = [req EXCEPT ![h] = Idle]
  /\ UNCHANGED <<mu, locks>>

-----------------------------------------------------------------------------
Get(h) == GetLookup(h) \/ GetCreate(h) \/ GetUnlock(h)
Try(h) == TryRLock(h) \/ TryLock(h) \/ TryFails(h)

Next == \E h \in Holders : Call(h) \/ GetLock(h) \/ Get(h) \/ Try(h) \/ Release(h)

\* Code between two calls runs; a waiter gets mu although others do too.
\* Whether a request is made, and when its work ends, is not assumed.
Fairness == \A h \in Holders : WF_vars(Get(h) \/ Try(h)) /\ SF_vars(GetLock(h))

Spec == Init /\ [][Next]_vars /\ Fairness

-----------------------------------------------------------------------------
(* Properties. *)

Holding(p, mode) ==
  {h \in Holders : req[h].pc = "held" /\ req[h].project = p /\ req[h].mode = mode}

Lock(p) == INSTANCE ReadersWriterLock WITH
  readers <- Holding(p, "read"), writers <- Holding(p, "write")

(* The registry gives each project one readers-writer lock, although its   *)
(* RWMutex is created by whichever request comes first.                    *)
LockStep == \A p \in Projects : Lock(p)!Next \/ UNCHANGED Lock(p)!lockVars
ImplementsLock == (\A p \in Projects : Lock(p)!Init) /\ [][LockStep]_vars

(* While one request has a project exclusively no other has it at all:     *)
(* never two RWMutexes for one project.                                    *)
Exclusion == \A p \in Projects : Lock(p)!Exclusion

(* The locks of different projects are independent (docs/spec.md 500): a   *)
(* request is refused only because of a holder of the same project.        *)
RefusalStep ==
  \A h \in Holders : TryFails(h) =>
    \E g \in Holders \ {h} : req[g].pc = "held" /\ req[g].project = req[h].project
RefusedByOwnProject == [][RefusalStep]_vars

(* TryReadLock and TryWriteLock do not wait for the project: every call    *)
(* gets its answer, even if no lock is ever released.                      *)
Answered ==
  \A h \in Holders : req[h].pc \notin {"idle", "held"} ~> req[h].pc \in {"idle", "held"}
=============================================================================
