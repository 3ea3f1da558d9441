--------------------------- MODULE ProjectLifecycle ---------------------------
(***************************************************************************)
(* The control plane of SmartDB: the rows of the system database (projects *)
(* and api_keys), the project directories on disk, and the HTTP handlers   *)
(* that create, patch, delete and wipe projects and issue and revoke keys. *)
(*                                                                         *)
(* A handler runs on its own goroutine.  The system database has a single  *)
(* connection (SetMaxOpenConns(1)) and no handler opens a transaction, so  *)
(* one SQL statement, or one file-system call, is one step and handlers    *)
(* interleave between them.  Names, timestamps and token texts are         *)
(* abstracted: a project is its id, a key is its id.                       *)
(*                                                                         *)
(* An operator that stands right before another one and differs from it by *)
(* a suffix (Any, Unchecked, Skipped...) is not part of the specification: *)
(* it is that definition with a bug, and makes some property fail.         *)
(***************************************************************************)
EXTENDS Naturals, FiniteSets

CONSTANTS
  Projects,        \* the ids genProjectSeed can produce
  Keys,            \* the ids generateKeyID can produce
  Workers,         \* the requests in flight at once
  NoProject,       \* project_id NULL: the key is a system key
  NoKey,           \* the actor of no request
  RequestedRoles,  \* the roles clients ask for when they issue a key
  ClockTies,       \* TRUE: two creations may read the same nanosecond
  MaxFaults,       \* bound: database and file-system calls that fail
  MaxCrashes       \* bound: crashes of the process

ASSUME LifecycleAssumption ==
  /\ NoProject \notin Projects
  /\ NoKey \notin Keys
  /\ ClockTies \in BOOLEAN
  /\ MaxFaults \in Nat
  /\ MaxCrashes \in Nat

VARIABLES
  rows,     \* projects.state of each id, "none" when there is no row
  disk,     \* what dataDir/<id> holds
  keys,     \* the api_keys table
  wk,       \* the local state of each request handler
  up,       \* the process serves requests
  faults,   \* failed calls so far
  crashes,  \* crashes so far
  recreated, \* history: directories a backup has made anew, not wiped since
  contended  \* history: projects that have had two requests at once

history == <<recreated, contended>>

vars == <<rows, disk, keys, wk, up, faults, crashes, history>>

-----------------------------------------------------------------------------
(* Values. *)

ProjectStates == {"creating", "inactive", "active", "deleting", "deleted", "wiped"}

\* What Create makes.  Its comment promises a metadata.json too, which no
\* code writes.  Backups make the rest.
Made == {"dir", "database.db", "migrations"}

Parts == Made \cup {"backups"}

Roles == {"system", "admin", "read_write", "read_only"}

KeyRows == [status: {"free", "active", "revoked"}, project: Projects \cup {NoProject},
            role: Roles]

CreatePCs == {"AddProject", "MkdirProject", "CreateBlankDatabase", "MkdirMigrations",
              "Activate", "RollbackDir", "RollbackRow"}

SystemPCs == {"RemoveRead", "RemoveWrite", "WipeRead", "WipeRevoke", "WipeRemoveAll",
              "WipeWrite"}

BackupPCs == {"BackupMkdir", "BackupVacuum"}

PCs == CreatePCs \cup SystemPCs \cup BackupPCs \cup
       {"idle", "PatchRename", "PatchRead", "PatchWrite", "InsertKey", "RevokeKey"}

Handlers == [pc: PCs, key: Keys \cup {NoKey}, project: Projects \cup {NoProject},
             seen: ProjectStates \cup {"none"}, to: ProjectStates \cup {"none"}]

Idle == [pc |-> "idle", key |-> NoKey, project |-> NoProject,
         seen |-> "none", to |-> "none"]

(* The values the variables have: CreateAPIKeyHandler and the CHECK of the *)
(* table keep other roles out, UpdateProjectState other states.            *)
TypeOK ==
  /\ rows \in [Projects -> ProjectStates \cup {"none"}]
  /\ disk \in [Projects -> SUBSET Parts]
  /\ keys \in [Keys -> KeyRows]
  /\ wk \in [Workers -> Handlers]
  /\ up \in BOOLEAN
  /\ faults \in 0..MaxFaults
  /\ crashes \in 0..MaxCrashes
  /\ recreated \subseteq Projects
  /\ contended \subseteq Projects

-----------------------------------------------------------------------------
(* The pure parts of the code. *)

\* CanTransitionTo over the table allowedTransitions.
CanTransitionTo(from, to) ==
  CASE from = "creating" -> to = "inactive"
    [] from = "inactive" -> to \in {"active", "deleted"}
    [] from = "active"   -> to \in {"inactive", "deleted"}
    [] from = "deleting" -> to = "deleted"
    [] from = "deleted"  -> to = "wiped"
    [] OTHER             -> FALSE

\* The states a PATCH may ask for: IsValid, minus those answered with 403.
PatchTargetsUnrestricted == ProjectStates
PatchTargets == ProjectStates \ {"deleted", "deleting", "wiped"}

\* The roles CreateAPIKeyHandler accepts.
IssuableRolesUnchecked == RequestedRoles
IssuableRoles == {"admin", "read_write", "read_only"}

IsSystemKey(k) == keys[k].project = NoProject /\ keys[k].role = "system"

Active(k) == keys[k].status = "active"

\* RequireProjectAccess: a system key, or a key of that very project.
ProjectAccess(k, p) ==
  IF keys[k].project = NoProject THEN keys[k].role = "system" ELSE keys[k].project = p

\* The WHERE clause of RevokeKeyForProject.
RevokesAnyKey(k, p) == Active(k) /\ p \in Projects
RevokesKey(k, p) == Active(k) /\ keys[k].project = p

\* A row of api_keys, revoked or not, holds projects.id as a foreign key.
Referenced(p) == \E k \in Keys : keys[k].status # "free" /\ keys[k].project = p

-----------------------------------------------------------------------------
Init ==
  /\ rows = [p \in Projects |-> "none"]
  /\ disk = [p \in Projects |-> {}]
  /\ keys = [k \in Keys |-> [status |-> "free", project |-> NoProject, role |-> "read_only"]]
  /\ wk = [w \in Workers |-> Idle]
  /\ up = FALSE
  /\ faults = 0
  /\ crashes = 0
  /\ recreated = {}
  /\ contended = {}

\* BootstrapSystemKey counts the active rows without a project and inserts a
\* system key only when there is none; the server starts after it.
ActiveSystemKeys == {k \in Keys : Active(k) /\ keys[k].project = NoProject}

InsertKeyRow(k, p, role) ==
  /\ keys[k].status = "free"
  /\ keys' = [keys EXCEPT ![k] = [status |-> "active", project |-> p, role |-> role]]

Start ==
  /\ ~up
  /\ IF ActiveSystemKeys # {}
       THEN UNCHANGED keys
       ELSE \E k \in Keys : InsertKeyRow(k, NoProject, "system")
  /\ up' = TRUE
  /\ UNCHANGED <<rows, disk, wk, faults, crashes, history>>

\* The process dies: every handler is gone, the database and the disk stay.
Crash ==
  /\ up
  /\ crashes < MaxCrashes
  /\ crashes' = crashes + 1
  /\ up' = FALSE
  /\ wk' = [w \in Workers |-> Idle]
  /\ UNCHANGED <<rows, disk, keys, faults, history>>

-----------------------------------------------------------------------------
(* A request arrives: authentication and authorisation, once. *)

Goto(w, pc) == wk' = [wk EXCEPT ![w].pc = pc]
Respond(w) == wk' = [wk EXCEPT ![w] = Idle]

Fault == faults < MaxFaults /\ faults' = faults + 1

Begin(w, k, p, pc) ==
  /\ up
  /\ wk[w].pc = "idle"
  /\ Active(k)
  /\ wk' = [wk EXCEPT ![w] = [Idle EXCEPT !.pc = pc, !.key = k, !.project = p]]
  /\ contended' = contended \cup {q \in {p} : \E v \in Workers : wk[v].project = q}
  /\ UNCHANGED <<rows, disk, keys, up, faults, crashes, recreated>>

Creating(p) == \E w \in Workers : wk[w].pc \in CreatePCs /\ wk[w].project = p

\* An id reaches clients in the answer of Create, in the project list (which
\* omits "creating"), or from the database once its creator is gone; an id
\* that no project has may be sent at any time.
Addressable(p) == Creating(p) => rows[p] \notin {"none", "creating"}

\* genProjectSeed hashes the name and the clock: an id never used before,
\* unless another creation of the same name has just read the same clock.
FreshSeed(p) ==
  /\ rows[p] = "none"
  /\ disk[p] = {}
  /\ \A w \in Workers : wk[w].project # p

TiedSeed(p) ==
  /\ ClockTies
  /\ \E w \in Workers : wk[w].pc = "AddProject" /\ wk[w].project = p

BeginCreate(w, k, p) ==
  /\ IsSystemKey(k)
  /\ FreshSeed(p) \/ TiedSeed(p)
  /\ Begin(w, k, p, "AddProject")

BeginSystem(w, k, p) ==
  /\ IsSystemKey(k)
  /\ Addressable(p)
  /\ \E pc \in {"RemoveRead", "WipeRead"} : Begin(w, k, p, pc)

\* A PATCH with a name starts with the rename, one with a state only does not.
BeginPatch(w, k, p) ==
  /\ ProjectAccess(k, p)
  /\ Addressable(p)
  /\ \E pc \in {"PatchRename", "PatchRead"} : Begin(w, k, p, pc)

BeginKeyRequest(w, k, p) ==
  /\ ProjectAccess(k, p)
  /\ keys[k].role \in {"admin", "system"}
  /\ Addressable(p)
  /\ \E pc \in {"InsertKey", "RevokeKey"} : Begin(w, k, p, pc)

\* Backups need an admin key, so one of the project itself, and look neither
\* at the row nor at whether there is one.
BeginBackup(w, k, p) ==
  /\ keys[k].project = p
  /\ keys[k].role = "admin"
  /\ Addressable(p)
  /\ Begin(w, k, p, "BackupMkdir")

-----------------------------------------------------------------------------
(* project.Create: five steps, and a deferred rollback on any error. *)

At(w, pc) == wk[w].pc = pc

FailCreate(w) == Goto(w, "RollbackDir") /\ UNCHANGED <<rows, disk>>

AddProjectInactive(w) ==
  LET p == wk[w].project IN
  /\ At(w, "AddProject")
  /\ rows[p] = "none"
  /\ rows' = [rows EXCEPT ![p] = "inactive"]
  /\ Goto(w, "MkdirProject")
  /\ UNCHANGED <<disk, keys, up, faults, crashes, history>>
AddProject(w) ==
  LET p == wk[w].project IN
  /\ At(w, "AddProject")
  /\ \/ /\ rows[p] = "none"
        /\ rows' = [rows EXCEPT ![p] = "creating"]
        /\ Goto(w, "MkdirProject")
        /\ UNCHANGED <<disk, faults>>
     \/ rows[p] # "none" /\ FailCreate(w) /\ UNCHANGED faults  \* PRIMARY KEY
     \/ Fault /\ FailCreate(w)
  /\ UNCHANGED <<keys, up, crashes, history>>

MkdirProject(w) ==
  LET p == wk[w].project IN
  /\ At(w, "MkdirProject")
  /\ \/ /\ disk' = [disk EXCEPT ![p] = @ \cup {"dir"}]
        /\ Goto(w, "CreateBlankDatabase")
        /\ UNCHANGED <<rows, faults>>
     \/ Fault /\ FailCreate(w)
  /\ UNCHANGED <<keys, up, crashes, history>>

\* Ping opens the file, which SQLite creates in a directory that exists.
CreateBlankDatabaseUnchecked(w) ==
  /\ At(w, "CreateBlankDatabase")
  /\ \/ disk' = [disk EXCEPT ![wk[w].project] = @ \cup {"database.db"}] /\ UNCHANGED faults
     \/ Fault /\ UNCHANGED disk
  /\ Goto(w, "MkdirMigrations")
  /\ UNCHANGED <<rows, keys, up, crashes, history>>
CreateBlankDatabase(w) ==
  LET p == wk[w].project IN
  /\ At(w, "CreateBlankDatabase")
  /\ \/ /\ "dir" \in disk[p]
        /\ disk' = [disk EXCEPT ![p] = @ \cup {"database.db"}]
        /\ Goto(w, "MkdirMigrations")
        /\ UNCHANGED <<rows, faults>>
     \/ "dir" \notin disk[p] /\ FailCreate(w) /\ UNCHANGED faults
     \/ Fault /\ FailCreate(w)
  /\ UNCHANGED <<keys, up, crashes, history>>

MkdirMigrations(w) ==
  LET p == wk[w].project IN
  /\ At(w, "MkdirMigrations")
  /\ \/ /\ disk' = [disk EXCEPT ![p] = @ \cup {"dir", "migrations"}]
        /\ Goto(w, "Activate")
        /\ UNCHANGED <<rows, faults>>
     \/ Fault /\ FailCreate(w)
  /\ UNCHANGED <<keys, up, crashes, history>>

\* UpdateProjectState(inactive): no row is ErrNoRows, an error like any other.
Activate(w) ==
  LET p == wk[w].project IN
  /\ At(w, "Activate")
  /\ \/ /\ rows[p] # "none"
        /\ rows' = [rows EXCEPT ![p] = "inactive"]
        /\ Respond(w)
        /\ UNCHANGED <<disk, faults>>
     \/ rows[p] = "none" /\ FailCreate(w) /\ UNCHANGED faults
     \/ Fault /\ FailCreate(w)
  /\ UNCHANGED <<keys, up, crashes, history>>

\* The result of RemoveAll is ignored: a failure leaves some of the directory.
RollbackDirSkipped(w) ==
  /\ At(w, "RollbackDir")
  /\ Goto(w, "RollbackRow")
  /\ UNCHANGED <<rows, disk, keys, up, faults, crashes, history>>
RollbackDir(w) ==
  LET p == wk[w].project IN
  /\ At(w, "RollbackDir")
  /\ \/ disk' = [disk EXCEPT ![p] = {}] /\ UNCHANGED faults
     \/ /\ Fault
        /\ \E left \in SUBSET disk[p] :
             /\ left # {} => "dir" \in left
             /\ disk' = [disk EXCEPT ![p] = left]
  /\ Goto(w, "RollbackRow")
  /\ UNCHANGED <<rows, keys, up, crashes, history>>

\* DeleteProjectRow, whose error is only logged.
RollbackRow(w) ==
  LET p == wk[w].project IN
  /\ At(w, "RollbackRow")
  /\ \/ ~Referenced(p) /\ rows' = [rows EXCEPT ![p] = "none"] /\ UNCHANGED faults
     \/ Referenced(p) /\ UNCHANGED <<rows, faults>>
     \/ Fault /\ UNCHANGED rows
  /\ Respond(w)
  /\ UNCHANGED <<disk, keys, up, crashes, history>>

-----------------------------------------------------------------------------
(* Reading the row, checking the transition, and writing the new state:    *)
(* two statements, and nothing ties the second to what the first saw.      *)

ReadStateUnchecked(w, from, to, next) ==
  /\ At(w, from)
  /\ rows[wk[w].project] # "none"
  /\ wk' = [wk EXCEPT ![w].pc = next, ![w].seen = rows[wk[w].project], ![w].to = to]
  /\ UNCHANGED <<rows, disk, keys, up, faults, crashes, history>>
ReadState(w, from, to, next) ==
  LET p == wk[w].project IN
  /\ At(w, from)
  /\ \/ /\ rows[p] # "none" /\ CanTransitionTo(rows[p], to)
        /\ wk' = [wk EXCEPT ![w].pc = next, ![w].seen = rows[p], ![w].to = to]
        /\ UNCHANGED faults
     \/ (rows[p] = "none" \/ ~CanTransitionTo(rows[p], to)) /\ Respond(w)  \* 404, 409
        /\ UNCHANGED faults
     \/ Fault /\ Respond(w)
  /\ UNCHANGED <<rows, disk, keys, up, crashes, history>>

\* UpdateProjectState: an UPDATE by id, whatever the state is by now.
WriteState(w, from) ==
  LET p == wk[w].project IN
  /\ At(w, from)
  /\ \/ rows[p] # "none" /\ rows' = [rows EXCEPT ![p] = wk[w].to] /\ UNCHANGED faults
     \/ rows[p] = "none" /\ UNCHANGED <<rows, faults>>
     \/ Fault /\ UNCHANGED rows
  /\ Respond(w)
  /\ UNCHANGED <<disk, keys, up, crashes, history>>

RemoveRead(w) == ReadState(w, "RemoveRead", "deleted", "RemoveWrite")
RemoveWrite(w) == WriteState(w, "RemoveWrite")

\* UpdateProjectName, then the state if the request has an acceptable one.
PatchRename(w) ==
  LET p == wk[w].project IN
  /\ At(w, "PatchRename")
  /\ \/ rows[p] # "none" /\ Goto(w, "PatchRead") /\ UNCHANGED faults
     \/ Respond(w) /\ UNCHANGED faults  \* no row, no state, or 400 or 403 for the state
     \/ Fault /\ Respond(w)
  /\ UNCHANGED <<rows, disk, keys, up, crashes, history>>

PatchRead(w) == \E to \in PatchTargets : ReadState(w, "PatchRead", to, "PatchWrite")
PatchWrite(w) == WriteState(w, "PatchWrite")

-----------------------------------------------------------------------------
(* WipeProjectHandler: every error leaves the row as it is, to be retried. *)

WipeRead(w) == ReadState(w, "WipeRead", "wiped", "WipeRevoke")

\* RevokeAllKeysForProject: one UPDATE.
WipeRevokeNothing(w) ==
  /\ At(w, "WipeRevoke")
  /\ Goto(w, "WipeRemoveAll")
  /\ UNCHANGED <<rows, disk, keys, up, faults, crashes, history>>
WipeRevoke(w) ==
  LET p == wk[w].project IN
  /\ At(w, "WipeRevoke")
  /\ \/ /\ keys' = [k \in Keys |-> IF RevokesKey(k, p)
                                     THEN [keys[k] EXCEPT !.status = "revoked"]
                                     ELSE keys[k]]
        /\ Goto(w, "WipeRemoveAll")
        /\ UNCHANGED faults
     \/ Fault /\ Respond(w) /\ UNCHANGED keys
  /\ UNCHANGED <<rows, disk, up, crashes, history>>

WipeRemoveAllUnchecked(w) ==
  LET p == wk[w].project IN
  /\ At(w, "WipeRemoveAll")
  /\ \/ disk' = [disk EXCEPT ![p] = {}] /\ UNCHANGED faults
     \/ Fault /\ UNCHANGED disk
  /\ Goto(w, "WipeWrite")
  /\ UNCHANGED <<rows, keys, up, crashes, history>>
WipeRemoveAll(w) ==
  LET p == wk[w].project IN
  /\ At(w, "WipeRemoveAll")
  /\ \/ /\ disk' = [disk EXCEPT ![p] = {}]
        /\ recreated' = recreated \ {p}
        /\ Goto(w, "WipeWrite")
        /\ UNCHANGED faults
     \/ /\ Fault
        /\ \E left \in SUBSET disk[p] :
             /\ left # {} => "dir" \in left
             /\ disk' = [disk EXCEPT ![p] = left]
        /\ Respond(w)
        /\ UNCHANGED recreated
  /\ UNCHANGED <<rows, keys, up, crashes, contended>>

WipeWrite(w) == WriteState(w, "WipeWrite")

-----------------------------------------------------------------------------
(* API keys.  Neither handler looks at the state of the project. *)

\* CreateKey: the foreign key needs the row.  The pool of ids is a bound: a
\* request that finds it empty is given up.
FreeKeys == {k \in Keys : keys[k].status = "free"}

InsertKeyUnchecked(w) ==
  LET p == wk[w].project IN
  /\ At(w, "InsertKey")
  /\ \/ /\ \E k \in FreeKeys, role \in RequestedRoles \cap IssuableRoles :
             InsertKeyRow(k, p, role)
     \/ FreeKeys = {} /\ UNCHANGED keys
  /\ Respond(w)
  /\ UNCHANGED <<rows, disk, up, faults, crashes, history>>
InsertKey(w) ==
  LET p == wk[w].project IN
  /\ At(w, "InsertKey")
  /\ \/ /\ rows[p] # "none"
        /\ \E k \in FreeKeys, role \in RequestedRoles \cap IssuableRoles :
             InsertKeyRow(k, p, role)
        /\ UNCHANGED faults
     \/ (rows[p] = "none" \/ FreeKeys = {}) /\ UNCHANGED <<keys, faults>>
     \/ Fault /\ UNCHANGED keys
  /\ Respond(w)
  /\ UNCHANGED <<rows, disk, up, crashes, history>>

\* Any key id may be named; the statement matches it only inside the project.
RevokeKey(w) ==
  LET p == wk[w].project IN
  /\ At(w, "RevokeKey")
  /\ \/ /\ \E k \in Keys :
             /\ RevokesKey(k, p)
             /\ keys' = [keys EXCEPT ![k].status = "revoked"]
        /\ UNCHANGED faults
     \/ UNCHANGED <<keys, faults>>  \* no such active key in the project: 404
     \/ Fault /\ UNCHANGED keys
  /\ Respond(w)
  /\ UNCHANGED <<rows, disk, up, crashes, history>>

-----------------------------------------------------------------------------
(* BackupHandler and CreateBackup, as far as they make files: MkdirAll     *)
(* makes the project directory again if it is gone, and VACUUM INTO opens, *)
(* so creates, database.db.  ProjectData models the project lock, what a   *)
(* backup holds and the backups of the scheduler, which this module leaves *)
(* out: they make files in the same way.                                   *)

BackupMkdir(w) ==
  LET p == wk[w].project IN
  /\ At(w, "BackupMkdir")
  /\ \/ /\ disk' = [disk EXCEPT ![p] = @ \cup {"dir", "backups"}]
        /\ recreated' = recreated \cup {q \in Projects : q = p /\ "dir" \notin disk[q]}
        /\ Goto(w, "BackupVacuum")
        /\ UNCHANGED faults
     \/ Fault /\ Respond(w) /\ UNCHANGED <<disk, recreated>>
  /\ UNCHANGED <<rows, keys, up, crashes, contended>>

BackupVacuum(w) ==
  LET p == wk[w].project IN
  /\ At(w, "BackupVacuum")
  /\ \/ /\ "dir" \in disk[p]
        /\ disk' = [disk EXCEPT ![p] = @ \cup {"database.db"}]
        /\ UNCHANGED faults
     \/ "dir" \notin disk[p] /\ UNCHANGED <<disk, faults>>
     \/ Fault /\ UNCHANGED disk
  /\ Respond(w)
  /\ UNCHANGED <<rows, keys, up, crashes, history>>

-----------------------------------------------------------------------------
Arrive(w) ==
  \E k \in Keys, p \in Projects :
    BeginCreate(w, k, p) \/ BeginSystem(w, k, p) \/ BeginPatch(w, k, p)
      \/ BeginKeyRequest(w, k, p) \/ BeginBackup(w, k, p)

CreateStep(w) ==
  \/ AddProject(w) \/ MkdirProject(w) \/ CreateBlankDatabase(w) \/ MkdirMigrations(w)
  \/ Activate(w) \/ RollbackDir(w) \/ RollbackRow(w)

StateStep(w) ==
  \/ RemoveRead(w) \/ RemoveWrite(w)
  \/ PatchRename(w) \/ PatchRead(w) \/ PatchWrite(w)
  \/ WipeRead(w) \/ WipeRevoke(w) \/ WipeRemoveAll(w) \/ WipeWrite(w)

KeyStep(w) == InsertKey(w) \/ RevokeKey(w)

BackupStep(w) == BackupMkdir(w) \/ BackupVacuum(w)

Next ==
  \/ Start
  \/ Crash
  \/ \E w \in Workers :
       Arrive(w) \/ CreateStep(w) \/ StateStep(w) \/ KeyStep(w) \/ BackupStep(w)

Spec == Init /\ [][Next]_vars
-----------------------------------------------------------------------------
(* Properties.  XStep is what one step may do, X that every step does. *)

Acts(w, p) == wk[w].project = p /\ wk'[w] # wk[w]

Changes(p) == rows[p] # rows'[p] /\ "none" \notin {rows[p], rows'[p]}

Touches(p) ==
  \/ rows'[p] # rows[p]
  \/ disk'[p] # disk[p]
  \/ \E k \in Keys : keys'[k] # keys[k] /\ keys'[k].project = p

WritePCs == {"RemoveWrite", "PatchWrite", "WipeWrite"}

Orphan(p) ==
  /\ ~Creating(p)
  /\ \/ rows[p] = "creating"
     \/ rows[p] = "none" /\ disk[p] # {}

(* Once the server has started there is always an active system key: the   *)
(* fleet can never lose its last one, because revocation always names a    *)
(* project (RevokeKeyForProject, RevokeAllKeysForProject) and start-up     *)
(* bootstraps one (BootstrapSystemKey).                                    *)
SystemKeyActive == up => \E k \in Keys : Active(k) /\ IsSystemKey(k)

(* The data invariant RequireProjectAccess falls back on: a key without a  *)
(* project is a system key, and no project key has the system role.        *)
SystemRoleHasNoProject ==
  \A k \in Keys : keys[k].status # "free" =>
    (keys[k].role = "system" <=> keys[k].project = NoProject)

(* Nothing of a project survives its wipe, whatever failures, crashes and  *)
(* other handlers came between the steps.  It does not say that a wiped    *)
(* project has nothing on disk: a backup that was in flight, or whose key  *)
(* was issued after the wipe had revoked them all, makes the directory     *)
(* again (MkdirAll in CreateBackup; see WipeRemovesDirectory in            *)
(* ProjectData).  What is there then is what such a backup has made out of *)
(* nothing, not the old files.                                             *)
NothingOutlivesWipe ==
  \A p \in Projects : rows[p] = "wiped" =>
    disk[p] = {} \/ (p \in recreated /\ "migrations" \notin disk[p])

(* Only DELETE and wipe, and only for a system key, move a project to      *)
(* "deleted" or "wiped", and nothing ever moves one to "deleting": PATCH,  *)
(* which project keys may call, cannot reach those states.                 *)
DeletionStep ==
  \A p \in Projects :
    rows'[p] # rows[p] /\ rows'[p] \in {"deleting", "deleted", "wiped"} =>
      /\ rows'[p] # "deleting"
      /\ \E w \in Workers :
           /\ Acts(w, p)
           /\ wk[w].pc \in {"RemoveWrite", "WipeWrite"}
           /\ IsSystemKey(wk[w].key)
DeletionBySystemKey == [][DeletionStep]_vars

(* A project key changes the row, the directory and the keys of its own    *)
(* project only; everything else is done for a system key.                 *)
OwnProjectStep ==
  \A p \in Projects : Touches(p) =>
    \E w \in Workers : Acts(w, p) /\ keys[wk[w].key].project \in {p, NoProject}
OwnProjectOnly == [][OwnProjectStep]_vars

(* A handler that finds the row as it read it makes only a transition the  *)
(* table allows: an illegal transition needs another handler to have       *)
(* changed the row between this one's SELECT and its UPDATE.               *)
OvertakenStep ==
  \A p \in Projects : Changes(p) =>
    \/ CanTransitionTo(rows[p], rows'[p])
    \/ \E w \in Workers :
         /\ Acts(w, p)
         /\ wk[w].pc \in WritePCs
         /\ wk[w].seen # rows[p]
         /\ CanTransitionTo(wk[w].seen, rows'[p])
IllegalOnlyIfOvertaken == [][OvertakenStep]_vars

(* When Create answers with an id, the directory, the database file and    *)
(* the migrations directory of that project are all there, whatever other  *)
(* requests do meanwhile.  The metadata.json that the comment of Create    *)
(* lists with them is not: no code writes one.                             *)
CreatedStep ==
  \A w \in Workers : At(w, "Activate") /\ rows'[wk[w].project] = "inactive" =>
    Made \subseteq disk[wk[w].project]
CreatedIsComplete == [][CreatedStep]_vars

(* No single failed call leaves half a project behind: the rollback of     *)
(* Create removes the row and the directory unless the process crashes or  *)
(* the rollback itself fails as well.                                      *)
OneFailureLeavesNothing ==
  crashes = 0 /\ faults <= 1 => \A p \in Projects : ~Orphan(p)

(* Every row of api_keys that names a project names an existing one, also  *)
(* when the rollback of a creation deletes rows.                           *)
KeysReferToRows ==
  \A k \in Keys : keys[k].status # "free" /\ keys[k].project \in Projects =>
    rows[keys[k].project] # "none"

(* What CanTransitionTo and docs/api.md promise of every change of state.  *)
TransitionStep == \A p \in Projects : Changes(p) => CanTransitionTo(rows[p], rows'[p])
AllowedTransitions == [][TransitionStep]_vars

(* When a wipe completes no key of the project is active, even when an     *)
(* earlier wipe failed half way and keys were issued in between: if the    *)
(* project has never had two requests at once.  With two, a key may be     *)
(* issued between the revocation and the last write of the wipe.           *)
WipeLeavesNoKeys ==
  [][\A p \in Projects \ contended : rows'[p] = "wiped" /\ rows[p] # "wiped" =>
       \A k \in Keys : keys'[k].project = p => keys'[k].status # "active"]_vars

(* Without a crash, and with no more than one failed call, a project that  *)
(* the API lists has its database file, if it has never had two requests   *)
(* at once: a PATCH can take a row that a creation left behind to          *)
(* "inactive", but it takes two failures, of the creation and of its       *)
(* rollback, to leave one.                                                 *)
ListedHasDatabase ==
  crashes = 0 /\ faults <= 1 =>
    \A p \in Projects \ contended :
      rows[p] \in {"inactive", "active"} => "database.db" \in disk[p]

(* A completed project disappears only by being wiped: no request removes  *)
(* the row or the database file of a project that is in use.               *)
CreatedIsNotUndone ==
  [][\A p \in Projects : rows[p] \in {"inactive", "active"} =>
       rows'[p] # "none" /\ ("database.db" \in disk[p] => "database.db" \in disk'[p])]_vars
=============================================================================
