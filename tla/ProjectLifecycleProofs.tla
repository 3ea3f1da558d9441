------------------------ MODULE ProjectLifecycleProofs ------------------------
(***************************************************************************)
(* Proofs about ProjectLifecycle, for any number of projects, keys and     *)
(* concurrent requests and any bounds on failures and crashes.             *)
(***************************************************************************)
EXTENDS ProjectLifecycle, TLAPS

-----------------------------------------------------------------------------
(* Type correctness. *)

(* Every update of a handler's local state stays inside Handlers.          *)
LEMMA HandlerTypes ==
  ASSUME TypeOK, NEW w \in Workers
  PROVE  /\ [v \in Workers |-> Idle] \in [Workers -> Handlers]
         /\ Respond(w) => wk' \in [Workers -> Handlers]
         /\ \A pc \in PCs : Goto(w, pc) => wk' \in [Workers -> Handlers]
  BY DEF TypeOK, Handlers, Idle, Respond, Goto, PCs

LEMMA FaultType ==
  ASSUME TypeOK, Fault
  PROVE  faults' \in 0..MaxFaults
  BY LifecycleAssumption DEF TypeOK, Fault

LEMMA TypeInit == Init => TypeOK
<1>. SUFFICES ASSUME Init PROVE TypeOK
  OBVIOUS
<1>1. wk \in [Workers -> Handlers]
  BY DEF Init, Idle, Handlers, PCs
<1>2. keys \in [Keys -> KeyRows]
  BY DEF Init, KeyRows, Roles
<1>3. faults \in 0..MaxFaults /\ crashes \in 0..MaxCrashes
  BY LifecycleAssumption DEF Init
<1>. QED
  BY <1>1, <1>2, <1>3 DEF Init, TypeOK

LEMMA InsertKeyRowType ==
  ASSUME TypeOK, NEW k \in Keys, NEW p \in Projects \cup {NoProject}, NEW role \in Roles,
         InsertKeyRow(k, p, role)
  PROVE  keys' \in [Keys -> KeyRows]
  BY DEF TypeOK, InsertKeyRow, KeyRows

LEMMA TypeArrive ==
  ASSUME TypeOK, NEW w \in Workers, Arrive(w)
  PROVE  TypeOK'
<1>1. PICK k \in Keys, p \in Projects, pc \in PCs : Begin(w, k, p, pc)
  BY DEF Arrive, BeginCreate, BeginSystem, BeginPatch, BeginKeyRequest, BeginBackup, PCs,
         CreatePCs, SystemPCs, BackupPCs
<1>2. wk' \in [Workers -> Handlers]
  BY <1>1 DEF Begin, TypeOK, Handlers, Idle
<1>3. contended' \subseteq Projects
  BY <1>1 DEF Begin, TypeOK
<1>. QED
  BY <1>1, <1>2, <1>3 DEF Begin, TypeOK

LEMMA TypeCreateStep ==
  ASSUME TypeOK, NEW w \in Workers, CreateStep(w)
  PROVE  TypeOK'
<1>. DEFINE p == wk[w].project
<1>1. wk' \in [Workers -> Handlers]
  BY HandlerTypes
  DEF CreateStep, AddProject, MkdirProject, CreateBlankDatabase, MkdirMigrations,
      Activate, RollbackDir, RollbackRow, FailCreate, PCs, CreatePCs
<1>2. faults' \in 0..MaxFaults
  BY FaultType
  DEF CreateStep, AddProject, MkdirProject, CreateBlankDatabase, MkdirMigrations,
      Activate, RollbackDir, RollbackRow, TypeOK
<1>3. rows' \in [Projects -> ProjectStates \cup {"none"}]
  BY DEF CreateStep, AddProject, MkdirProject, CreateBlankDatabase, MkdirMigrations,
      Activate, RollbackDir, RollbackRow, FailCreate, TypeOK, ProjectStates
<1>4. disk' \in [Projects -> SUBSET Parts]
  <2>1. CASE RollbackDir(w)
    BY <2>1 DEF RollbackDir, TypeOK, Parts
  <2>2. CASE ~RollbackDir(w)
    BY <2>2 DEF CreateStep, AddProject, MkdirProject, CreateBlankDatabase, MkdirMigrations,
      Activate, RollbackRow, FailCreate, TypeOK, Parts, Made
  <2>. QED BY <2>1, <2>2
<1>5. UNCHANGED <<keys, up, crashes, history>>
  BY DEF CreateStep, AddProject, MkdirProject, CreateBlankDatabase, MkdirMigrations,
      Activate, RollbackDir, RollbackRow
<1>. QED
  BY <1>1, <1>2, <1>3, <1>4, <1>5 DEF TypeOK, history

LEMMA TypeStateStep ==
  ASSUME TypeOK, NEW w \in Workers, StateStep(w)
  PROVE  TypeOK'
<1>1. CASE RemoveRead(w) \/ PatchRead(w) \/ WipeRead(w)
  <2>1. PICK from \in PCs, next \in PCs, to \in ProjectStates : ReadState(w, from, to, next)
    BY <1>1 DEF RemoveRead, PatchRead, WipeRead, PCs, SystemPCs, ProjectStates, PatchTargets
  <2>2. wk' \in [Workers -> Handlers]
    BY <2>1, HandlerTypes DEF ReadState, TypeOK, Handlers
  <2>. QED
    BY <2>1, <2>2, FaultType DEF ReadState, TypeOK, history
<1>2. CASE RemoveWrite(w) \/ PatchWrite(w) \/ WipeWrite(w)
  <2>1. PICK from \in PCs : WriteState(w, from)
    BY <1>2 DEF RemoveWrite, PatchWrite, WipeWrite, PCs, SystemPCs
  <2>2. wk' \in [Workers -> Handlers]
    BY <2>1, HandlerTypes DEF WriteState
  <2>3. rows' \in [Projects -> ProjectStates \cup {"none"}]
    BY <2>1 DEF WriteState, TypeOK, Handlers
  <2>. QED
    BY <2>1, <2>2, <2>3, FaultType DEF WriteState, TypeOK, history
<1>3. CASE PatchRename(w)
  <2>1. wk' \in [Workers -> Handlers]
    BY <1>3, HandlerTypes DEF PatchRename, PCs
  <2>. QED
    BY <1>3, <2>1, FaultType DEF PatchRename, TypeOK, history
<1>4. CASE WipeRevoke(w)
  <2>1. wk' \in [Workers -> Handlers]
    BY <1>4, HandlerTypes DEF WipeRevoke, PCs, SystemPCs
  <2>2. keys' \in [Keys -> KeyRows]
    BY <1>4 DEF WipeRevoke, TypeOK, KeyRows
  <2>. QED
    BY <1>4, <2>1, <2>2, FaultType DEF WipeRevoke, TypeOK, history
<1>5. CASE WipeRemoveAll(w)
  <2>1. wk' \in [Workers -> Handlers]
    BY <1>5, HandlerTypes DEF WipeRemoveAll, PCs, SystemPCs
  <2>2. disk' \in [Projects -> SUBSET Parts]
    BY <1>5 DEF WipeRemoveAll, TypeOK, Parts
  <2>3. recreated' \subseteq Projects
    BY <1>5 DEF WipeRemoveAll, TypeOK
  <2>. QED
    BY <1>5, <2>1, <2>2, <2>3, FaultType DEF WipeRemoveAll, TypeOK
<1>. QED
  BY <1>1, <1>2, <1>3, <1>4, <1>5 DEF StateStep

LEMMA TypeKeyStep ==
  ASSUME TypeOK, NEW w \in Workers, KeyStep(w)
  PROVE  TypeOK'
<1>. DEFINE p == wk[w].project
<1>1. p \in Projects \cup {NoProject}
  BY DEF TypeOK, Handlers
<1>2. wk' \in [Workers -> Handlers] /\ UNCHANGED <<rows, disk, up, crashes, history>>
  BY HandlerTypes DEF KeyStep, InsertKey, RevokeKey
<1>3. faults' \in 0..MaxFaults
  BY FaultType DEF KeyStep, InsertKey, RevokeKey, TypeOK
<1>4. keys' \in [Keys -> KeyRows]
  <2>1. CASE \E k \in FreeKeys, role \in RequestedRoles \cap IssuableRoles :
               InsertKeyRow(k, p, role)
    BY <2>1, <1>1, InsertKeyRowType DEF FreeKeys, IssuableRoles, Roles
  <2>2. CASE \E k \in Keys : keys' = [keys EXCEPT ![k].status = "revoked"]
    BY <2>2 DEF TypeOK, KeyRows
  <2>3. CASE UNCHANGED keys
    BY <2>3 DEF TypeOK
  <2>. QED
    BY <2>1, <2>2, <2>3 DEF KeyStep, InsertKey, RevokeKey
<1>. QED
  BY <1>2, <1>3, <1>4 DEF TypeOK, history

LEMMA TypeBackupStep ==
  ASSUME TypeOK, NEW w \in Workers, BackupStep(w)
  PROVE  TypeOK'
<1>1. CASE BackupMkdir(w)
  <2>1. wk' \in [Workers -> Handlers]
    BY <1>1, HandlerTypes DEF BackupMkdir, PCs, BackupPCs
  <2>2. disk' \in [Projects -> SUBSET Parts]
    BY <1>1 DEF BackupMkdir, TypeOK, Parts, Made
  <2>3. recreated' \subseteq Projects
    BY <1>1 DEF BackupMkdir, TypeOK
  <2>. QED
    BY <1>1, <2>1, <2>2, <2>3, FaultType DEF BackupMkdir, TypeOK
<1>2. CASE BackupVacuum(w)
  <2>1. wk' \in [Workers -> Handlers]
    BY <1>2, HandlerTypes DEF BackupVacuum
  <2>2. disk' \in [Projects -> SUBSET Parts]
    BY <1>2 DEF BackupVacuum, TypeOK, Parts, Made
  <2>. QED
    BY <1>2, <2>1, <2>2, FaultType DEF BackupVacuum, TypeOK, history
<1>. QED
  BY <1>1, <1>2 DEF BackupStep

LEMMA TypeStep == TypeOK /\ [Next]_vars => TypeOK'
<1>. SUFFICES ASSUME TypeOK, [Next]_vars PROVE TypeOK'
  OBVIOUS
<1>1. CASE Start
  <2>1. keys' \in [Keys -> KeyRows]
    BY <1>1, InsertKeyRowType DEF Start, TypeOK, Roles
  <2>. QED
    BY <1>1, <2>1 DEF Start, TypeOK, history
<1>2. CASE Crash
  <2>1. wk' \in [Workers -> Handlers]
    BY <1>2 DEF Crash, Idle, Handlers, PCs
  <2>2. crashes' \in 0..MaxCrashes
    BY <1>2, LifecycleAssumption DEF Crash, TypeOK
  <2>. QED
    BY <1>2, <2>1, <2>2 DEF Crash, TypeOK, history
<1>3. ASSUME NEW w \in Workers,
             Arrive(w) \/ CreateStep(w) \/ StateStep(w) \/ KeyStep(w) \/ BackupStep(w)
      PROVE  TypeOK'
  BY <1>3, TypeArrive, TypeCreateStep, TypeStateStep, TypeKeyStep, TypeBackupStep
<1>4. CASE UNCHANGED vars
  BY <1>4 DEF vars, history, TypeOK
<1>. QED
  BY <1>1, <1>2, <1>3, <1>4 DEF Next

(* In every reachable state the tables, the disk and the handlers' local   *)
(* states hold only values the code can produce.                           *)
THEOREM TypeCorrect == Spec => []TypeOK
<1>1. Init => TypeOK
  BY TypeInit
<1>2. TypeOK /\ [Next]_vars => TypeOK'
  BY TypeStep
<1>. QED
  BY <1>1, <1>2, PTL DEF Spec

-----------------------------------------------------------------------------
(* Keys and the requests made with them, whatever the clock does.          *)

\* A request runs for a key that was issued and reaches its project, and the
\* fleet-management handlers only for a system key.
ActorsAuthorised ==
  \A w \in Workers : wk[w].pc # "idle" =>
    /\ wk[w].key \in Keys
    /\ wk[w].project \in Projects
    /\ keys[wk[w].key].status # "free"
    /\ keys[wk[w].key].project \in {wk[w].project, NoProject}
    /\ wk[w].pc \in CreatePCs \cup SystemPCs => IsSystemKey(wk[w].key)
    /\ wk[w].pc \in BackupPCs => keys[wk[w].key].project = wk[w].project

\* What a handler is about to write follows, by the table, from what it read.
TargetsAllowed ==
  \A w \in Workers :
    /\ wk[w].pc = "PatchWrite" => wk[w].to \in PatchTargets
    /\ wk[w].pc = "RemoveWrite" => wk[w].to = "deleted"
    /\ wk[w].pc \in {"WipeRevoke", "WipeRemoveAll", "WipeWrite"} => wk[w].to = "wiped"
    /\ wk[w].pc \in {"PatchWrite", "RemoveWrite", "WipeRevoke", "WipeRemoveAll", "WipeWrite"}
         => CanTransitionTo(wk[w].seen, wk[w].to)

KeyInv == TypeOK /\ SystemRoleHasNoProject /\ SystemKeyActive /\ ActorsAuthorised
            /\ TargetsAllowed

-----------------------------------------------------------------------------
(* How one step changes the keys and the local states.                     *)

Moves(w) == CreateStep(w) \/ StateStep(w) \/ KeyStep(w) \/ BackupStep(w)

LEMMA OthersUnchanged ==
  ASSUME TypeOK, NEW w \in Workers, Arrive(w) \/ Moves(w), NEW v \in Workers, v # w
  PROVE  wk'[v] = wk[v]
<1>1. CASE Arrive(w)
  BY <1>1 DEF Arrive, BeginCreate, BeginSystem, BeginPatch, BeginKeyRequest, BeginBackup, Begin, TypeOK
<1>2. CASE CreateStep(w)
  BY <1>2 DEF CreateStep, AddProject, MkdirProject, CreateBlankDatabase, MkdirMigrations,
      Activate, RollbackDir, RollbackRow, FailCreate, Goto, Respond, TypeOK
<1>3. CASE StateStep(w)
  BY <1>3 DEF StateStep, RemoveRead, RemoveWrite, PatchRename, PatchRead, PatchWrite,
      WipeRead, WipeRevoke, WipeRemoveAll, WipeWrite, ReadState, WriteState, Goto, Respond,
      TypeOK
<1>4. CASE KeyStep(w) \/ BackupStep(w)
  BY <1>4 DEF KeyStep, InsertKey, RevokeKey, BackupStep, BackupMkdir, BackupVacuum, Goto,
      Respond, TypeOK
<1>. QED
  BY <1>1, <1>2, <1>3, <1>4 DEF Moves

\* A handler that does not answer goes on with the same key and project.
LEMMA SelfMoves ==
  ASSUME TypeOK, NEW w \in Workers, Moves(w)
  PROVE  /\ wk[w].pc # "idle"
         /\ \/ wk'[w] = Idle
            \/ /\ wk'[w].pc # "idle"
               /\ wk'[w].key = wk[w].key
               /\ wk'[w].project = wk[w].project
               /\ wk'[w].pc \in CreatePCs <=> wk[w].pc \in CreatePCs
               /\ wk'[w].pc \in SystemPCs <=> wk[w].pc \in SystemPCs
               /\ wk'[w].pc \in BackupPCs <=> wk[w].pc \in BackupPCs
<1>1. CASE CreateStep(w)
  BY <1>1 DEF CreateStep, AddProject, MkdirProject, CreateBlankDatabase, MkdirMigrations,
      Activate, RollbackDir, RollbackRow, FailCreate, Goto, Respond, At, TypeOK, Handlers,
      CreatePCs, SystemPCs, BackupPCs
<1>2. CASE StateStep(w)
  BY <1>2 DEF StateStep, RemoveRead, RemoveWrite, PatchRename, PatchRead, PatchWrite,
      WipeRead, WipeRevoke, WipeRemoveAll, WipeWrite, ReadState, WriteState, Goto, Respond,
      At, TypeOK, Handlers, CreatePCs, SystemPCs, BackupPCs
<1>3. CASE KeyStep(w)
  BY <1>3 DEF KeyStep, InsertKey, RevokeKey, Respond, At, TypeOK, Handlers, CreatePCs,
      SystemPCs, BackupPCs
<1>4. CASE BackupStep(w)
  BY <1>4 DEF BackupStep, BackupMkdir, BackupVacuum, Goto, Respond, At, TypeOK, Handlers,
      CreatePCs, SystemPCs, BackupPCs
<1>. QED
  BY <1>1, <1>2, <1>3, <1>4 DEF Moves

\* Rows of api_keys are inserted and revoked, never freed and never moved.
LEMMA KeysOnlyGrow ==
  ASSUME TypeOK, Next, NEW k \in Keys, keys[k].status # "free"
  PROVE  /\ keys'[k].status # "free"
         /\ keys'[k].project = keys[k].project
         /\ keys'[k].role = keys[k].role
<1>1. CASE Start
  BY <1>1 DEF Start, InsertKeyRow, TypeOK
<1>2. CASE Crash
  BY <1>2 DEF Crash
<1>3. ASSUME NEW w \in Workers, Arrive(w) PROVE UNCHANGED keys
  BY <1>3 DEF Arrive, BeginCreate, BeginSystem, BeginPatch, BeginKeyRequest, BeginBackup, Begin
<1>4. ASSUME NEW w \in Workers, CreateStep(w) PROVE UNCHANGED keys
  BY <1>4 DEF CreateStep, AddProject, MkdirProject, CreateBlankDatabase, MkdirMigrations,
      Activate, RollbackDir, RollbackRow
<1>5. ASSUME NEW w \in Workers, StateStep(w) PROVE UNCHANGED keys \/ WipeRevoke(w)
  BY <1>5 DEF StateStep, RemoveRead, RemoveWrite, PatchRename, PatchRead, PatchWrite,
      WipeRead, WipeRemoveAll, WipeWrite, ReadState, WriteState
<1>6. ASSUME NEW w \in Workers, WipeRevoke(w)
      PROVE  UNCHANGED keys \/ keys'[k] = keys[k] \/ keys'[k] = [keys[k] EXCEPT !.status = "revoked"]
  BY <1>6 DEF WipeRevoke
<1>7. ASSUME NEW w \in Workers, KeyStep(w)
      PROVE  keys'[k] = keys[k] \/ keys'[k] = [keys[k] EXCEPT !.status = "revoked"]
  BY <1>7 DEF KeyStep, InsertKey, RevokeKey, InsertKeyRow, FreeKeys, TypeOK
<1>8. keys[k] \in KeyRows
  BY DEF TypeOK
<1>9. ASSUME NEW w \in Workers, BackupStep(w) PROVE UNCHANGED keys
  BY <1>9 DEF BackupStep, BackupMkdir, BackupVacuum
<1>. QED
  BY <1>1, <1>2, <1>3, <1>4, <1>5, <1>6, <1>7, <1>8, <1>9 DEF Next, KeyRows

LEMMA KeyRoleStep ==
  ASSUME TypeOK, SystemRoleHasNoProject, ActorsAuthorised, Next
  PROVE  SystemRoleHasNoProject'
<1>. SUFFICES ASSUME NEW k \in Keys, keys'[k].status # "free", keys[k].status = "free"
              PROVE  keys'[k].role = "system" <=> keys'[k].project = NoProject
  BY KeysOnlyGrow DEF SystemRoleHasNoProject
<1>1. CASE Start
  BY <1>1 DEF Start, InsertKeyRow, TypeOK
<1>2. CASE Crash
  BY <1>2 DEF Crash
<1>3. ASSUME NEW w \in Workers, Arrive(w) \/ CreateStep(w) \/ BackupStep(w)
      PROVE  UNCHANGED keys
  BY <1>3 DEF Arrive, BeginCreate, BeginSystem, BeginPatch, BeginKeyRequest, BeginBackup, Begin,
      BackupStep, BackupMkdir, BackupVacuum, CreateStep, AddProject, MkdirProject, CreateBlankDatabase, MkdirMigrations,
      Activate, RollbackDir, RollbackRow
<1>4. ASSUME NEW w \in Workers, StateStep(w) PROVE keys'[k] = keys[k]
  BY <1>4 DEF StateStep, RemoveRead, RemoveWrite, PatchRename, PatchRead, PatchWrite,
      WipeRead, WipeRevoke, WipeRemoveAll, WipeWrite, ReadState, WriteState, RevokesKey, Active
<1>5. ASSUME NEW w \in Workers, KeyStep(w)
      PROVE  keys'[k] = keys[k] \/ (keys'[k].role \in IssuableRoles /\ keys'[k].project \in Projects)
  <2>1. wk[w].project \in Projects
    BY <1>5 DEF ActorsAuthorised, KeyStep, InsertKey, RevokeKey, At
  <2>. QED
    BY <1>5, <2>1 DEF KeyStep, InsertKey, RevokeKey, InsertKeyRow, FreeKeys, RevokesKey,
       Active, TypeOK
<1>. QED
  BY <1>1, <1>2, <1>3, <1>4, <1>5, LifecycleAssumption DEF Next, IssuableRoles

LEMMA ActorsStep ==
  ASSUME TypeOK, ActorsAuthorised, Next
  PROVE  ActorsAuthorised'
<1>. SUFFICES ASSUME NEW v \in Workers, wk'[v].pc # "idle"
              PROVE  /\ wk'[v].key \in Keys
                     /\ wk'[v].project \in Projects
                     /\ keys'[wk'[v].key].status # "free"
                     /\ keys'[wk'[v].key].project \in {wk'[v].project, NoProject}
                     /\ wk'[v].pc \in CreatePCs \cup SystemPCs =>
                          /\ keys'[wk'[v].key].project = NoProject
                          /\ keys'[wk'[v].key].role = "system"
                     /\ wk'[v].pc \in BackupPCs =>
                          keys'[wk'[v].key].project = wk'[v].project
  BY DEF ActorsAuthorised, IsSystemKey
<1>1. CASE wk'[v] = wk[v]
  BY <1>1, KeysOnlyGrow DEF ActorsAuthorised, IsSystemKey
<1>2. CASE Start
  BY <1>1, <1>2 DEF Start
<1>3. CASE Crash
  BY <1>3 DEF Crash, Idle
<1>4. CASE Moves(v)
  <2>1. /\ wk[v].pc # "idle"
        /\ wk'[v].key = wk[v].key
        /\ wk'[v].project = wk[v].project
        /\ wk'[v].pc \in CreatePCs \cup SystemPCs => wk[v].pc \in CreatePCs \cup SystemPCs
        /\ wk'[v].pc \in BackupPCs => wk[v].pc \in BackupPCs
    BY <1>4, SelfMoves DEF Idle
  <2>. QED
    BY <2>1, KeysOnlyGrow DEF ActorsAuthorised, IsSystemKey
<1>5. CASE Arrive(v)
  <2>1. PICK k \in Keys, p \in Projects :
          BeginCreate(v, k, p) \/ BeginSystem(v, k, p) \/ BeginPatch(v, k, p)
            \/ BeginKeyRequest(v, k, p) \/ BeginBackup(v, k, p)
    BY <1>5 DEF Arrive
  <2>2. /\ wk'[v].key = k /\ wk'[v].project = p
        /\ keys[k].status = "active" /\ UNCHANGED keys
    BY <2>1 DEF BeginCreate, BeginSystem, BeginPatch, BeginKeyRequest, BeginBackup, Begin, Active, Idle,
       TypeOK, Handlers
  <2>3. keys[k].project \in {p, NoProject}
    BY <2>1 DEF BeginCreate, BeginSystem, BeginPatch, BeginKeyRequest, BeginBackup, IsSystemKey,
       ProjectAccess
  <2>4. \/ IsSystemKey(k) /\ wk'[v].pc \notin BackupPCs
        \/ wk'[v].pc \in {"PatchRename", "PatchRead", "InsertKey", "RevokeKey"}
        \/ wk'[v].pc = "BackupMkdir" /\ keys[k].project = p
    <3>1. CASE BeginCreate(v, k, p)
      BY <3>1 DEF BeginCreate, Begin, Idle, TypeOK, BackupPCs
    <3>2. CASE BeginSystem(v, k, p)
      BY <3>2 DEF BeginSystem, Begin, Idle, TypeOK, BackupPCs
    <3>3. CASE BeginPatch(v, k, p)
      <4>1. PICK pc \in {"PatchRename", "PatchRead"} : Begin(v, k, p, pc)
        BY <3>3 DEF BeginPatch
      <4>. QED BY <4>1 DEF Begin, Idle, TypeOK
    <3>4. CASE BeginKeyRequest(v, k, p)
      <4>1. PICK pc \in {"InsertKey", "RevokeKey"} : Begin(v, k, p, pc)
        BY <3>4 DEF BeginKeyRequest
      <4>. QED BY <4>1 DEF Begin, Idle, TypeOK
    <3>5. CASE BeginBackup(v, k, p)
      BY <3>5 DEF BeginBackup, Begin, Idle, TypeOK
    <3>. QED BY <2>1, <3>1, <3>2, <3>3, <3>4, <3>5
  <2>5. wk'[v].pc \in CreatePCs \cup SystemPCs => IsSystemKey(k)
    BY <2>4 DEF CreatePCs, SystemPCs
  <2>6. wk'[v].pc \in BackupPCs => keys[k].project = p
    BY <2>4 DEF BackupPCs
  <2>. QED
    BY <2>2, <2>3, <2>5, <2>6 DEF IsSystemKey
<1>. QED
  BY <1>1, <1>2, <1>3, <1>4, <1>5, OthersUnchanged DEF Next, Moves

LEMMA TargetsStep ==
  ASSUME TypeOK, TargetsAllowed, Next
  PROVE  TargetsAllowed'
<1>. DEFINE Allowed(h) ==
       /\ h.pc = "PatchWrite" => h.to \in PatchTargets
       /\ h.pc = "RemoveWrite" => h.to = "deleted"
       /\ h.pc \in {"WipeRevoke", "WipeRemoveAll", "WipeWrite"} => h.to = "wiped"
       /\ h.pc \in {"PatchWrite", "RemoveWrite", "WipeRevoke", "WipeRemoveAll", "WipeWrite"}
            => CanTransitionTo(h.seen, h.to)
<1>. SUFFICES ASSUME NEW v \in Workers PROVE Allowed(wk'[v])
  BY DEF TargetsAllowed
<1>0. Allowed(wk[v])
  BY DEF TargetsAllowed
<1>1. CASE wk'[v] = wk[v]
  BY <1>0, <1>1
<1>2. CASE wk'[v] = Idle
  BY <1>2 DEF Idle
<1>3. CASE Start \/ Crash
  BY <1>0, <1>2, <1>3 DEF Start, Crash
<1>4. CASE Arrive(v)
  <2>1. PICK k \in Keys, p \in Projects,
             pc \in {"AddProject", "RemoveRead", "WipeRead", "PatchRename", "PatchRead",
                    "InsertKey", "RevokeKey", "BackupMkdir"} : Begin(v, k, p, pc)
    BY <1>4 DEF Arrive, BeginCreate, BeginSystem, BeginPatch, BeginKeyRequest, BeginBackup
  <2>2. wk'[v].pc = pc
    BY <2>1 DEF Begin, Idle, TypeOK
  <2>. QED
    BY <2>2
<1>5. CASE CreateStep(v)
  BY <1>5, <1>2 DEF CreateStep, AddProject, MkdirProject, CreateBlankDatabase,
     MkdirMigrations, Activate, RollbackDir, RollbackRow, FailCreate, Goto, Respond, TypeOK,
     Handlers
<1>6. CASE KeyStep(v) \/ BackupStep(v)
  BY <1>6, <1>2 DEF KeyStep, InsertKey, RevokeKey, BackupStep, BackupMkdir, BackupVacuum,
     Goto, Respond, TypeOK, Handlers
<1>7. CASE StateStep(v)
  <2>1. CASE RemoveRead(v) \/ WipeRead(v) \/ PatchRead(v)
    <3>1. PICK from, next, to :
            /\ ReadState(v, from, to, next)
            /\ \/ next = "RemoveWrite" /\ to = "deleted"
               \/ next = "WipeRevoke" /\ to = "wiped"
               \/ next = "PatchWrite" /\ to \in PatchTargets
      BY <2>1 DEF RemoveRead, WipeRead, PatchRead
    <3>2. \/ wk'[v] = Idle
          \/ wk'[v].pc = next /\ wk'[v].to = to /\ CanTransitionTo(wk'[v].seen, to)
      BY <3>1 DEF ReadState, Respond, TypeOK, Handlers
    <3>. QED
      BY <3>1, <3>2, <1>2
  <2>2. CASE RemoveWrite(v) \/ WipeWrite(v) \/ PatchWrite(v)
    BY <2>2, <1>2 DEF RemoveWrite, WipeWrite, PatchWrite, WriteState, Respond, TypeOK
  <2>3. CASE PatchRename(v)
    BY <2>3, <1>2 DEF PatchRename, Respond, Goto, TypeOK, Handlers
  <2>4. CASE WipeRevoke(v) \/ WipeRemoveAll(v)
    BY <2>4, <1>0, <1>2 DEF WipeRevoke, WipeRemoveAll, Respond, Goto, At, TypeOK, Handlers
  <2>. QED
    BY <1>7, <2>1, <2>2, <2>3, <2>4 DEF StateStep
<1>. QED
  BY <1>1, <1>3, <1>4, <1>5, <1>6, <1>7, OthersUnchanged DEF Next, Moves

\* No statement revokes a key that has no project.
LEMMA SystemKeyStep ==
  ASSUME TypeOK, SystemRoleHasNoProject, SystemKeyActive, ActorsAuthorised, Next
  PROVE  SystemKeyActive'
<1>1. CASE Start
  <2>1. CASE ActiveSystemKeys # {}
    <3>1. PICK k \in Keys : Active(k) /\ keys[k].project = NoProject
      BY <2>1 DEF ActiveSystemKeys
    <3>2. IsSystemKey(k)
      BY <3>1 DEF Active, IsSystemKey, SystemRoleHasNoProject
    <3>. QED
      BY <1>1, <2>1, <3>1, <3>2 DEF Start, SystemKeyActive, Active, IsSystemKey
  <2>2. CASE ActiveSystemKeys = {}
    BY <1>1, <2>2 DEF Start, InsertKeyRow, SystemKeyActive, Active, IsSystemKey, TypeOK
  <2>. QED BY <2>1, <2>2
<1>2. CASE Crash
  BY <1>2 DEF Crash, SystemKeyActive
<1>3. ASSUME NEW w \in Workers, Arrive(w) \/ CreateStep(w) \/ BackupStep(w)
      PROVE  UNCHANGED <<keys, up>>
  BY <1>3 DEF Arrive, BeginCreate, BeginSystem, BeginPatch, BeginKeyRequest, BeginBackup, Begin,
      BackupStep, BackupMkdir, BackupVacuum,
      CreateStep, AddProject, MkdirProject, CreateBlankDatabase, MkdirMigrations,
      Activate, RollbackDir, RollbackRow
<1>4. ASSUME NEW w \in Workers, StateStep(w) \/ KeyStep(w),
             NEW k \in Keys, Active(k), keys[k].project = NoProject
      PROVE  keys'[k] = keys[k] /\ up' = up
  <2>1. wk[w].project \in Projects
    BY <1>4, SelfMoves DEF ActorsAuthorised, Moves
  <2>. QED
    BY <1>4, <2>1, LifecycleAssumption DEF StateStep, RemoveRead, RemoveWrite, PatchRename,
      PatchRead, PatchWrite, WipeRead, WipeRevoke, WipeRemoveAll, WipeWrite, ReadState,
      WriteState, KeyStep, InsertKey, RevokeKey, InsertKeyRow, FreeKeys, RevokesKey, Active,
      TypeOK
<1>5. ASSUME NEW w \in Workers, StateStep(w) \/ KeyStep(w) PROVE SystemKeyActive'
  <2>1. up' = up
    BY <1>5 DEF StateStep, RemoveRead, RemoveWrite, PatchRename,
      PatchRead, PatchWrite, WipeRead, WipeRevoke, WipeRemoveAll, WipeWrite, ReadState,
      WriteState, KeyStep, InsertKey, RevokeKey
  <2>. QED
    BY <1>4, <1>5, <2>1 DEF SystemKeyActive, IsSystemKey, Active
<1>. QED
  BY <1>1, <1>2, <1>3, <1>5 DEF Next, SystemKeyActive, Active, IsSystemKey

LEMMA KeyInvInvariant == Spec => []KeyInv
<1>1. Init => KeyInv
  <2>. SUFFICES ASSUME Init PROVE KeyInv
    OBVIOUS
  <2>1. TypeOK
    BY TypeInit
  <2>. QED
    BY <2>1 DEF Init, KeyInv, SystemRoleHasNoProject, SystemKeyActive, ActorsAuthorised,
       TargetsAllowed, Idle
<1>2. KeyInv /\ [Next]_vars => KeyInv'
  <2>. SUFFICES ASSUME KeyInv, [Next]_vars PROVE KeyInv'
    OBVIOUS
  <2>1. CASE Next
    BY <2>1, TypeStep, KeyRoleStep, ActorsStep, TargetsStep, SystemKeyStep DEF KeyInv
  <2>2. CASE UNCHANGED vars
    BY <2>2 DEF vars, history, KeyInv, TypeOK, SystemRoleHasNoProject, SystemKeyActive,
       ActorsAuthorised, TargetsAllowed, Active, IsSystemKey
  <2>. QED BY <2>1, <2>2
<1>. QED
  BY <1>1, <1>2, PTL DEF Spec

(* The fleet never loses its last system key.                              *)
THEOREM SystemKeyAlwaysActive == Spec => []SystemKeyActive
<1>1. KeyInv => SystemKeyActive
  BY DEF KeyInv
<1>. QED
  BY <1>1, KeyInvInvariant, PTL

(* No project key ever has the system role, and no other key lacks a       *)
(* project.                                                                *)
THEOREM SystemRoleHasNoProjectAlways == Spec => []SystemRoleHasNoProject
<1>1. KeyInv => SystemRoleHasNoProject
  BY DEF KeyInv
<1>. QED
  BY <1>1, KeyInvInvariant, PTL

\* A handler acts on its own project, and a step that changes neither the
\* row, the directory nor a key of a project does not touch it.
LEMMA OnlyOwnProject ==
  ASSUME KeyInv, Next, NEW p \in Projects, Touches(p)
  PROVE  \E w \in Workers : Moves(w) /\ Acts(w, p)
<1>. USE DEF KeyInv
<1>1. ~Start /\ ~Crash
  BY LifecycleAssumption DEF Start, Crash, Touches, InsertKeyRow, TypeOK
<1>2. PICK w \in Workers : Moves(w)
  <2>1. ASSUME NEW w \in Workers, Arrive(w) PROVE FALSE
    BY <2>1 DEF Arrive, BeginCreate, BeginSystem, BeginPatch, BeginKeyRequest, BeginBackup, Begin, Touches
  <2>. QED BY <1>1, <2>1 DEF Next, Moves
<1>3. wk'[w] # wk[w]
  <2>1. CASE CreateStep(w)
    BY <2>1 DEF CreateStep, AddProject, MkdirProject, CreateBlankDatabase, MkdirMigrations,
      Activate, RollbackDir, RollbackRow, FailCreate, Goto, Respond, Idle, At, TypeOK, Handlers
  <2>2. CASE StateStep(w)
    BY <2>2 DEF StateStep, RemoveRead, RemoveWrite, PatchRename, PatchRead, PatchWrite,
      WipeRead, WipeRevoke, WipeRemoveAll, WipeWrite, ReadState, WriteState, Goto, Respond,
      At, Idle, TypeOK, Handlers, Touches
  <2>3. CASE KeyStep(w) \/ BackupStep(w)
    BY <2>3 DEF KeyStep, InsertKey, RevokeKey, BackupStep, BackupMkdir, BackupVacuum, Goto,
      Respond, At, Idle, TypeOK, Handlers
  <2>. QED BY <1>2, <2>1, <2>2, <2>3 DEF Moves
<1>4. wk[w].project \in Projects
  BY <1>2, SelfMoves DEF ActorsAuthorised
<1>5. wk[w].project = p
  <2>1. CASE CreateStep(w)
    BY <2>1, <1>4 DEF CreateStep, AddProject, MkdirProject, CreateBlankDatabase,
      MkdirMigrations, Activate, RollbackDir, RollbackRow, FailCreate, TypeOK, Touches
  <2>2. CASE StateStep(w)
    <3>1. CASE WipeRevoke(w)
      BY <3>1, <1>4 DEF WipeRevoke, RevokesKey, Touches, TypeOK, KeyRows
    <3>2. CASE ~WipeRevoke(w)
      BY <2>2, <3>2, <1>4 DEF StateStep, RemoveRead, RemoveWrite, PatchRename, PatchRead,
        PatchWrite, WipeRead, WipeRemoveAll, WipeWrite, ReadState, WriteState, TypeOK,
        Touches
    <3>. QED BY <3>1, <3>2
  <2>3. CASE InsertKey(w)
    BY <2>3, <1>4 DEF InsertKey, InsertKeyRow, FreeKeys, Touches, TypeOK, KeyRows
  <2>4. CASE RevokeKey(w)
    BY <2>4, <1>4 DEF RevokeKey, RevokesKey, Touches, TypeOK, KeyRows
  <2>5. CASE BackupStep(w)
    BY <2>5, <1>4 DEF BackupStep, BackupMkdir, BackupVacuum, Touches, TypeOK
  <2>. QED BY <1>2, <2>1, <2>2, <2>3, <2>4, <2>5 DEF Moves, KeyStep
<1>. QED
  BY <1>2, <1>3, <1>5 DEF Acts

(* A project key reaches nothing outside its own project.                  *)
THEOREM OwnProjectOnlyAlways == Spec => OwnProjectOnly
<1>1. KeyInv /\ [Next]_vars => [OwnProjectStep]_vars
  <2>. SUFFICES ASSUME KeyInv, Next, NEW p \in Projects, Touches(p)
                PROVE  \E w \in Workers : Acts(w, p) /\ keys[wk[w].key].project \in {p, NoProject}
    BY DEF OwnProjectStep
  <2>1. PICK w \in Workers : Moves(w) /\ Acts(w, p)
    BY OnlyOwnProject
  <2>2. wk[w].pc # "idle"
    BY <2>1, SelfMoves DEF KeyInv
  <2>. QED
    BY <2>1, <2>2 DEF KeyInv, ActorsAuthorised, Acts
<1>. QED
  BY <1>1, KeyInvInvariant, PTL DEF Spec, OwnProjectOnly

(* Only DELETE and wipe, called with a system key, delete or wipe.         *)
THEOREM DeletionBySystemKeyAlways == Spec => DeletionBySystemKey
<1>1. KeyInv /\ [Next]_vars => [DeletionStep]_vars
  <2>. SUFFICES ASSUME KeyInv, Next, NEW p \in Projects, rows'[p] # rows[p],
                       rows'[p] \in {"deleting", "deleted", "wiped"}
                PROVE  /\ rows'[p] # "deleting"
                       /\ \E w \in Workers :
                            /\ Acts(w, p)
                            /\ wk[w].pc \in {"RemoveWrite", "WipeWrite"}
                            /\ IsSystemKey(wk[w].key)
    BY DEF DeletionStep
  <2>1. PICK w \in Workers : Moves(w) /\ Acts(w, p)
    BY OnlyOwnProject DEF Touches
  <2>2. ~CreateStep(w) /\ ~KeyStep(w) /\ ~BackupStep(w)
    BY DEF KeyInv, CreateStep, AddProject, MkdirProject, CreateBlankDatabase,
      MkdirMigrations, Activate, RollbackDir, RollbackRow, FailCreate, KeyStep, InsertKey,
      RevokeKey, BackupStep, BackupMkdir, BackupVacuum, TypeOK
  <2>3. RemoveWrite(w) \/ PatchWrite(w) \/ WipeWrite(w)
    BY <2>1, <2>2 DEF Moves, StateStep, RemoveRead, PatchRename, PatchRead, WipeRead,
      WipeRevoke, WipeRemoveAll, ReadState
  <2>4. rows'[p] = wk[w].to /\ wk[w].project = p
    BY <2>1, <2>3 DEF RemoveWrite, PatchWrite, WipeWrite, WriteState, KeyInv, TypeOK, Acts
  <2>5. ~PatchWrite(w)
    BY <2>4 DEF PatchWrite, WriteState, At, KeyInv, TargetsAllowed, PatchTargets
  <2>6. \/ wk[w].pc = "RemoveWrite" /\ wk[w].to = "deleted"
        \/ wk[w].pc = "WipeWrite" /\ wk[w].to = "wiped"
    BY <2>3, <2>5 DEF RemoveWrite, WipeWrite, WriteState, At, KeyInv, TargetsAllowed
  <2>. QED
    BY <2>1, <2>4, <2>6 DEF KeyInv, ActorsAuthorised, SystemPCs
<1>. QED
  BY <1>1, KeyInvInvariant, PTL DEF Spec, DeletionBySystemKey

(* The foreign key of api_keys holds even when two creations share an id:  *)
(* a key is inserted only under an existing row, and the rollback deletes  *)
(* a row only when no key refers to it.                                    *)
THEOREM KeysReferToRowsAlways == Spec => []KeysReferToRows
<1>1. Init => KeysReferToRows
  BY DEF Init, KeysReferToRows
<1>2. KeyInv /\ KeysReferToRows /\ [Next]_vars => KeysReferToRows'
  <2>. SUFFICES ASSUME KeyInv, KeysReferToRows, Next PROVE KeysReferToRows'
    BY DEF vars, KeysReferToRows
  <2>. SUFFICES ASSUME NEW k \in Keys, keys'[k].status # "free", keys'[k].project \in Projects
                PROVE  rows'[keys'[k].project] # "none"
    BY DEF KeysReferToRows
  <2>. DEFINE q == keys'[k].project
  <2>. USE DEF KeyInv
  <2>1. CASE Start
    BY <2>1, LifecycleAssumption DEF Start, InsertKeyRow, KeysReferToRows, TypeOK
  <2>2. CASE Crash
    BY <2>2 DEF Crash, KeysReferToRows
  <2>3. ASSUME NEW w \in Workers, Arrive(w) \/ BackupStep(w) PROVE UNCHANGED <<rows, keys>>
    BY <2>3 DEF Arrive, BeginCreate, BeginSystem, BeginPatch, BeginKeyRequest, BeginBackup, Begin,
      BackupStep, BackupMkdir, BackupVacuum
  <2>4. ASSUME NEW w \in Workers, CreateStep(w) PROVE rows'[q] # "none"
    <3>1. UNCHANGED keys
      BY <2>4 DEF CreateStep, AddProject, MkdirProject, CreateBlankDatabase, MkdirMigrations,
        Activate, RollbackDir, RollbackRow
    <3>2. rows[q] # "none" /\ Referenced(q)
      BY <3>1 DEF KeysReferToRows, Referenced
    <3>3. CASE RollbackRow(w)
      BY <3>2, <3>3 DEF RollbackRow, TypeOK
    <3>4. CASE ~RollbackRow(w)
      BY <2>4, <3>2, <3>4 DEF CreateStep, AddProject, MkdirProject, CreateBlankDatabase,
        MkdirMigrations, Activate, RollbackDir, FailCreate, TypeOK
    <3>. QED BY <3>3, <3>4
  <2>5. ASSUME NEW w \in Workers, StateStep(w) PROVE rows'[q] # "none"
    <3>1. q = keys[k].project /\ keys[k].status # "free"
      BY <2>5 DEF StateStep, RemoveRead, RemoveWrite, PatchRename, PatchRead, PatchWrite,
        WipeRead, WipeRevoke, WipeRemoveAll, WipeWrite, ReadState, WriteState, RevokesKey,
        Active, TypeOK, KeyRows
    <3>2. rows[q] # "none"
      BY <3>1 DEF KeysReferToRows
    <3>3. ASSUME RemoveWrite(w) \/ PatchWrite(w) \/ WipeWrite(w) PROVE wk[w].to # "none"
      BY <3>3 DEF RemoveWrite, PatchWrite, WipeWrite, WriteState, At, TargetsAllowed,
         PatchTargets, ProjectStates
    <3>. QED
      BY <2>5, <3>2, <3>3 DEF StateStep, RemoveRead, RemoveWrite, PatchRename, PatchRead,
        PatchWrite, WipeRead, WipeRevoke, WipeRemoveAll, WipeWrite, ReadState, WriteState,
        TypeOK
  <2>6. ASSUME NEW w \in Workers, KeyStep(w) PROVE rows'[q] # "none"
    <3>1. CASE InsertKey(w)
      BY <3>1 DEF InsertKey, InsertKeyRow, KeysReferToRows, TypeOK
    <3>2. CASE RevokeKey(w)
      BY <3>2 DEF RevokeKey, RevokesKey, Active, KeysReferToRows, TypeOK, KeyRows
    <3>. QED BY <2>6, <3>1, <3>2 DEF KeyStep
  <2>. QED
    BY <2>1, <2>2, <2>3, <2>4, <2>5, <2>6 DEF Next, KeysReferToRows
<1>. QED
  BY <1>1, <1>2, KeyInvInvariant, PTL DEF Spec

-----------------------------------------------------------------------------
(* Creations, when no two of them have the same id.                        *)

\* Two creations have one id only if they read the same nanosecond, which
\* clients that wait for their answers do not make happen.
Untied == ~ClockTies \/ contended = {}

\* A creation has its project to itself: no other handler works on the id,
\* the row goes from none to "creating", and the directory fills up.
CreatorAlone ==
  \A v, w \in Workers :
    wk[w].pc \in CreatePCs /\ wk[v].pc # "idle" /\ wk[v].project = wk[w].project => v = w

CreatorProgress ==
  \A w \in Workers :
    LET p == wk[w].project IN
    /\ wk[w].pc = "AddProject" => rows[p] = "none" /\ disk[p] = {}
    /\ wk[w].pc \in {"MkdirProject", "CreateBlankDatabase", "MkdirMigrations", "Activate"}
         => rows[p] = "creating"
    /\ wk[w].pc \in {"RollbackDir", "RollbackRow"} => rows[p] \in {"none", "creating"}
    /\ wk[w].pc = "CreateBlankDatabase" => "dir" \in disk[p]
    /\ wk[w].pc = "MkdirMigrations" => {"dir", "database.db"} \subseteq disk[p]
    /\ wk[w].pc = "Activate" => Made \subseteq disk[p]

\* No key refers to a project that is being created: its row can be removed.
CreatedIsUnreferenced ==
  \A w \in Workers : wk[w].pc \in CreatePCs => ~Referenced(wk[w].project)

\* Whatever is left of a directory, it is in the directory.
DirFirst == \A p \in Projects : disk[p] = {} \/ "dir" \in disk[p]

\* A directory that a backup made again belongs to a project with keys, which
\* is not created anew, and so stays without what only Create makes.
RecreatedIsBlank ==
  \A p \in recreated : Referenced(p) /\ "migrations" \notin disk[p]

\* Between the removal of the directory and the last write only a backup
\* brings anything back, and after it.
WipeRemoved ==
  \A w \in Workers : wk[w].pc = "WipeWrite" =>
    disk[wk[w].project] = {} \/ wk[w].project \in recreated

WipedIsRemoved == \A p \in Projects : rows[p] = "wiped" => disk[p] = {} \/ p \in recreated

CreateInv ==
  /\ KeyInv /\ KeysReferToRows
  /\ CreatorAlone /\ CreatorProgress /\ CreatedIsUnreferenced
  /\ DirFirst /\ RecreatedIsBlank /\ WipeRemoved /\ WipedIsRemoved

\* Arrivals leave the tables and the disk alone.
LEMMA ArriveFrame ==
  ASSUME NEW w \in Workers, Arrive(w)
  PROVE  UNCHANGED <<rows, disk, keys, recreated>>
  BY DEF Arrive, BeginCreate, BeginSystem, BeginPatch, BeginKeyRequest, BeginBackup, Begin

\* What a request that has just arrived looks like.
LEMMA ArriveShape ==
  ASSUME TypeOK, Untied', NEW w \in Workers, Arrive(w)
  PROVE  /\ wk[w].pc = "idle"
         /\ \/ /\ wk'[w].pc = "AddProject"
               /\ rows[wk'[w].project] = "none"
               /\ disk[wk'[w].project] = {}
               /\ \A v \in Workers : wk[v].project # wk'[w].project
            \/ /\ wk'[w].pc \in {"RemoveRead", "WipeRead", "PatchRename", "PatchRead",
                                 "InsertKey", "RevokeKey", "BackupMkdir"}
               /\ Addressable(wk'[w].project)
<1>1. PICK k \in Keys, p \in Projects :
        BeginCreate(w, k, p) \/ BeginSystem(w, k, p) \/ BeginPatch(w, k, p)
          \/ BeginKeyRequest(w, k, p) \/ BeginBackup(w, k, p)
  BY DEF Arrive
<1>2. CASE BeginCreate(w, k, p)
  <2>1. /\ wk[w].pc = "idle" /\ wk'[w].pc = "AddProject" /\ wk'[w].project = p
        /\ FreshSeed(p) \/ TiedSeed(p)
    BY <1>2 DEF BeginCreate, Begin, Idle, TypeOK, Handlers
  <2>2. ~TiedSeed(p)
    BY <1>2 DEF TiedSeed, BeginCreate, Begin, Untied
  <2>. QED
    BY <2>1, <2>2 DEF FreshSeed
<1>3. CASE ~BeginCreate(w, k, p)
  <2>1. Addressable(p)
    BY <1>1, <1>3 DEF BeginSystem, BeginPatch, BeginKeyRequest, BeginBackup
  <2>2. PICK pc \in {"RemoveRead", "WipeRead", "PatchRename", "PatchRead", "InsertKey",
                    "RevokeKey", "BackupMkdir"} : Begin(w, k, p, pc)
    BY <1>1, <1>3 DEF BeginSystem, BeginPatch, BeginKeyRequest, BeginBackup
  <2>3. wk[w].pc = "idle" /\ wk'[w].pc = pc /\ wk'[w].project = p
    BY <2>2 DEF Begin, Idle, TypeOK
  <2>. QED BY <2>1, <2>3
<1>. QED BY <1>2, <1>3

LEMMA CreatorAloneStep ==
  ASSUME CreateInv, Untied', Next
  PROVE  CreatorAlone'
<1>. USE DEF CreateInv, KeyInv
<1>. SUFFICES ASSUME NEW v \in Workers, NEW w \in Workers, v # w,
                     wk'[w].pc \in CreatePCs, wk'[v].pc # "idle",
                     wk'[v].project = wk'[w].project
              PROVE  FALSE
  BY DEF CreatorAlone
<1>1. CASE Start \/ UNCHANGED wk
  BY <1>1 DEF Start, CreatorAlone
<1>2. CASE Crash
  BY <1>2 DEF Crash, Idle
<1>3. ASSUME NEW u \in Workers, Moves(u) PROVE FALSE
  <2>1. wk[w].pc \in CreatePCs /\ wk[w].project = wk'[w].project
    BY <1>3, SelfMoves, OthersUnchanged DEF Idle, CreatePCs
  <2>2. wk[v].pc # "idle" /\ wk[v].project = wk'[v].project
    BY <1>3, SelfMoves, OthersUnchanged DEF Idle
  <2>. QED BY <2>1, <2>2 DEF CreatorAlone
<1>4. ASSUME NEW u \in Workers, Arrive(u) PROVE FALSE
  <2>1. CASE u = w
    <3>1. wk'[v] = wk[v]
      BY <1>4, <2>1, OthersUnchanged
    <3>2. wk[v].project # wk'[w].project
      BY <1>4, <2>1, ArriveShape DEF CreatePCs
    <3>. QED BY <3>1, <3>2
  <2>2. CASE u = v
    <3>1. wk'[w] = wk[w]
      BY <1>4, <2>2, OthersUnchanged
    <3>2. Creating(wk'[v].project) /\ rows[wk[w].project] \in {"none", "creating"}
      BY <3>1 DEF Creating, CreatorProgress, CreatePCs
    <3>. QED BY <1>4, <2>2, <3>1, <3>2, ArriveShape DEF Addressable
  <2>3. CASE u # v /\ u # w
    BY <1>4, <2>3, OthersUnchanged DEF CreatorAlone
  <2>. QED BY <2>1, <2>2, <2>3
<1>. QED
  BY <1>1, <1>2, <1>3, <1>4 DEF Next, Moves

\* Only the creator of a project changes its row while it creates it.
LEMMA CreatorUndisturbed ==
  ASSUME CreateInv, NEW w \in Workers, wk[w].pc \in CreatePCs, NEW u \in Workers, u # w,
         Moves(u)
  PROVE  /\ wk'[w] = wk[w]
         /\ rows'[wk[w].project] = rows[wk[w].project]
         /\ disk'[wk[w].project] = disk[wk[w].project]
<1>. USE DEF CreateInv, KeyInv
<1>1. wk'[w] = wk[w]
  BY OthersUnchanged
<1>2. wk[u].project # wk[w].project
  BY SelfMoves DEF CreatorAlone
<1>. DEFINE p == wk[w].project  q == wk[u].project
<1>6. p \in Projects /\ q \in Projects
  BY SelfMoves DEF ActorsAuthorised, CreatePCs
<1>3. CASE CreateStep(u)
  <2>1. /\ \/ rows' = rows
           \/ \E s : rows' = [rows EXCEPT ![q] = s]
        /\ \/ disk' = disk
           \/ \E s : disk' = [disk EXCEPT ![q] = s]
    BY <1>3 DEF CreateStep, AddProject, MkdirProject, CreateBlankDatabase,
       MkdirMigrations, Activate, RollbackDir, RollbackRow, FailCreate
  <2>. QED BY <1>1, <1>2, <1>6, <2>1 DEF TypeOK
<1>4. CASE StateStep(u)
  <2>1. /\ \/ rows' = rows
           \/ \E s : rows' = [rows EXCEPT ![q] = s]
        /\ \/ disk' = disk
           \/ \E s : disk' = [disk EXCEPT ![q] = s]
    BY <1>4 DEF StateStep, RemoveRead, RemoveWrite, PatchRename, PatchRead,
       PatchWrite, WipeRead, WipeRevoke, WipeRemoveAll, WipeWrite, ReadState, WriteState
  <2>. QED BY <1>1, <1>2, <1>6, <2>1 DEF TypeOK
<1>5. CASE KeyStep(u)
  BY <1>1, <1>5 DEF KeyStep, InsertKey, RevokeKey
<1>7. CASE BackupStep(u)
  <2>1. rows' = rows /\ (disk' = disk \/ \E s : disk' = [disk EXCEPT ![q] = s])
    BY <1>7 DEF BackupStep, BackupMkdir, BackupVacuum
  <2>. QED BY <1>1, <1>2, <1>6, <2>1 DEF TypeOK
<1>. QED BY <1>3, <1>4, <1>5, <1>7 DEF Moves

LEMMA CreatorProgressStep ==
  ASSUME CreateInv, Untied', Next
  PROVE  CreatorProgress'
<1>. USE DEF CreateInv, KeyInv
<1>. DEFINE Progress(h, r, d) ==
       /\ h.pc = "AddProject" => r = "none" /\ d = {}
       /\ h.pc \in {"MkdirProject", "CreateBlankDatabase", "MkdirMigrations", "Activate"}
            => r = "creating"
       /\ h.pc \in {"RollbackDir", "RollbackRow"} => r \in {"none", "creating"}
       /\ h.pc = "CreateBlankDatabase" => "dir" \in d
       /\ h.pc = "MkdirMigrations" => {"dir", "database.db"} \subseteq d
       /\ h.pc = "Activate" => Made \subseteq d
<1>. SUFFICES ASSUME NEW w \in Workers, wk'[w].pc \in CreatePCs
              PROVE  Progress(wk'[w], rows'[wk'[w].project], disk'[wk'[w].project])
  BY DEF CreatorProgress, CreatePCs
<1>0. Progress(wk[w], rows[wk[w].project], disk[wk[w].project])
  BY DEF CreatorProgress
<1>1. CASE Start
  BY <1>0, <1>1 DEF Start
<1>2. CASE Crash
  BY <1>2 DEF Crash, Idle, CreatePCs
<1>3. ASSUME NEW u \in Workers, Arrive(u)
      PROVE  Progress(wk'[w], rows'[wk'[w].project], disk'[wk'[w].project])
  <2>1. CASE u = w
    BY <1>3, <2>1, ArriveShape, ArriveFrame DEF CreatePCs
  <2>2. CASE u # w
    BY <1>0, <1>3, <2>2, OthersUnchanged, ArriveFrame
  <2>. QED BY <2>1, <2>2
<1>4. ASSUME NEW u \in Workers, u # w, Moves(u)
      PROVE  Progress(wk'[w], rows'[wk'[w].project], disk'[wk'[w].project])
  <2>1. wk'[w] = wk[w]
    BY <1>4, OthersUnchanged
  <2>. QED BY <1>0, <1>4, <2>1, CreatorUndisturbed
<1>5. ASSUME Moves(w)
      PROVE  Progress(wk'[w], rows'[wk'[w].project], disk'[wk'[w].project])
  <2>. DEFINE p == wk[w].project
  <2>0. p \in Projects
    BY <1>5, SelfMoves DEF ActorsAuthorised
  <2>1. CreateStep(w)
    <3>1. wk[w].pc \in CreatePCs
      BY <1>5, SelfMoves DEF Idle, CreatePCs
    <3>. QED
      BY <1>5, <3>1 DEF Moves, StateStep, RemoveRead, RemoveWrite, PatchRename, PatchRead,
        PatchWrite, WipeRead, WipeRevoke, WipeRemoveAll, WipeWrite, ReadState, WriteState,
        KeyStep, InsertKey, RevokeKey, BackupStep, BackupMkdir, BackupVacuum, At, CreatePCs
  <2>2. CASE AddProject(w)
    BY <1>0, <2>0, <2>2 DEF AddProject, FailCreate, Goto, At, TypeOK, Handlers
  <2>3. CASE MkdirProject(w)
    BY <1>0, <2>0, <2>3 DEF MkdirProject, FailCreate, Goto, At, TypeOK, Handlers
  <2>4. CASE CreateBlankDatabase(w)
    BY <1>0, <2>0, <2>4 DEF CreateBlankDatabase, FailCreate, Goto, At, TypeOK, Handlers
  <2>5. CASE MkdirMigrations(w)
    BY <1>0, <2>0, <2>5 DEF MkdirMigrations, FailCreate, Goto, At, TypeOK, Handlers, Made
  <2>6. CASE Activate(w)
    BY <1>0, <2>0, <2>6 DEF Activate, FailCreate, Goto, Respond, Idle, At, TypeOK, Handlers
  <2>7. CASE RollbackDir(w)
    BY <1>0, <2>0, <2>7 DEF RollbackDir, Goto, At, TypeOK, Handlers
  <2>8. CASE RollbackRow(w)
    BY <2>8 DEF RollbackRow, Respond, Idle, TypeOK, CreatePCs
  <2>. QED
    BY <2>1, <2>2, <2>3, <2>4, <2>5, <2>6, <2>7, <2>8 DEF CreateStep
<1>. QED
  BY <1>1, <1>2, <1>3, <1>4, <1>5 DEF Next, Moves

\* Only a creation, or a backup, puts anything on disk.
LEMMA DiskGrows ==
  ASSUME CreateInv, Next, NEW p \in Projects, disk[p] = {}, disk'[p] # {}
  PROVE  \/ \E u \in Workers : wk[u].pc \in CreatePCs /\ wk[u].project = p
         \/ p \in recreated'
<1>. USE DEF CreateInv, KeyInv
<1>1. PICK u \in Workers : Moves(u)
  BY ArriveFrame DEF Next, Moves, Start, Crash
<1>2. ~StateStep(u) /\ ~KeyStep(u)
  BY DEF StateStep, RemoveRead, RemoveWrite, PatchRename, PatchRead, PatchWrite, WipeRead,
    WipeRevoke, WipeRemoveAll, WipeWrite, ReadState, WriteState, KeyStep, InsertKey,
    RevokeKey, TypeOK
<1>3. CASE CreateStep(u)
  BY <1>3 DEF CreateStep, AddProject, MkdirProject, CreateBlankDatabase,
    MkdirMigrations, Activate, RollbackDir, RollbackRow, FailCreate, At, CreatePCs, TypeOK
<1>4. CASE BackupStep(u)
  BY <1>4 DEF BackupStep, BackupMkdir, BackupVacuum, TypeOK
<1>. QED BY <1>1, <1>2, <1>3, <1>4 DEF Moves

\* Two actions keep the books of what backups made again.
LEMMA RecreatedBy ==
  ASSUME Next, recreated' # recreated
  PROVE  \E u \in Workers : WipeRemoveAll(u) \/ BackupMkdir(u)
<1>1. ~Start /\ ~Crash
  BY DEF Start, Crash, history
<1>2. PICK u \in Workers : Moves(u)
  BY <1>1, ArriveFrame DEF Next, Moves
<1>3. ~CreateStep(u)
  BY DEF CreateStep, AddProject, MkdirProject, CreateBlankDatabase, MkdirMigrations,
    Activate, RollbackDir, RollbackRow, history
<1>4. ~KeyStep(u)
  BY DEF KeyStep, InsertKey, RevokeKey, history
<1>5. BackupStep(u) => BackupMkdir(u)
  BY DEF BackupStep, BackupVacuum, history
<1>6. StateStep(u) => WipeRemoveAll(u)
  BY DEF StateStep, RemoveRead, RemoveWrite, PatchRename, PatchRead, PatchWrite, WipeRead,
    WipeRevoke, WipeWrite, ReadState, WriteState, history
<1>. QED BY <1>2, <1>3, <1>4, <1>5, <1>6 DEF Moves

\* What a backup made again, a wipe removes.
LEMMA RecreatedGoes ==
  ASSUME CreateInv, Next, NEW p \in Projects, p \in recreated, p \notin recreated'
  PROVE  disk'[p] = {}
<1>. USE DEF CreateInv, KeyInv
<1>1. PICK u \in Workers : WipeRemoveAll(u) \/ BackupMkdir(u)
  BY RecreatedBy
<1>2. WipeRemoveAll(u)
  BY <1>1 DEF BackupMkdir
<1>. QED BY <1>2 DEF WipeRemoveAll, TypeOK

LEMMA UnreferencedStep ==
  ASSUME CreateInv, Untied', Next
  PROVE  CreatedIsUnreferenced'
<1>. USE DEF CreateInv, KeyInv
<1>. SUFFICES ASSUME NEW w \in Workers, wk'[w].pc \in CreatePCs,
                     NEW k \in Keys, keys'[k].status # "free",
                     keys'[k].project = wk'[w].project
              PROVE  FALSE
  BY DEF CreatedIsUnreferenced, Referenced
<1>. DEFINE p == wk'[w].project
<1>1. CASE Arrive(w)
  <2>1. rows[p] = "none" /\ UNCHANGED keys
    BY <1>1, ArriveShape, ArriveFrame DEF CreatePCs
  <2>2. p \in Projects
    <3>1. PICK k0 \in Keys, p0 \in Projects, pc \in PCs : Begin(w, k0, p0, pc)
      BY <1>1 DEF Arrive, BeginCreate, BeginSystem, BeginPatch, BeginKeyRequest, BeginBackup, PCs,
        CreatePCs, SystemPCs, BackupPCs
    <3>. QED BY <3>1 DEF Begin, TypeOK, Idle
  <2>. QED BY <2>1, <2>2 DEF KeysReferToRows
<1>2. CASE ~Arrive(w)
  <2>1. wk[w].pc \in CreatePCs /\ wk[w].project = p
    <3>1. CASE Moves(w)
      BY <3>1, SelfMoves DEF Idle, CreatePCs
    <3>2. CASE Start
      BY <3>2 DEF Start
    <3>3. CASE Crash
      BY <3>3 DEF Crash, Idle, CreatePCs
    <3>. QED
      BY <1>2, <3>1, <3>2, <3>3, OthersUnchanged DEF Next, Moves
  <2>2. p \in Projects /\ ~Referenced(p)
    BY <2>1 DEF CreatedIsUnreferenced, ActorsAuthorised, CreatePCs
  <2>3. keys'[k] # keys[k]
    BY <2>2 DEF Referenced
  <2>4. PICK u \in Workers : Moves(u) /\ Acts(u, p)
    BY <2>2, <2>3, OnlyOwnProject DEF Touches
  <2>5. u = w /\ CreateStep(w)
    <3>1. u = w
      BY <2>1, <2>4, SelfMoves DEF Acts, CreatorAlone
    <3>. QED
      BY <2>1, <2>4, <3>1 DEF Moves, StateStep, RemoveRead, RemoveWrite, PatchRename,
        PatchRead, PatchWrite, WipeRead, WipeRevoke, WipeRemoveAll, WipeWrite, ReadState,
        WriteState, KeyStep, InsertKey, RevokeKey, BackupStep, BackupMkdir, BackupVacuum, At,
        CreatePCs
  <2>. QED
    BY <2>3, <2>5 DEF CreateStep, AddProject, MkdirProject, CreateBlankDatabase,
      MkdirMigrations, Activate, RollbackDir, RollbackRow
<1>. QED BY <1>1, <1>2

LEMMA DirFirstStep ==
  ASSUME CreateInv, Next
  PROVE  DirFirst'
<1>. USE DEF CreateInv, KeyInv
<1>. SUFFICES ASSUME NEW p \in Projects, disk'[p] # disk[p]
              PROVE  disk'[p] = {} \/ "dir" \in disk'[p]
  BY DEF DirFirst
<1>1. PICK u \in Workers : Moves(u)
  BY ArriveFrame DEF Next, Moves, Start, Crash
<1>2. CASE CreateStep(u)
  <2>1. wk[u].pc = "CreateBlankDatabase" => "dir" \in disk[wk[u].project]
    BY DEF CreatorProgress
  <2>. QED
    BY <1>2, <2>1 DEF CreateStep, AddProject, MkdirProject, CreateBlankDatabase,
      MkdirMigrations, Activate, RollbackDir, RollbackRow, FailCreate, At, TypeOK
<1>3. CASE StateStep(u)
  BY <1>3 DEF StateStep, RemoveRead, RemoveWrite, PatchRename, PatchRead, PatchWrite, WipeRead,
    WipeRevoke, WipeRemoveAll, WipeWrite, ReadState, WriteState, TypeOK
<1>4. CASE BackupStep(u)
  BY <1>4 DEF BackupStep, BackupMkdir, BackupVacuum, TypeOK
<1>5. CASE KeyStep(u)
  BY <1>5 DEF KeyStep, InsertKey, RevokeKey
<1>. QED BY <1>1, <1>2, <1>3, <1>4, <1>5 DEF Moves

\* A row of api_keys stays, so what it refers to stays referred to.
LEMMA ReferencedStays ==
  ASSUME TypeOK, Next, NEW p \in Projects, Referenced(p)
  PROVE  Referenced(p)'
  BY KeysOnlyGrow DEF Referenced

LEMMA RecreatedIsBlankStep ==
  ASSUME CreateInv, Next
  PROVE  RecreatedIsBlank'
<1>. USE DEF CreateInv, KeyInv
<1>. SUFFICES ASSUME NEW p \in recreated'
              PROVE  Referenced(p)' /\ "migrations" \notin disk'[p]
  BY DEF RecreatedIsBlank
<1>0. p \in Projects
  BY TypeStep DEF TypeOK
<1>1. CASE p \notin recreated
  <2>1. PICK u \in Workers : BackupMkdir(u)
    BY <1>1, RecreatedBy DEF WipeRemoveAll
  <2>2. /\ p = wk[u].project /\ "dir" \notin disk[p]
        /\ disk' = [disk EXCEPT ![p] = @ \cup {"dir", "backups"}]
        /\ wk[u].pc = "BackupMkdir"
    BY <1>1, <2>1 DEF BackupMkdir, At
  <2>3. Referenced(p)
    BY <2>2 DEF ActorsAuthorised, BackupPCs, Referenced
  <2>4. "migrations" \notin disk'[p]
    BY <1>0, <2>2 DEF DirFirst, TypeOK
  <2>. QED BY <1>0, <2>3, <2>4, ReferencedStays
<1>2. CASE p \in recreated
  <2>1. Referenced(p) /\ "migrations" \notin disk[p]
    BY <1>2 DEF RecreatedIsBlank
  <2>2. ASSUME "migrations" \in disk'[p] PROVE FALSE
    <3>1. PICK u \in Workers : Moves(u)
      BY <2>1, <2>2, ArriveFrame DEF Next, Moves, Start, Crash
    <3>2. ~StateStep(u) /\ ~KeyStep(u)
      BY <1>0, <2>1, <2>2 DEF StateStep, RemoveRead, RemoveWrite, PatchRename, PatchRead,
        PatchWrite, WipeRead, WipeRevoke, WipeRemoveAll, WipeWrite, ReadState, WriteState,
        KeyStep, InsertKey, RevokeKey, TypeOK
    <3>3. ~BackupStep(u)
      BY <1>0, <2>1, <2>2 DEF BackupStep, BackupMkdir, BackupVacuum, TypeOK
    <3>4. wk[u].pc \in CreatePCs /\ wk[u].project = p
      BY <1>0, <2>1, <2>2, <3>1, <3>2, <3>3 DEF Moves, CreateStep, AddProject, MkdirProject,
        CreateBlankDatabase, MkdirMigrations, Activate, RollbackDir, RollbackRow, FailCreate,
        At, CreatePCs, TypeOK
    <3>. QED BY <2>1, <3>4 DEF CreatedIsUnreferenced
  <2>. QED BY <1>0, <2>1, <2>2, ReferencedStays
<1>. QED BY <1>1, <1>2

LEMMA WipeRemovedStep ==
  ASSUME CreateInv, Untied', Next
  PROVE  WipeRemoved'
<1>. USE DEF CreateInv, KeyInv
<1>. SUFFICES ASSUME NEW w \in Workers, wk'[w].pc = "WipeWrite"
              PROVE  disk'[wk'[w].project] = {} \/ wk'[w].project \in recreated'
  BY DEF WipeRemoved
<1>. DEFINE p == wk'[w].project
<1>1. CASE wk'[w] = wk[w] /\ Next
  <2>1. p \in Projects /\ (disk[p] = {} \/ p \in recreated)
    BY <1>1 DEF WipeRemoved, ActorsAuthorised
  <2>2. ASSUME NEW u \in Workers, wk[u].pc \in CreatePCs, wk[u].project = p PROVE FALSE
    BY <1>1, <2>2 DEF CreatorAlone, CreatePCs
  <2>. QED BY <2>1, <2>2, DiskGrows, RecreatedGoes
<1>2. CASE Start \/ Crash
  BY <1>1, <1>2 DEF Start, Crash, Idle
<1>3. CASE Arrive(w)
  BY <1>3, ArriveShape
<1>4. CASE CreateStep(w) \/ KeyStep(w) \/ BackupStep(w)
  BY <1>4 DEF CreateStep, AddProject, MkdirProject, CreateBlankDatabase, MkdirMigrations,
    Activate, RollbackDir, RollbackRow, FailCreate, KeyStep, InsertKey, RevokeKey, BackupStep,
    BackupMkdir, BackupVacuum, Goto, Respond, Idle, TypeOK, Handlers
<1>5. CASE StateStep(w)
  <2>1. WipeRemoveAll(w)
    <3>1. ~(RemoveRead(w) \/ PatchRead(w) \/ WipeRead(w))
      BY DEF RemoveRead, PatchRead, WipeRead, ReadState, Respond, Idle, TypeOK, Handlers
    <3>2. ~(RemoveWrite(w) \/ PatchWrite(w) \/ WipeWrite(w))
      BY DEF RemoveWrite, PatchWrite, WipeWrite, WriteState, Respond, Idle, TypeOK
    <3>3. ~PatchRename(w) /\ ~WipeRevoke(w)
      BY DEF PatchRename, WipeRevoke, Goto, Respond, Idle, TypeOK, Handlers
    <3>. QED BY <1>5, <3>1, <3>2, <3>3 DEF StateStep
  <2>2. p = wk[w].project /\ p \in Projects
    BY <1>5, SelfMoves DEF Idle, Moves, ActorsAuthorised
  <2>. QED
    BY <2>1, <2>2 DEF WipeRemoveAll, Respond, Idle, TypeOK
<1>. QED
  BY <1>1, <1>2, <1>3, <1>4, <1>5, OthersUnchanged DEF Next, Moves

LEMMA WipedIsRemovedStep ==
  ASSUME CreateInv, Next
  PROVE  WipedIsRemoved'
<1>. USE DEF CreateInv, KeyInv
<1>. SUFFICES ASSUME NEW p \in Projects, rows'[p] = "wiped"
              PROVE  disk'[p] = {} \/ p \in recreated'
  BY DEF WipedIsRemoved
<1>1. CASE rows[p] = "wiped"
  <2>1. ASSUME NEW u \in Workers, wk[u].pc \in CreatePCs, wk[u].project = p PROVE FALSE
    BY <1>1, <2>1 DEF CreatorProgress, CreatePCs
  <2>. QED BY <1>1, <2>1, DiskGrows, RecreatedGoes DEF WipedIsRemoved
<1>2. CASE rows[p] # "wiped"
  <2>1. PICK w \in Workers : Moves(w) /\ Acts(w, p)
    BY <1>2, OnlyOwnProject DEF Touches
  <2>2. ~CreateStep(w) /\ ~KeyStep(w) /\ ~BackupStep(w)
    BY <1>2 DEF CreateStep, AddProject, MkdirProject, CreateBlankDatabase,
      MkdirMigrations, Activate, RollbackDir, RollbackRow, FailCreate, KeyStep, InsertKey,
      RevokeKey, BackupStep, BackupMkdir, BackupVacuum, TypeOK
  <2>3. RemoveWrite(w) \/ PatchWrite(w) \/ WipeWrite(w)
    BY <1>2, <2>1, <2>2 DEF Moves, StateStep, RemoveRead, PatchRename, PatchRead, WipeRead,
      WipeRevoke, WipeRemoveAll, ReadState
  <2>4. wk[w].to = "wiped" /\ wk[w].project = p /\ UNCHANGED <<disk, recreated>>
    BY <1>2, <2>1, <2>3 DEF RemoveWrite, PatchWrite, WipeWrite, WriteState, TypeOK, Acts,
      history
  <2>5. wk[w].pc = "WipeWrite"
    BY <2>3, <2>4 DEF RemoveWrite, PatchWrite, WipeWrite, WriteState, At, TargetsAllowed,
      PatchTargets
  <2>. QED
    BY <2>4, <2>5 DEF WipeRemoved
<1>. QED BY <1>1, <1>2

LEMMA CreateInvInvariant == Spec /\ []Untied => []CreateInv
<1>1. Init => /\ CreatorAlone /\ CreatorProgress /\ CreatedIsUnreferenced
              /\ DirFirst /\ RecreatedIsBlank /\ WipeRemoved /\ WipedIsRemoved
  BY DEF Init, Idle, CreatorAlone, CreatorProgress, CreatedIsUnreferenced, DirFirst,
    RecreatedIsBlank, WipeRemoved, WipedIsRemoved, CreatePCs
<1>2. KeyInv' /\ KeysReferToRows' /\ Untied' /\ CreateInv /\ [Next]_vars => CreateInv'
  <2>. SUFFICES ASSUME KeyInv', KeysReferToRows', Untied', CreateInv, [Next]_vars
                PROVE  CreateInv'
    OBVIOUS
  <2>1. CASE Next
    BY <2>1, CreatorAloneStep, CreatorProgressStep, UnreferencedStep, DirFirstStep,
      RecreatedIsBlankStep, WipeRemovedStep, WipedIsRemovedStep DEF CreateInv
  <2>2. CASE UNCHANGED vars
    BY <2>2 DEF vars, history, CreateInv, CreatorAlone, CreatorProgress,
      CreatedIsUnreferenced, DirFirst, RecreatedIsBlank, WipeRemoved, WipedIsRemoved, Referenced
  <2>. QED BY <2>1, <2>2
<1>3. KeyInv /\ KeysReferToRows /\ CreatorAlone /\ CreatorProgress /\ CreatedIsUnreferenced
        /\ DirFirst /\ RecreatedIsBlank /\ WipeRemoved /\ WipedIsRemoved => CreateInv
  BY DEF CreateInv
<1>. QED
  BY <1>1, <1>2, <1>3, KeyInvInvariant, KeysReferToRowsAlways, PTL DEF Spec

LEMMA CreateInvUntied ==
  ASSUME ~ClockTies
  PROVE  Spec => []CreateInv
<1>1. Untied
  BY DEF Untied
<1>. QED
  BY <1>1, CreateInvInvariant, PTL

(* Nothing of a project survives its wipe, as long as no two creations are *)
(* given the same id.  A backup that is made during or after the wipe may  *)
(* make the directory again; what is in it then is new.                    *)
THEOREM NothingOutlivesWipeAlways ==
  ASSUME ~ClockTies
  PROVE  Spec => []NothingOutlivesWipe
<1>1. CreateInv => NothingOutlivesWipe
  BY DEF CreateInv, WipedIsRemoved, RecreatedIsBlank, NothingOutlivesWipe
<1>. QED
  BY <1>1, CreateInvUntied, PTL

(* A creation that is answered has made the directory, the database file   *)
(* and the migrations directory (and never the metadata.json that its      *)
(* comment announces).                                                     *)
THEOREM CreatedIsCompleteAlways ==
  ASSUME ~ClockTies
  PROVE  Spec => CreatedIsComplete
<1>1. CreateInv /\ [Next]_vars => [CreatedStep]_vars
  BY DEF CreatedStep, CreateInv, CreatorProgress, At
<1>. QED
  BY <1>1, CreateInvUntied, PTL DEF Spec, CreatedIsComplete

(* A transition outside the table is always the work of a handler that was *)
(* overtaken between its read and its write.                               *)
THEOREM IllegalOnlyIfOvertakenAlways ==
  ASSUME ~ClockTies
  PROVE  Spec => IllegalOnlyIfOvertaken
<1>1. CreateInv /\ [Next]_vars => [OvertakenStep]_vars
  <2>. SUFFICES ASSUME CreateInv, Next, NEW p \in Projects, Changes(p),
                       ~CanTransitionTo(rows[p], rows'[p])
                PROVE  \E w \in Workers :
                         /\ Acts(w, p)
                         /\ wk[w].pc \in WritePCs
                         /\ wk[w].seen # rows[p]
                         /\ CanTransitionTo(wk[w].seen, rows'[p])
    BY DEF OvertakenStep
  <2>. USE DEF CreateInv, KeyInv
  <2>1. PICK w \in Workers : Moves(w) /\ Acts(w, p)
    BY OnlyOwnProject DEF Changes, Touches
  <2>2. ~CreateStep(w)
    <3>1. ~AddProject(w) /\ ~RollbackRow(w)
      BY DEF Changes, AddProject, RollbackRow, FailCreate, TypeOK
    <3>2. ~Activate(w)
      BY DEF Changes, Activate, FailCreate, At, TypeOK, CreatorProgress, CanTransitionTo
    <3>. QED
      BY <3>1, <3>2 DEF Changes, CreateStep, MkdirProject, CreateBlankDatabase,
         MkdirMigrations, RollbackDir, FailCreate
  <2>3. RemoveWrite(w) \/ PatchWrite(w) \/ WipeWrite(w)
    BY <2>1, <2>2 DEF Changes, Moves, StateStep, RemoveRead, PatchRename, PatchRead, WipeRead,
      WipeRevoke, WipeRemoveAll, ReadState, KeyStep, InsertKey, RevokeKey, BackupStep,
      BackupMkdir, BackupVacuum
  <2>4. rows'[p] = wk[w].to /\ wk[w].pc \in WritePCs
    BY <2>1, <2>3 DEF Changes, RemoveWrite, PatchWrite, WipeWrite, WriteState, TypeOK, Acts,
      At, WritePCs
  <2>5. CanTransitionTo(wk[w].seen, wk[w].to)
    BY <2>4 DEF TargetsAllowed, WritePCs
  <2>. QED
    BY <2>1, <2>4, <2>5
<1>. QED
  BY <1>1, CreateInvUntied, PTL DEF Spec, IllegalOnlyIfOvertaken

-----------------------------------------------------------------------------
(* One failure.                                                            *)

\* A rollback is the answer to the one failure, so it does not fail itself.
RollbackSucceeds ==
  crashes = 0 /\ faults <= 1 =>
    /\ \A p \in Projects : ~Orphan(p)
    /\ \A w \in Workers : wk[w].pc \in {"RollbackDir", "RollbackRow"} => faults = 1
    /\ \A w \in Workers : wk[w].pc = "RollbackRow" => disk[wk[w].project] = {}

FailureInv == CreateInv /\ RollbackSucceeds

\* A failed call takes one of the bound.
LEMMA FaultCounts ==
  ASSUME TypeOK, Fault, faults' <= 1
  PROVE  faults = 0 /\ faults' = 1
  BY LifecycleAssumption DEF TypeOK, Fault

\* Failures and crashes are counted upwards.
LEMMA CountersGrow ==
  ASSUME TypeOK, Next
  PROVE  /\ faults \in Nat /\ faults' \in Nat /\ faults <= faults'
         /\ crashes \in Nat /\ crashes' \in Nat /\ crashes <= crashes'
         /\ Crash => crashes' # 0
<1>1. faults \in Nat /\ crashes \in Nat
  BY LifecycleAssumption DEF TypeOK
<1>. DEFINE Counted == faults' \in {faults, faults + 1} /\ crashes' = crashes
<1>2. Crash => faults' = faults /\ crashes' = crashes + 1
  BY DEF Crash
<1>3. Start => Counted
  BY DEF Start
<1>4. ASSUME NEW w \in Workers, Arrive(w) PROVE Counted
  BY <1>4 DEF Arrive, BeginCreate, BeginSystem, BeginPatch, BeginKeyRequest, BeginBackup, Begin
<1>5. ASSUME NEW w \in Workers, CreateStep(w) PROVE Counted
  <2>1. AddProject(w) \/ MkdirProject(w) \/ CreateBlankDatabase(w) => Counted
    BY DEF AddProject, MkdirProject, CreateBlankDatabase, Fault
  <2>2. MkdirMigrations(w) \/ Activate(w) => Counted
    BY DEF MkdirMigrations, Activate, Fault
  <2>3. RollbackDir(w) \/ RollbackRow(w) => Counted
    BY DEF RollbackDir, RollbackRow, Fault
  <2>. QED BY <1>5, <2>1, <2>2, <2>3 DEF CreateStep
<1>6. ASSUME NEW w \in Workers, StateStep(w) PROVE Counted
  <2>1. RemoveRead(w) \/ PatchRead(w) \/ WipeRead(w) => Counted
    BY DEF RemoveRead, PatchRead, WipeRead, ReadState, Fault
  <2>2. RemoveWrite(w) \/ PatchWrite(w) \/ WipeWrite(w) => Counted
    BY DEF RemoveWrite, PatchWrite, WipeWrite, WriteState, Fault
  <2>3. PatchRename(w) \/ WipeRevoke(w) \/ WipeRemoveAll(w) => Counted
    BY DEF PatchRename, WipeRevoke, WipeRemoveAll, Fault
  <2>. QED BY <1>6, <2>1, <2>2, <2>3 DEF StateStep
<1>7. ASSUME NEW w \in Workers, KeyStep(w) \/ BackupStep(w) PROVE Counted
  BY <1>7 DEF KeyStep, InsertKey, RevokeKey, BackupStep, BackupMkdir, BackupVacuum, Fault
<1>8. Counted \/ Crash
  <2>. HIDE DEF Counted
  <2>. QED BY <1>3, <1>4, <1>5, <1>6, <1>7 DEF Next
<1>. QED BY <1>1, <1>2, <1>8

\* A step of the creator, while at most one call has failed.
LEMMA CreatorLeavesNothing ==
  ASSUME FailureInv, NEW w \in Workers, CreateStep(w), crashes = 0, faults' <= 1,
         faults \in Nat, faults' \in Nat, faults <= faults'
  PROVE  LET p == wk[w].project IN
         /\ wk'[w].pc \in {"RollbackDir", "RollbackRow"} => faults' = 1
         /\ wk'[w].pc = "RollbackRow" => disk'[p] = {}
         /\ \/ wk'[w].pc \in CreatePCs /\ wk'[w].project = p
            \/ rows'[p] = "inactive"
            \/ rows'[p] = "none" /\ disk'[p] = {}
<1>. USE DEF FailureInv, CreateInv, KeyInv
<1>. DEFINE p == wk[w].project
<1>0. p \in Projects /\ wk[w] \in Handlers /\ wk[w].pc \in CreatePCs
  BY DEF TypeOK, ActorsAuthorised, CreateStep, AddProject, MkdirProject, CreateBlankDatabase,
    MkdirMigrations, Activate, RollbackDir, RollbackRow, At, CreatePCs
<1>1. /\ wk[w].pc \in {"RollbackDir", "RollbackRow"} => faults = 1
      /\ wk[w].pc = "RollbackRow" => disk[p] = {}
  <2>1. faults <= 1
    OBVIOUS
  <2>. QED BY <2>1 DEF RollbackSucceeds
<1>2. CASE AddProject(w) \/ MkdirProject(w) \/ CreateBlankDatabase(w) \/ MkdirMigrations(w)
  <2>1. wk'[w].project = p /\ wk'[w].pc \in CreatePCs \ {"RollbackRow"}
    BY <1>0, <1>2 DEF AddProject, MkdirProject, CreateBlankDatabase, MkdirMigrations,
      FailCreate, Goto, TypeOK, Handlers, CreatePCs
  <2>2. wk'[w].pc = "RollbackDir" => Fault
    <3>1. CASE AddProject(w)
      BY <1>0, <3>1 DEF AddProject, At, Goto, TypeOK, Handlers, CreatorProgress
    <3>2. CASE MkdirProject(w)
      BY <1>0, <3>2 DEF MkdirProject, At, Goto, TypeOK, Handlers
    <3>3. CASE CreateBlankDatabase(w)
      BY <1>0, <3>3 DEF CreateBlankDatabase, At, Goto, TypeOK, Handlers, CreatorProgress
    <3>4. CASE MkdirMigrations(w)
      BY <1>0, <3>4 DEF MkdirMigrations, At, Goto, TypeOK, Handlers
    <3>. QED BY <1>2, <3>1, <3>2, <3>3, <3>4
  <2>. QED BY <2>1, <2>2, FaultCounts
<1>3. CASE Activate(w)
  <2>1. \/ rows'[p] = "inactive" /\ wk'[w] = Idle
        \/ wk'[w].pc = "RollbackDir" /\ wk'[w].project = p /\ Fault
    BY <1>0, <1>3 DEF Activate, FailCreate, Goto, Respond, At, TypeOK, Handlers,
      CreatorProgress
  <2>. QED BY <2>1, FaultCounts DEF Idle, CreatePCs
<1>4. CASE RollbackDir(w)
  <2>1. ~Fault /\ faults = 1
    BY <1>1, <1>4, FaultCounts DEF RollbackDir, At
  <2>. QED
    BY <1>0, <1>4, <2>1 DEF RollbackDir, Goto, TypeOK, CreatePCs
<1>5. CASE RollbackRow(w)
  <2>1. ~Fault /\ faults = 1
    BY <1>1, <1>5, FaultCounts DEF RollbackRow, At
  <2>2. ~Referenced(p)
    BY <1>0 DEF CreatedIsUnreferenced
  <2>. QED
    BY <1>0, <1>1, <1>5, <2>1, <2>2 DEF RollbackRow, Respond, At, Idle, TypeOK
<1>. QED
  BY <1>2, <1>3, <1>4, <1>5 DEF CreateStep

\* Other requests never make a row, nor a row a creation, nor a file.
LEMMA OthersLeaveNothing ==
  ASSUME FailureInv, NEW u \in Workers, StateStep(u) \/ KeyStep(u), NEW p \in Projects
  PROVE  /\ rows'[p] = "none" <=> rows[p] = "none"
         /\ rows'[p] = "creating" => rows[p] = "creating"
         /\ disk'[p] \subseteq disk[p]
<1>. USE DEF FailureInv, CreateInv, KeyInv
<1>1. wk[u].pc \in WritePCs => wk[u].to \notin {"none", "creating"}
  BY DEF TargetsAllowed, WritePCs, CanTransitionTo, PatchTargets, ProjectStates
<1>2. CASE RemoveWrite(u) \/ PatchWrite(u) \/ WipeWrite(u)
  BY <1>1, <1>2 DEF RemoveWrite, PatchWrite, WipeWrite, WriteState, At, TypeOK, WritePCs
<1>3. CASE KeyStep(u)
  BY <1>3 DEF KeyStep, InsertKey, RevokeKey
<1>4. CASE WipeRemoveAll(u)
  BY <1>4 DEF WipeRemoveAll, TypeOK
<1>5. CASE RemoveRead(u) \/ PatchRename(u) \/ PatchRead(u) \/ WipeRead(u) \/ WipeRevoke(u)
  BY <1>5 DEF RemoveRead, PatchRename, PatchRead, WipeRead, WipeRevoke, ReadState
<1>. QED BY <1>2, <1>3, <1>4, <1>5 DEF StateStep

\* A backup writes under a project that has keys, so a row, and is not being
\* created.
LEMMA BackupLeavesNothing ==
  ASSUME FailureInv, NEW u \in Workers, BackupStep(u), NEW p \in Projects
  PROVE  /\ rows' = rows
         /\ disk'[p] # disk[p] => p = wk[u].project /\ rows[p] # "none"
<1>. USE DEF FailureInv, CreateInv, KeyInv
<1>1. wk[u].pc \in BackupPCs
  BY DEF BackupStep, BackupMkdir, BackupVacuum, At, BackupPCs
<1>2. rows[wk[u].project] # "none"
  BY <1>1 DEF ActorsAuthorised, BackupPCs, KeysReferToRows
<1>. QED
  BY <1>2 DEF BackupStep, BackupMkdir, BackupVacuum, TypeOK

LEMMA RollbackSucceedsStep ==
  ASSUME FailureInv, Untied', Next
  PROVE  RollbackSucceeds'
<1>. USE DEF FailureInv, CreateInv, KeyInv
<1>. SUFFICES ASSUME crashes' = 0, faults' <= 1
              PROVE  /\ \A p \in Projects : ~Orphan(p)'
                     /\ \A w \in Workers : wk'[w].pc \in {"RollbackDir", "RollbackRow"} => faults' = 1
                     /\ \A w \in Workers : wk'[w].pc = "RollbackRow" => disk'[wk'[w].project] = {}
  BY DEF RollbackSucceeds
<1>0. crashes = 0 /\ faults <= 1 /\ faults <= faults' /\ faults \in Nat /\ faults' \in Nat /\ ~Crash
  BY CountersGrow
<1>1. /\ \A p \in Projects : ~Orphan(p)
      /\ \A w \in Workers : wk[w].pc \in {"RollbackDir", "RollbackRow"} => faults = 1
      /\ \A w \in Workers : wk[w].pc = "RollbackRow" => disk[wk[w].project] = {}
  BY <1>0 DEF RollbackSucceeds
<1>2. CASE Start
  BY <1>1, <1>2 DEF Start, Orphan, Creating
<1>3. ASSUME NEW u \in Workers, Arrive(u)
      PROVE  RollbackSucceeds'
  <2>1. UNCHANGED <<rows, disk>>
    BY <1>3, ArriveFrame
  <2>2. wk[u].pc = "idle" /\ wk'[u].pc \notin {"RollbackDir", "RollbackRow"}
    BY <1>3, ArriveShape
  <2>3. faults' = faults
    BY <1>3 DEF Arrive, BeginCreate, BeginSystem, BeginPatch, BeginKeyRequest, BeginBackup, Begin
  <2>4. \A w \in Workers : wk[w].pc # "idle" => wk'[w] = wk[w]
    BY <1>3, <2>2, OthersUnchanged
  <2>5. \A p \in Projects : Creating(p) => Creating(p)'
    BY <2>4 DEF Creating, CreatePCs
  <2>6. \A p \in Projects : ~Orphan(p)'
    BY <1>1, <2>1, <2>5 DEF Orphan
  <2>7. \A w \in Workers : wk'[w].pc \in {"RollbackDir", "RollbackRow"} => wk'[w] = wk[w]
    BY <1>3, <2>2, OthersUnchanged
  <2>. QED BY <1>1, <2>1, <2>3, <2>6, <2>7 DEF RollbackSucceeds
<1>4. ASSUME NEW u \in Workers, CreateStep(u)
      PROVE  RollbackSucceeds'
  <2>. DEFINE q == wk[u].project
  <2>0. wk[u].pc \in CreatePCs /\ q \in Projects /\ Moves(u)
    BY <1>4 DEF Moves, ActorsAuthorised, CreateStep, AddProject, MkdirProject,
      CreateBlankDatabase, MkdirMigrations, Activate, RollbackDir, RollbackRow, At, CreatePCs
  <2>1. /\ wk'[u].pc \in {"RollbackDir", "RollbackRow"} => faults' = 1
        /\ wk'[u].pc = "RollbackRow" => disk'[q] = {}
        /\ \/ wk'[u].pc \in CreatePCs /\ wk'[u].project = q
           \/ rows'[q] = "inactive"
           \/ rows'[q] = "none" /\ disk'[q] = {}
    BY <1>0, <1>4, CreatorLeavesNothing
  <2>2. wk'[u].pc = "RollbackRow" => wk'[u].project = q
    BY <2>0, SelfMoves DEF Idle
  <2>3. \A w \in Workers \ {u} : wk'[w] = wk[w]
    BY <2>0, OthersUnchanged
  <2>4. \A p \in Projects \ {q} : rows'[p] = rows[p] /\ disk'[p] = disk[p]
    <3>. SUFFICES ASSUME NEW p \in Projects, p # q, Touches(p) PROVE FALSE
      BY DEF Touches
    <3>1. PICK x \in Workers : Moves(x) /\ Acts(x, p)
      BY OnlyOwnProject
    <3>. QED BY <2>3, <3>1 DEF Acts
  <2>5. ASSUME NEW p \in Projects PROVE ~Orphan(p)'
    <3>1. CASE p = q
      BY <2>1, <3>1 DEF Orphan, Creating
    <3>2. CASE p # q
      <4>1. Creating(p) => Creating(p)'
        BY <2>3, <3>2 DEF Creating
      <4>. QED BY <1>1, <2>4, <3>2, <4>1 DEF Orphan
    <3>. QED BY <3>1, <3>2
  <2>6. ASSUME NEW w \in Workers, wk'[w].pc \in {"RollbackDir", "RollbackRow"}
        PROVE  faults' = 1 /\ (wk'[w].pc = "RollbackRow" => disk'[wk'[w].project] = {})
    <3>1. CASE w = u
      BY <2>1, <2>2, <2>6, <3>1
    <3>2. CASE w # u
      <4>1. wk[w].pc \in {"RollbackDir", "RollbackRow"} /\ wk'[w] = wk[w]
        BY <2>3, <2>6, <3>2
      <4>2. faults' = 1
        BY <1>0, <1>1, <4>1
      <4>3. wk[w].pc \in CreatePCs /\ wk[w].project \in Projects
        BY <4>1 DEF CreatePCs, ActorsAuthorised
      <4>4. disk'[wk[w].project] = disk[wk[w].project]
        BY <2>0, <3>2, <4>3, CreatorUndisturbed
      <4>. QED BY <1>1, <4>1, <4>2, <4>4
    <3>. QED BY <3>1, <3>2
  <2>. QED BY <2>5, <2>6 DEF RollbackSucceeds
<1>5. ASSUME NEW u \in Workers, StateStep(u) \/ KeyStep(u)
      PROVE  RollbackSucceeds'
  <2>0. wk[u].pc \notin CreatePCs /\ Moves(u)
    BY <1>5 DEF Moves, StateStep, RemoveRead, RemoveWrite, PatchRename, PatchRead, PatchWrite,
      WipeRead, WipeRevoke, WipeRemoveAll, WipeWrite, ReadState, WriteState, KeyStep,
      InsertKey, RevokeKey, At, CreatePCs
  <2>1. \A w \in Workers : wk[w].pc \in CreatePCs => wk'[w] = wk[w]
    BY <2>0, OthersUnchanged
  <2>2. \A w \in Workers : wk'[w].pc \in CreatePCs => wk'[w] = wk[w]
    BY <2>0, OthersUnchanged, SelfMoves DEF Idle, CreatePCs
  <2>3. \A p \in Projects : ~Orphan(p)'
    BY <1>1, <1>5, <2>1, OthersLeaveNothing DEF Orphan, Creating
  <2>4. ASSUME NEW w \in Workers, wk'[w].pc \in {"RollbackDir", "RollbackRow"}
        PROVE  faults' = 1 /\ (wk'[w].pc = "RollbackRow" => disk'[wk'[w].project] = {})
    <3>1. wk[w].pc \in {"RollbackDir", "RollbackRow"} /\ wk'[w] = wk[w]
      BY <2>2, <2>4 DEF CreatePCs
    <3>2. wk[w].project \in Projects
      BY <3>1 DEF ActorsAuthorised
    <3>. QED BY <1>0, <1>1, <1>5, <3>1, <3>2, OthersLeaveNothing
  <2>. QED BY <2>3, <2>4 DEF RollbackSucceeds
<1>6. ASSUME NEW u \in Workers, BackupStep(u)
      PROVE  RollbackSucceeds'
  <2>0. wk[u].pc \notin CreatePCs /\ Moves(u)
    BY <1>6 DEF Moves, BackupStep, BackupMkdir, BackupVacuum, At, CreatePCs
  <2>1. \A w \in Workers : wk[w].pc \in CreatePCs => wk'[w] = wk[w]
    BY <2>0, OthersUnchanged
  <2>2. \A w \in Workers : wk'[w].pc \in CreatePCs => wk'[w] = wk[w]
    BY <2>0, OthersUnchanged, SelfMoves DEF Idle, CreatePCs
  <2>3. \A p \in Projects : ~Orphan(p)'
    BY <1>1, <1>6, <2>1, BackupLeavesNothing DEF Orphan, Creating
  <2>4. ASSUME NEW w \in Workers, wk'[w].pc \in {"RollbackDir", "RollbackRow"}
        PROVE  faults' = 1 /\ (wk'[w].pc = "RollbackRow" => disk'[wk'[w].project] = {})
    <3>1. wk[w].pc \in CreatePCs /\ wk'[w] = wk[w] /\ w # u
      BY <2>0, <2>2, <2>4 DEF CreatePCs
    <3>2. disk'[wk[w].project] = disk[wk[w].project]
      BY <2>0, <3>1, CreatorUndisturbed
    <3>. QED BY <1>0, <1>1, <2>4, <3>1, <3>2
  <2>. QED BY <2>3, <2>4 DEF RollbackSucceeds
<1>. QED
  BY <1>0, <1>2, <1>3, <1>4, <1>5, <1>6 DEF Next, RollbackSucceeds

LEMMA FailureInvariant == Spec /\ []Untied => []FailureInv
<1>1. Init => RollbackSucceeds
  BY DEF Init, Idle, RollbackSucceeds, Orphan, CreatePCs
<1>2. CreateInv /\ Untied' /\ RollbackSucceeds /\ [Next]_vars => RollbackSucceeds'
  <2>. SUFFICES ASSUME CreateInv, Untied', RollbackSucceeds, [Next]_vars
                PROVE  RollbackSucceeds'
    OBVIOUS
  <2>1. CASE Next
    BY <2>1, RollbackSucceedsStep DEF FailureInv
  <2>2. CASE UNCHANGED vars
    BY <2>2 DEF vars, RollbackSucceeds, Orphan, Creating
  <2>. QED BY <2>1, <2>2
<1>3. CreateInv /\ RollbackSucceeds => FailureInv
  BY DEF FailureInv
<1>. QED
  BY <1>1, <1>2, <1>3, CreateInvInvariant, PTL DEF Spec

(* No single failed call leaves half a project behind.                     *)
THEOREM OneFailureLeavesNothingAlways ==
  Spec /\ []Untied => []OneFailureLeavesNothing
<1>1. FailureInv => OneFailureLeavesNothing
  BY DEF FailureInv, RollbackSucceeds, OneFailureLeavesNothing
<1>. QED
  BY <1>1, FailureInvariant, PTL

-----------------------------------------------------------------------------
(* Projects whose clients wait: they have never had two requests at once.  *)

\* Where a handler is between reading the row and writing it.
ChangePCs == {"PatchWrite", "RemoveWrite", "WipeRevoke", "WipeRemoveAll", "WipeWrite"}

\* Such a project has one request at a time.
Alone ==
  \A v, w \in Workers :
    /\ wk[v].pc # "idle" /\ wk[w].pc # "idle"
    /\ wk[v].project = wk[w].project /\ wk[w].project \notin contended
    => v = w

\* What a handler read is what the row says when it writes.
Current ==
  \A w \in Workers : wk[w].pc \in ChangePCs /\ wk[w].project \notin contended =>
    rows[wk[w].project] = wk[w].seen

\* What a wipe has revoked is not issued anew before it is done.
StaysRevoked ==
  \A w \in Workers, k \in Keys :
    /\ wk[w].pc \in {"WipeRemoveAll", "WipeWrite"} /\ wk[w].project \notin contended
    /\ keys[k].project = wk[w].project
    => ~Active(k)

WaitingInv == FailureInv /\ Alone /\ Current /\ StaysRevoked /\ ListedHasDatabase

\* Once two requests have met they have met; an arrival next to another one
\* is how they do.
LEMMA ContendedGrows ==
  ASSUME Next
  PROVE  /\ contended \subseteq contended'
         /\ \A w, v \in Workers : TypeOK /\ Arrive(w) /\ wk[v].project = wk'[w].project =>
              wk'[w].project \in contended'
<1>1. ASSUME NEW w \in Workers, Arrive(w) PROVE contended \subseteq contended'
  BY <1>1 DEF Arrive, BeginCreate, BeginSystem, BeginPatch, BeginKeyRequest, BeginBackup, Begin
<1>2. ASSUME Start \/ Crash PROVE UNCHANGED contended
  BY <1>2 DEF Start, Crash, history
<1>3. ASSUME NEW w \in Workers, CreateStep(w) PROVE UNCHANGED contended
  BY <1>3 DEF CreateStep, AddProject, MkdirProject, CreateBlankDatabase, MkdirMigrations,
    Activate, RollbackDir, RollbackRow, history
<1>4. ASSUME NEW w \in Workers, StateStep(w) PROVE UNCHANGED contended
  BY <1>4 DEF StateStep, RemoveRead, RemoveWrite, PatchRename, PatchRead, PatchWrite, WipeRead,
    WipeRevoke, WipeRemoveAll, WipeWrite, ReadState, WriteState, history
<1>5. ASSUME NEW w \in Workers, KeyStep(w) \/ BackupStep(w) PROVE UNCHANGED contended
  BY <1>5 DEF KeyStep, InsertKey, RevokeKey, BackupStep, BackupMkdir, BackupVacuum, history
<1>6. ASSUME NEW w \in Workers, NEW v \in Workers, TypeOK, Arrive(w),
             wk[v].project = wk'[w].project
      PROVE  wk'[w].project \in contended'
  <2>1. PICK k \in Keys, p \in Projects, pc \in PCs : Begin(w, k, p, pc)
    BY <1>6 DEF Arrive, BeginCreate, BeginSystem, BeginPatch, BeginKeyRequest, BeginBackup,
      PCs, CreatePCs, SystemPCs, BackupPCs
  <2>2. wk'[w].project = p
    BY <1>6, <2>1 DEF Begin, Idle, TypeOK
  <2>. QED BY <1>6, <2>1, <2>2 DEF Begin
<1>. QED BY <1>1, <1>2, <1>3, <1>4, <1>5, <1>6 DEF Next

LEMMA AloneStep ==
  ASSUME KeyInv, Alone, Next
  PROVE  Alone'
<1>. USE DEF KeyInv
<1>. SUFFICES ASSUME NEW v \in Workers, NEW w \in Workers, v # w,
                     wk'[v].pc # "idle", wk'[w].pc # "idle",
                     wk'[v].project = wk'[w].project, wk'[w].project \notin contended'
              PROVE  FALSE
  BY DEF Alone
<1>0. wk'[w].project \notin contended
  BY ContendedGrows
<1>1. CASE UNCHANGED wk
  BY <1>0, <1>1 DEF Alone
<1>2. CASE Start \/ Crash
  BY <1>1, <1>2 DEF Start, Crash, Idle
<1>3. ASSUME NEW u \in Workers, Moves(u) PROVE FALSE
  <2>1. /\ wk[w].pc # "idle" /\ wk[w].project = wk'[w].project
        /\ wk[v].pc # "idle" /\ wk[v].project = wk'[v].project
    BY <1>3, SelfMoves, OthersUnchanged DEF Idle
  <2>. QED BY <1>0, <2>1 DEF Alone
<1>4. ASSUME NEW u \in Workers, Arrive(u) PROVE FALSE
  <2>1. CASE u = w
    BY <1>4, <2>1, OthersUnchanged, ContendedGrows
  <2>2. CASE u = v
    BY <1>4, <2>2, OthersUnchanged, ContendedGrows
  <2>3. CASE u # v /\ u # w
    BY <1>0, <1>4, <2>3, OthersUnchanged DEF Alone
  <2>. QED BY <2>1, <2>2, <2>3
<1>. QED
  BY <1>2, <1>3, <1>4 DEF Next, Moves

\* Nobody else touches the project of a request.
LEMMA UntouchedByOthers ==
  ASSUME KeyInv, Alone, Next, NEW w \in Workers, wk[w].pc # "idle", wk'[w] = wk[w],
         wk[w].project \notin contended
  PROVE  ~Touches(wk[w].project)
<1>. SUFFICES ASSUME Touches(wk[w].project) PROVE FALSE
  OBVIOUS
<1>1. wk[w].project \in Projects
  BY DEF KeyInv, ActorsAuthorised
<1>2. PICK u \in Workers : Moves(u) /\ Acts(u, wk[w].project)
  BY <1>1, OnlyOwnProject
<1>3. wk[u].pc # "idle"
  BY <1>2, SelfMoves DEF KeyInv
<1>. QED BY <1>2, <1>3 DEF Acts, Alone

\* How a request comes to where it will write: it reads the row, or it wipes.
LEMMA ChangeMoves ==
  ASSUME KeyInv, NEW w \in Workers, Arrive(w) \/ Moves(w), wk'[w].pc \in ChangePCs
  PROVE  /\ rows' = rows
         /\ \/ /\ wk'[w].seen = rows[wk'[w].project]
               /\ wk'[w].pc \notin {"WipeRemoveAll", "WipeWrite"}
            \/ /\ wk[w].pc \in ChangePCs
               /\ wk'[w].seen = wk[w].seen /\ wk'[w].project = wk[w].project
               /\ WipeRevoke(w) \/ WipeRemoveAll(w)
<1>. USE DEF KeyInv
<1>1. CASE Arrive(w)
  <2>1. PICK k \in Keys, p \in Projects,
             pc \in {"AddProject", "RemoveRead", "WipeRead", "PatchRename", "PatchRead",
                    "InsertKey", "RevokeKey", "BackupMkdir"} : Begin(w, k, p, pc)
    BY <1>1 DEF Arrive, BeginCreate, BeginSystem, BeginPatch, BeginKeyRequest, BeginBackup
  <2>. QED BY <2>1 DEF Begin, Idle, TypeOK, ChangePCs
<1>2. CASE CreateStep(w)
  <2>1. wk'[w] = Idle \/ wk'[w].pc \in CreatePCs
    BY <1>2 DEF CreateStep, AddProject, MkdirProject, CreateBlankDatabase, MkdirMigrations,
      Activate, RollbackDir, RollbackRow, FailCreate, Goto, Respond, TypeOK, Handlers, CreatePCs
  <2>. QED BY <2>1 DEF Idle, CreatePCs, ChangePCs
<1>7. CASE BackupStep(w)
  BY <1>7 DEF BackupStep, BackupMkdir, BackupVacuum, Goto, Respond, Idle, TypeOK, Handlers,
    ChangePCs
<1>3. CASE KeyStep(w) \/ RemoveWrite(w) \/ PatchWrite(w) \/ WipeWrite(w)
  <2>1. wk'[w] = Idle
    BY <1>3 DEF KeyStep, InsertKey, RevokeKey, RemoveWrite, PatchWrite, WipeWrite, WriteState,
      Respond, TypeOK
  <2>. QED BY <2>1 DEF Idle, ChangePCs
<1>4. CASE PatchRename(w)
  BY <1>4 DEF PatchRename, Goto, Respond, Idle, TypeOK, Handlers, ChangePCs
<1>5. CASE RemoveRead(w) \/ PatchRead(w) \/ WipeRead(w)
  <2>1. PICK from, next, to : /\ ReadState(w, from, to, next)
                              /\ next \in {"RemoveWrite", "PatchWrite", "WipeRevoke"}
    BY <1>5 DEF RemoveRead, PatchRead, WipeRead
  <2>2. wk'[w] # Idle
    BY DEF Idle, ChangePCs
  <2>3. /\ wk' = [wk EXCEPT ![w].pc = next, ![w].seen = rows[wk[w].project], ![w].to = to]
        /\ rows' = rows
    BY <2>1, <2>2 DEF ReadState, Respond, TypeOK
  <2>4. /\ wk'[w].pc = next /\ wk'[w].seen = rows[wk[w].project]
        /\ wk'[w].project = wk[w].project
    BY <2>3 DEF TypeOK, Handlers
  <2>. QED BY <2>1, <2>3, <2>4
<1>6. CASE WipeRevoke(w) \/ WipeRemoveAll(w)
  <2>1. wk'[w] # Idle
    BY DEF Idle, ChangePCs
  <2>2. /\ Goto(w, "WipeRemoveAll") \/ Goto(w, "WipeWrite")
        /\ wk[w].pc \in {"WipeRevoke", "WipeRemoveAll"} /\ UNCHANGED rows
    BY <1>6, <2>1 DEF WipeRevoke, WipeRemoveAll, Respond, At, Goto, TypeOK, Handlers
  <2>3. wk'[w].seen = wk[w].seen /\ wk'[w].project = wk[w].project
    BY <2>2 DEF Goto, TypeOK, Handlers
  <2>. QED BY <1>6, <2>2, <2>3 DEF ChangePCs
<1>. QED
  BY <1>1, <1>2, <1>3, <1>4, <1>5, <1>6, <1>7 DEF Moves, StateStep

\* Whoever is about to write has just moved, or was about to before the step.
LEMMA ChangeStep ==
  ASSUME KeyInv, Next, NEW w \in Workers, wk'[w].pc \in ChangePCs
  PROVE  \/ wk'[w] = wk[w]
         \/ Arrive(w) \/ Moves(w)
<1>1. ~Crash
  BY DEF Crash, Idle, ChangePCs
<1>2. Start => wk'[w] = wk[w]
  BY DEF Start
<1>. QED BY <1>1, <1>2, OthersUnchanged DEF Next, Moves, KeyInv

LEMMA CurrentStep ==
  ASSUME KeyInv, Alone, Current, Next
  PROVE  Current'
<1>. SUFFICES ASSUME NEW w \in Workers, wk'[w].pc \in ChangePCs, wk'[w].project \notin contended'
              PROVE  rows'[wk'[w].project] = wk'[w].seen
  BY DEF Current
<1>0. wk'[w].project \notin contended
  BY ContendedGrows
<1>1. CASE wk'[w] = wk[w]
  <2>1. wk[w].pc # "idle" /\ wk[w].project \in Projects
    BY <1>1 DEF ChangePCs, KeyInv, ActorsAuthorised
  <2>. QED BY <1>0, <1>1, <2>1, UntouchedByOthers DEF Touches, Current
<1>2. CASE Arrive(w) \/ Moves(w)
  BY <1>0, <1>2, ChangeMoves DEF Current
<1>. QED BY <1>1, <1>2, ChangeStep

LEMMA StaysRevokedStep ==
  ASSUME KeyInv, Alone, StaysRevoked, Next
  PROVE  StaysRevoked'
<1>. SUFFICES ASSUME NEW w \in Workers, NEW k \in Keys,
                     wk'[w].pc \in {"WipeRemoveAll", "WipeWrite"},
                     wk'[w].project \notin contended',
                     keys'[k].project = wk'[w].project
              PROVE  keys'[k].status # "active"
  BY DEF StaysRevoked, Active
<1>0. wk'[w].pc \in ChangePCs /\ wk'[w].project \notin contended
  BY ContendedGrows DEF ChangePCs
<1>1. CASE wk'[w] = wk[w]
  <2>1. wk[w].pc # "idle"
    BY <1>1
  <2>2. keys'[k] = keys[k]
    BY <1>0, <1>1, <2>1, UntouchedByOthers DEF Touches
  <2>. QED BY <1>0, <1>1, <2>2 DEF StaysRevoked, Active
<1>2. CASE WipeRevoke(w)
  <2>1. keys' = [j \in Keys |-> IF RevokesKey(j, wk[w].project)
                                  THEN [keys[j] EXCEPT !.status = "revoked"] ELSE keys[j]]
    BY <1>2 DEF WipeRevoke, Respond, Idle, KeyInv, TypeOK
  <2>2. wk'[w].project = wk[w].project
    BY <1>2, SelfMoves DEF Moves, StateStep, Idle, KeyInv
  <2>. QED BY <2>1, <2>2 DEF RevokesKey, Active, KeyInv, TypeOK, KeyRows
<1>3. CASE WipeRemoveAll(w)
  <2>1. wk'[w].project = wk[w].project
    BY <1>3, SelfMoves DEF Moves, StateStep, Idle, KeyInv
  <2>. QED BY <1>0, <1>3, <2>1 DEF WipeRemoveAll, At, StaysRevoked, Active
<1>. QED BY <1>0, <1>1, <1>2, <1>3, ChangeStep, ChangeMoves

\* A row changes by the last step of a creation, and by what the table allows.
LEMMA ChangesAllowed ==
  ASSUME CreateInv, Current, Next, NEW p \in Projects \ contended, Changes(p)
  PROVE  CanTransitionTo(rows[p], rows'[p])
<1>. USE DEF CreateInv, KeyInv
<1>1. PICK w \in Workers : Moves(w) /\ Acts(w, p)
  BY OnlyOwnProject DEF Changes, Touches
<1>2. CASE CreateStep(w)
  BY <1>1, <1>2 DEF Changes, Acts, CreateStep, AddProject, MkdirProject, CreateBlankDatabase,
    MkdirMigrations, Activate, RollbackDir, RollbackRow, FailCreate, At, TypeOK,
    CreatorProgress, CanTransitionTo
<1>3. CASE ~CreateStep(w)
  <2>1. RemoveWrite(w) \/ PatchWrite(w) \/ WipeWrite(w)
    BY <1>1, <1>3 DEF Changes, Moves, StateStep, RemoveRead, PatchRename, PatchRead, WipeRead,
      WipeRevoke, WipeRemoveAll, ReadState, KeyStep, InsertKey, RevokeKey, BackupStep,
      BackupMkdir, BackupVacuum
  <2>2. rows'[p] = wk[w].to /\ wk[w].project = p /\ wk[w].pc \in WritePCs
    BY <1>1, <2>1 DEF Changes, RemoveWrite, PatchWrite, WipeWrite, WriteState, Acts, At,
      TypeOK, WritePCs
  <2>. QED
    BY <2>2 DEF Current, ChangePCs, TargetsAllowed, WritePCs
<1>. QED BY <1>2, <1>3

\* Only a creation that is rolled back removes a row, and only it and a wipe
\* remove files.
LEMMA InUseStays ==
  ASSUME CreateInv, Current, Next, NEW p \in Projects \ contended,
         rows[p] \in {"inactive", "active"}
  PROVE  rows'[p] # "none" /\ ("database.db" \in disk[p] => "database.db" \in disk'[p])
<1>. USE DEF CreateInv, KeyInv
<1>. SUFFICES ASSUME Touches(p)
              PROVE  rows'[p] # "none" /\ ("database.db" \in disk[p] => "database.db" \in disk'[p])
  BY DEF Touches
<1>1. PICK w \in Workers : Moves(w) /\ Acts(w, p)
  BY OnlyOwnProject
<1>2. wk[w].project = p
  BY <1>1 DEF Acts
<1>3. ~CreateStep(w)
  BY <1>2 DEF CreateStep, AddProject, MkdirProject, CreateBlankDatabase, MkdirMigrations,
    Activate, RollbackDir, RollbackRow, At, CreatorProgress
<1>4. ~WipeRemoveAll(w)
  BY <1>2 DEF WipeRemoveAll, At, Current, ChangePCs, TargetsAllowed, CanTransitionTo
<1>5. CASE RemoveWrite(w) \/ PatchWrite(w) \/ WipeWrite(w)
  <2>1. wk[w].pc \in WritePCs => wk[w].to # "none"
    BY DEF WritePCs, TargetsAllowed, PatchTargets, ProjectStates
  <2>. QED
    BY <1>5, <2>1 DEF RemoveWrite, PatchWrite, WipeWrite, WriteState, At, TypeOK, WritePCs
<1>6. CASE KeyStep(w) \/ BackupStep(w)
  BY <1>6 DEF KeyStep, InsertKey, RevokeKey, BackupStep, BackupMkdir, BackupVacuum, TypeOK
<1>. QED
  BY <1>1, <1>3, <1>4, <1>5, <1>6 DEF Moves, StateStep, RemoveRead, PatchRename, PatchRead,
    WipeRead, WipeRevoke, ReadState

LEMMA ListedHasDatabaseStep ==
  ASSUME FailureInv, Current, ListedHasDatabase, Next
  PROVE  ListedHasDatabase'
<1>. USE DEF FailureInv, CreateInv, KeyInv
<1>. SUFFICES ASSUME crashes' = 0, faults' <= 1, NEW p \in Projects \ contended',
                     rows'[p] \in {"inactive", "active"}
              PROVE  "database.db" \in disk'[p]
  BY DEF ListedHasDatabase
<1>1. crashes = 0 /\ faults <= 1 /\ p \notin contended
  BY CountersGrow, ContendedGrows
<1>2. CASE rows[p] \in {"inactive", "active"}
  BY <1>1, <1>2, InUseStays DEF ListedHasDatabase
<1>3. CASE rows[p] \notin {"inactive", "active"}
  <2>1. PICK w \in Workers : Moves(w) /\ Acts(w, p)
    BY <1>3, OnlyOwnProject DEF Touches
  <2>2. CASE Activate(w)
    BY <2>1, <2>2 DEF Activate, Acts, At, CreatorProgress, FailCreate, Made, TypeOK
  <2>3. CASE CreateStep(w) /\ ~Activate(w)
    BY <1>3, <2>3 DEF CreateStep, AddProject, MkdirProject, CreateBlankDatabase,
      MkdirMigrations, RollbackDir, RollbackRow, FailCreate, TypeOK
  <2>4. CASE ~CreateStep(w)
    <3>1. RemoveWrite(w) \/ PatchWrite(w) \/ WipeWrite(w)
      BY <1>3, <2>1, <2>4 DEF Moves, StateStep, RemoveRead, PatchRename, PatchRead, WipeRead,
        WipeRevoke, WipeRemoveAll, ReadState, KeyStep, InsertKey, RevokeKey, BackupStep,
        BackupMkdir, BackupVacuum
    <3>2. /\ rows'[p] = wk[w].to /\ wk[w].project = p /\ wk[w].pc \in WritePCs
          /\ rows[p] # "none"
      BY <1>3, <2>1, <3>1 DEF RemoveWrite, PatchWrite, WipeWrite, WriteState, Acts, At, TypeOK,
        WritePCs
    <3>3. CanTransitionTo(rows[p], rows'[p])
      BY <1>1, <3>2 DEF Current, ChangePCs, TargetsAllowed, WritePCs
    <3>4. rows[p] = "creating"
      BY <1>3, <3>2, <3>3 DEF CanTransitionTo
    <3>5. ~Creating(p)
      BY <3>2, <2>1, SelfMoves DEF Creating, CreatorAlone, CreatePCs, WritePCs
    <3>. QED BY <1>1, <3>4, <3>5 DEF RollbackSucceeds, Orphan
  <2>. QED BY <2>2, <2>3, <2>4
<1>. QED BY <1>2, <1>3

LEMMA WaitingInvariant == Spec /\ []Untied => []WaitingInv
<1>1. Init => Alone /\ Current /\ StaysRevoked /\ ListedHasDatabase
  BY DEF Init, Idle, Alone, Current, StaysRevoked, ListedHasDatabase, ChangePCs
<1>2. FailureInv /\ Alone /\ Current /\ StaysRevoked /\ ListedHasDatabase /\ [Next]_vars
        => Alone' /\ Current' /\ StaysRevoked' /\ ListedHasDatabase'
  <2>. SUFFICES ASSUME FailureInv, Alone, Current, StaysRevoked, ListedHasDatabase, [Next]_vars
                PROVE  Alone' /\ Current' /\ StaysRevoked' /\ ListedHasDatabase'
    OBVIOUS
  <2>1. CASE Next
    BY <2>1, AloneStep, CurrentStep, StaysRevokedStep, ListedHasDatabaseStep
    DEF FailureInv, CreateInv
  <2>2. CASE UNCHANGED vars
    BY <2>2 DEF vars, history, Alone, Current, StaysRevoked, ListedHasDatabase, Active
  <2>. QED BY <2>1, <2>2
<1>3. FailureInv /\ Alone /\ Current /\ StaysRevoked /\ ListedHasDatabase => WaitingInv
  BY DEF WaitingInv
<1>. QED
  BY <1>1, <1>2, <1>3, FailureInvariant, PTL DEF Spec

(* Every change of state of a project is one the table allows, if the      *)
(* project has never had two requests at once: the two statements of a     *)
(* handler are as good as one.  AllowedTransitions, which the run          *)
(* lifecycle_race violates, lacks the condition.                           *)
THEOREM AllowedTransitionsIfWaiting ==
  Spec /\ []Untied => [][\A p \in Projects \ contended :
                           Changes(p) => CanTransitionTo(rows[p], rows'[p])]_vars
<1>. DEFINE Step == \A p \in Projects \ contended :
                      Changes(p) => CanTransitionTo(rows[p], rows'[p])
<1>1. WaitingInv /\ [Next]_vars => [Step]_vars
  BY ChangesAllowed DEF WaitingInv, FailureInv
<1>. QED
  BY <1>1, WaitingInvariant, PTL DEF Spec

(* A wipe that completes leaves no active key, if the project has never    *)
(* had two requests at once.                                               *)
THEOREM WipeLeavesNoKeysAlways == Spec /\ []Untied => WipeLeavesNoKeys
<1>. DEFINE Step == \A p \in Projects \ contended : rows'[p] = "wiped" /\ rows[p] # "wiped" =>
                      \A k \in Keys : keys'[k].project = p => keys'[k].status # "active"
<1>1. WaitingInv /\ [Next]_vars => [Step]_vars
  <2>. SUFFICES ASSUME WaitingInv, Next, NEW p \in Projects \ contended, rows'[p] = "wiped",
                       rows[p] # "wiped", NEW k \in Keys, keys'[k].project = p
                PROVE  keys'[k].status # "active"
    OBVIOUS
  <2>. USE DEF WaitingInv, FailureInv, CreateInv, KeyInv
  <2>1. PICK w \in Workers : Moves(w) /\ Acts(w, p)
    BY OnlyOwnProject DEF Touches
  <2>2. ~CreateStep(w) /\ ~BackupStep(w)
    BY DEF CreateStep, AddProject, MkdirProject, CreateBlankDatabase, MkdirMigrations,
      Activate, RollbackDir, RollbackRow, FailCreate, BackupStep, BackupMkdir, BackupVacuum,
      TypeOK
  <2>3. RemoveWrite(w) \/ PatchWrite(w) \/ WipeWrite(w)
    BY <2>1, <2>2 DEF Moves, StateStep, RemoveRead, PatchRename, PatchRead, WipeRead,
      WipeRevoke, WipeRemoveAll, ReadState, KeyStep, InsertKey, RevokeKey
  <2>4. /\ wk[w].to = "wiped" /\ wk[w].project = p /\ UNCHANGED keys
        /\ wk[w].pc \in {"RemoveWrite", "PatchWrite", "WipeWrite"}
    BY <2>1, <2>3 DEF RemoveWrite, PatchWrite, WipeWrite, WriteState, TypeOK, Acts, At
  <2>5. wk[w].pc = "WipeWrite"
    BY <2>4 DEF TargetsAllowed, PatchTargets
  <2>. QED BY <2>4, <2>5 DEF StaysRevoked, Active
<1>. QED
  BY <1>1, WaitingInvariant, PTL DEF Spec, WipeLeavesNoKeys

(* A listed project that has never had two requests at once has its        *)
(* database, if nothing crashes and no more than one call fails.           *)
THEOREM ListedHasDatabaseAlways == Spec /\ []Untied => []ListedHasDatabase
<1>1. WaitingInv => ListedHasDatabase
  BY DEF WaitingInv
<1>. QED
  BY <1>1, WaitingInvariant, PTL

(* A completed project that has never had two requests at once disappears  *)
(* only by being wiped, whatever fails and crashes.  CreatedIsNotUndone,   *)
(* which the run slug_tie violates, lacks the condition.                   *)
THEOREM CreatedIsNotUndoneIfWaiting ==
  Spec /\ []Untied =>
    [][\A p \in Projects \ contended : rows[p] \in {"inactive", "active"} =>
         rows'[p] # "none" /\ ("database.db" \in disk[p] => "database.db" \in disk'[p])]_vars
<1>. DEFINE Step == \A p \in Projects \ contended : rows[p] \in {"inactive", "active"} =>
       rows'[p] # "none" /\ ("database.db" \in disk[p] => "database.db" \in disk'[p])
<1>1. WaitingInv /\ [Next]_vars => [Step]_vars
  BY InUseStays DEF WaitingInv, FailureInv, vars
<1>. QED
  BY <1>1, WaitingInvariant, PTL DEF Spec
=============================================================================
