------------------------------ MODULE ProjectData ------------------------------
(***************************************************************************)
(* The data plane of one project: its directory (database.db, its -wal     *)
(* file, backups/) and everything that opens or replaces those files: SQL  *)
(* requests, the stats and schema reads, manual backups, restores, the     *)
(* backup scheduler, and the wipe.  A file-system call or an SQL statement *)
(* is one step.  Requests that use the project lock do so through          *)
(* ReadersWriterLock, which ProjectLock implements; a refused request has  *)
(* no effect and is left out.                                              *)
(*                                                                         *)
(* The content of a database is the number of its last commit, Torn (the   *)
(* copy of a backup that was still Partial) or Mixed (a -wal replayed over *)
(* a file it does not belong to).  SQLite is external: a commit goes to the  *)
(* -wal; the last connection to a file to close copies the -wal into it    *)
(* and removes it, unless the file is not the one at that path any more;   *)
(* a connection sees the -wal that was there when it opened.               *)
(*                                                                         *)
(* An operator that stands right before another one and differs from it by *)
(* a suffix (Unlocked, Early...) is that definition with a bug.            *)
(***************************************************************************)
EXTENDS Naturals, FiniteSets

CONSTANTS
  Workers,     \* the requests in flight at once
  Scheduler,   \* the goroutine of backup.Scheduler
  Names,       \* the names of backup files, in the order of sort.Strings
  MaxGen,      \* SDB_BACKUP_MAX_GEN
  None,        \* no such file, no name
  Partial,     \* a backup that VACUUM has not finished
  Torn,        \* a copy of such a backup
  Mixed,       \* a -wal over the wrong file
  MaxCommits,  \* bound: commits
  MaxAccidents \* bound: crashes of the process and calls that fail (two in one
               \* step may go one beyond it)

ASSUME DataAssumption ==
  /\ Scheduler \notin Workers
  /\ Names \subseteq Nat /\ IsFiniteSet(Names)
  /\ MaxGen \in Nat
  /\ MaxCommits \in Nat /\ MaxAccidents \in Nat
  /\ {None, Partial, Torn, Mixed} \cap Nat = {}
  /\ None \notin {Partial, Torn, Mixed} /\ Partial \notin {Torn, Mixed} /\ Torn # Mixed

VARIABLES
  row,       \* projects.state of the project
  dir,       \* the project directory exists
  db,        \* database.db
  wal,       \* database.db-wal
  backups,   \* the files of backups/
  victims,   \* what PruneBackups has still to remove
  readers,   \* who has the project shared
  writers,   \* who has it exclusively
  act,       \* the local state of each request, and of the scheduler
  commits,   \* commits so far
  expected,  \* what the acknowledged commits and restores add up to
  exposed,   \* a restore ran into one of the accidents it does not handle
  faults, crashes

files == <<dir, db, wal, backups>>
locks == <<readers, writers>>
history == <<commits, expected, exposed>>
bounds == <<faults, crashes>>
vars == <<row, files, victims, locks, act, history, bounds>>

Actors == Workers \cup {Scheduler}

L == INSTANCE ReadersWriterLock WITH Holders <- Workers

-----------------------------------------------------------------------------
(* Values. *)

Contents == (0..MaxCommits) \cup {Torn, Mixed}

Ops == {"none", "sql", "stats", "backup", "restore", "wipe", "auto"}

PCs == {"idle", "Open", "Run", "Mkdir", "Vacuum", "VacuumEnd", "Close", "Release",
        "Copy", "Rename", "RemoveWal", "RemoveAll", "MarkWiped", "PruneList",
        "PruneRemove"}

\* conn: "old" is a connection to a file that is no longer at its path; own:
\* the -wal of a connection from which it was removed; name: the backup that
\* is written or restored; snap: what is copied.
Locals == [op: Ops, pc: PCs, conn: {"none", "cur", "old"}, own: Contents \cup {None},
           name: Names \cup {None}, snap: Contents \cup {None}]

Idle == [op |-> "none", pc |-> "idle", conn |-> "none", own |-> None, name |-> None,
         snap |-> None]

(* The values the variables have: a restore replaces the database by the   *)
(* content of a file that was there.                                       *)
TypeOK ==
  /\ row \in {"active", "deleted", "wiped"}
  /\ dir \in BOOLEAN
  /\ db \in Contents \cup {None}
  /\ wal \in Contents \cup {None}
  /\ backups \in [Names -> Contents \cup {None, Partial}]
  /\ victims \subseteq Names
  /\ L!TypeOK
  /\ act \in [Actors -> Locals]
  /\ commits \in 0..MaxCommits
  /\ expected \in Contents
  /\ exposed \in BOOLEAN
  /\ faults \in 0..(MaxAccidents + 1) /\ crashes \in 0..MaxAccidents

Init ==
  /\ row = "active"
  /\ dir = TRUE /\ db = 0 /\ wal = None
  /\ backups = [n \in Names |-> None]
  /\ victims = {}
  /\ L!Init
  /\ act = [a \in Actors |-> Idle]
  /\ commits = 0 /\ expected = 0 /\ exposed = FALSE
  /\ faults = 0 /\ crashes = 0

-----------------------------------------------------------------------------
At(a, pc) == act[a].pc = pc
Goto(a, pc) == act' = [act EXCEPT ![a].pc = pc]
Return(a) == act' = [act EXCEPT ![a] = Idle]

Begin(a, op, pc) ==
  /\ At(a, "idle")
  /\ act' = [act EXCEPT ![a].op = op, ![a].pc = pc]
  /\ UNCHANGED <<row, files, victims, history, bounds>>

Accident == faults + crashes < MaxAccidents
Fault == Accident /\ faults' = faults + 1

\* What a connection opened now sees.
Visible == IF wal # None THEN wal ELSE db

\* Between the rename and the removal of the -wal of a restore.
InWindow == \E a \in Actors : At(a, "RemoveWal")

\* A new connection, and what the caller is then (r): SQLite creates the file
\* in a directory that exists.
Connect(a, r) ==
  /\ dir
  /\ db' = IF db = None THEN 0 ELSE db
  /\ exposed' = (exposed \/ (InWindow /\ wal # None))
  /\ act' = [act EXCEPT ![a] = [r EXCEPT !.conn = "cur"]]
  /\ UNCHANGED <<commits, expected>>

LastConnection(a) ==
  act[a].conn = "cur" /\ \A b \in Actors \ {a} : act[b].conn # "cur"

Closed(a) ==
  LET left == [act[a] EXCEPT !.conn = "none", !.own = None, !.snap = None] IN
  CASE left.op \in {"sql", "backup"} -> [left EXCEPT !.pc = "Release"]
    [] left.op = "auto" /\ left.name # None -> [left EXCEPT !.pc = "PruneList"]
    [] OTHER -> Idle

\* defer db.Close(), of a connection or after an error that left none.
Close(a) ==
  /\ At(a, "Close")
  /\ IF LastConnection(a)
       THEN /\ db' = IF act[a].own # None THEN act[a].own ELSE Visible
            /\ wal' = None
       ELSE UNCHANGED <<db, wal>>
  /\ act' = [act EXCEPT ![a] = Closed(a)]
  /\ UNCHANGED <<row, dir, backups, victims, locks, history, bounds>>

\* defer release().
Release(w) ==
  /\ At(w, "Release")
  /\ L!ReadUnlock(w) \/ L!WriteUnlock(w)
  /\ Return(w)
  /\ UNCHANGED <<row, files, victims, history, bounds>>

-----------------------------------------------------------------------------
(* SQL: ExecuteSQLHandler with project.Query or project.Execute. *)

BeginSQLUnlocked(w) == Begin(w, "sql", "Open") /\ UNCHANGED locks
BeginSQL(w) == Begin(w, "sql", "Open") /\ L!TryReadLock(w)

\* The stats, tables and schema handlers take no lock.
BeginStats(w) == Begin(w, "stats", "Open") /\ UNCHANGED locks

Open(a) ==
  /\ At(a, "Open")
  /\ \/ Connect(a, [act[a] EXCEPT !.pc = IF act[a].op = "sql" THEN "Run" ELSE "Close"])
     \/ ~dir /\ Goto(a, "Close") /\ UNCHANGED <<db, history>>
  /\ UNCHANGED <<row, dir, wal, backups, victims, locks, bounds>>

\* Each statement of the request commits on its own.  A damaged file takes no
\* commit; one that was removed takes it to no effect.
Commit(w) ==
  /\ At(w, "Run")
  /\ commits < MaxCommits
  /\ act[w].conn = "cur" /\ Visible \in Nat
  /\ wal' = commits + 1
  /\ commits' = commits + 1
  /\ expected' = commits + 1
  /\ UNCHANGED <<row, dir, db, backups, victims, locks, act, exposed, bounds>>

\* The last statement is done, one failed, or the query timed out.
Finish(w) == At(w, "Run") /\ Goto(w, "Close")
             /\ UNCHANGED <<row, files, victims, locks, history, bounds>>

-----------------------------------------------------------------------------
(* CreateBackup, for BackupHandler and for the scheduler. *)

BeginBackup(w) == Begin(w, "backup", "Mkdir") /\ L!TryReadLock(w)

\* MkdirAll(backups), and a name made of the time and a random suffix (so in
\* any order); the pool of names is a bound.
FreeNamesNoSuffix == {n \in Names : backups[n] = None}
FreeNames == {n \in Names : backups[n] = None /\ \A b \in Actors : act[b].name # n}

Mkdir(a) ==
  /\ At(a, "Mkdir")
  /\ \/ /\ dir' = TRUE
        /\ \E n \in FreeNames : act' = [act EXCEPT ![a].pc = "Vacuum", ![a].name = n]
     \/ FreeNames = {} /\ Goto(a, "Close") /\ UNCHANGED dir
  /\ UNCHANGED <<row, db, wal, backups, victims, locks, history, bounds>>

\* VACUUM INTO opens the database, takes its snapshot and creates the target.
Vacuum(a) ==
  LET n == act[a].name IN
  /\ At(a, "Vacuum")
  /\ \/ /\ Connect(a, [act[a] EXCEPT !.pc = "VacuumEnd",
                                    !.snap = IF Visible = None THEN 0 ELSE Visible])
        /\ backups' = [backups EXCEPT ![n] = Partial]
     \/ /\ ~dir
        /\ act' = [act EXCEPT ![a].pc = "Close", ![a].name = None]
        /\ UNCHANGED <<db, backups, history>>
  /\ UNCHANGED <<row, dir, wal, victims, locks, bounds>>

\* The target may have been removed while it was written.  On an error
\* CreateBackup removes what is there of it, which can fail as well: then it
\* stays, and the error of os.Remove is ignored.
VacuumEndKept(a) ==
  LET n == act[a].name IN
  /\ At(a, "VacuumEnd")
  /\ \/ /\ backups' = [backups EXCEPT ![n] = IF @ = None THEN None ELSE act[a].snap]
        /\ act' = [act EXCEPT ![a].pc = "Close", ![a].snap = None]
        /\ UNCHANGED faults
     \/ /\ Fault
        /\ act' = [act EXCEPT ![a].pc = "Close", ![a].name = None]
        /\ UNCHANGED backups
  /\ UNCHANGED <<row, dir, db, wal, victims, locks, history, crashes>>
VacuumEnd(a) ==
  LET n == act[a].name IN
  /\ At(a, "VacuumEnd")
  /\ \/ /\ backups' = [backups EXCEPT ![n] = IF @ = None THEN None ELSE act[a].snap]
        /\ act' = [act EXCEPT ![a].pc = "Close", ![a].snap = None]
        /\ UNCHANGED faults
     \/ /\ Fault
        /\ backups' = [backups EXCEPT ![n] = None]
        /\ act' = [act EXCEPT ![a].pc = "Close", ![a].name = None]
     \/ /\ Accident /\ faults' = faults + 2
        /\ act' = [act EXCEPT ![a].pc = "Close", ![a].name = None]
        /\ UNCHANGED backups
  /\ UNCHANGED <<row, dir, db, wal, victims, locks, history, crashes>>

-----------------------------------------------------------------------------
(* The scheduler: projectIDs() lists the active projects, then each one is *)
(* backed up and pruned, without the project lock.                         *)

Tick == row = "active" /\ Begin(Scheduler, "auto", "Mkdir") /\ UNCHANGED locks

\* ReadDir, sort.Strings, and all but the last MaxGen names.
OldestOffByOne(names, keep) ==
  {n \in names : Cardinality({m \in names : m >= n}) >= keep}
Oldest(names, keep) ==
  {n \in names : Cardinality({m \in names : m > n}) >= keep}

PruneList ==
  /\ At(Scheduler, "PruneList")
  /\ victims' = Oldest({n \in Names : backups[n] # None}, MaxGen)
  /\ Goto(Scheduler, "PruneRemove")
  /\ UNCHANGED <<row, files, locks, history, bounds>>

\* One os.Remove; an error, as of a file that is gone already, ends it.
PruneRemove ==
  /\ At(Scheduler, "PruneRemove")
  /\ \/ \E n \in victims :
          /\ \A m \in victims : n <= m
          /\ \/ /\ backups[n] # None
                /\ backups' = [backups EXCEPT ![n] = None]
                /\ victims' = victims \ {n}
                /\ UNCHANGED <<act, faults>>
             \/ /\ \/ backups[n] = None /\ UNCHANGED faults
                   \/ Fault
                /\ victims' = {}
                /\ Return(Scheduler)
                /\ UNCHANGED backups
     \/ victims = {} /\ Return(Scheduler) /\ UNCHANGED <<backups, victims, faults>>
  /\ UNCHANGED <<row, dir, db, wal, locks, history, crashes>>

-----------------------------------------------------------------------------
(* RestoreHandler and RestoreBackup.  Any file in backups/ can be named.   *)

BeginRestore(w) == Begin(w, "restore", "Copy") /\ L!TryWriteLock(w)

CopyUnchecked(w) ==
  /\ At(w, "Copy")
  /\ \E n \in Names :
       act' = [act EXCEPT ![w].pc = "Rename",
            ![w].snap = IF backups[n] = Partial THEN Torn ELSE backups[n]]
  /\ UNCHANGED <<row, files, victims, locks, history, bounds>>
\* Stat, and the copy to database.db.restoring (which a failure leaves there,
\* for the next restore to overwrite).
Copy(w) ==
  /\ At(w, "Copy")
  /\ \/ \E n \in Names :
          /\ backups[n] # None
          /\ act' = [act EXCEPT ![w].pc = "Rename",
               ![w].snap = IF backups[n] = Partial THEN Torn ELSE backups[n]]
          /\ UNCHANGED faults
     \/ Goto(w, "Release") /\ UNCHANGED faults  \* no such backup
     \/ Fault /\ Goto(w, "Release")
  /\ UNCHANGED <<row, files, victims, locks, history, crashes>>

\* The connections that are open keep the old file.
Detached == [b \in Actors |-> IF act[b].conn = "cur" THEN [act[b] EXCEPT !.conn = "old"]
                                                     ELSE act[b]]

Rename(w) ==
  /\ At(w, "Rename")
  /\ \/ /\ dir
        /\ db' = act[w].snap
        /\ wal' = IF wal = None THEN None ELSE Mixed
        /\ expected' = act[w].snap
        /\ act' = [Detached EXCEPT ![w].pc = "RemoveWal", ![w].snap = None]
        /\ UNCHANGED faults
     \/ ~dir /\ Goto(w, "Release") /\ UNCHANGED <<db, wal, expected, faults>>
     \/ Fault /\ Goto(w, "Release") /\ UNCHANGED <<db, wal, expected>>
  /\ UNCHANGED <<row, dir, backups, victims, locks, commits, exposed, crashes>>

\* removeIfExists of -wal, and of -shm, which SQLite can rebuild.
RemoveWalSkipped(w) ==
  /\ At(w, "RemoveWal")
  /\ Goto(w, "Release")
  /\ UNCHANGED <<row, files, victims, locks, history, bounds>>
RemoveWal(w) ==
  /\ At(w, "RemoveWal")
  /\ \/ /\ wal' = None
        /\ act' = [b \in Actors |->
             IF b = w THEN [act[b] EXCEPT !.pc = "Release"]
             ELSE IF act[b].conn = "cur" THEN [act[b] EXCEPT !.own = wal]
             ELSE act[b]]
        /\ UNCHANGED <<exposed, faults>>
     \/ /\ Fault
        /\ Goto(w, "Release")
        /\ exposed' = (exposed \/ wal # None)
        /\ UNCHANGED wal
  /\ UNCHANGED <<row, dir, db, backups, victims, locks, commits, expected,
                 crashes>>

-----------------------------------------------------------------------------
(* DELETE, whose steps are in ProjectLifecycle, and wipe: no project lock. *)

Delete ==
  /\ row = "active"
  /\ row' = "deleted"
  /\ UNCHANGED <<files, victims, locks, act, history, bounds>>

BeginWipe(w) == row = "deleted" /\ Begin(w, "wipe", "RemoveAll") /\ UNCHANGED locks

\* A failure leaves the directory and some of what is in it.
RemoveAll(w) ==
  /\ At(w, "RemoveAll")
  /\ wal' = None
  /\ \/ /\ dir' = FALSE /\ db' = None
        /\ backups' = [n \in Names |-> None]
        /\ act' = [Detached EXCEPT ![w].pc = "MarkWiped"]
        /\ UNCHANGED faults
     \/ /\ dir /\ Fault
        /\ db' = None
        /\ act' = [Detached EXCEPT ![w] = Idle]
        /\ UNCHANGED <<dir, backups>>
  /\ UNCHANGED <<row, victims, locks, history, crashes>>

MarkWiped(w) ==
  /\ At(w, "MarkWiped")
  /\ \/ row' = "wiped" /\ UNCHANGED faults
     \/ Fault /\ UNCHANGED row
  /\ Return(w)
  /\ UNCHANGED <<files, victims, locks, history, crashes>>

-----------------------------------------------------------------------------
\* The process dies and is started again: the locks were in its memory.
Crash ==
  /\ Accident
  /\ crashes' = crashes + 1
  /\ act' = [a \in Actors |-> Idle]
  /\ victims' = {}
  /\ readers' = {} /\ writers' = {}
  /\ exposed' = (exposed \/ (InWindow /\ wal # None))
  /\ UNCHANGED <<row, files, commits, expected, faults>>

Arrive(w) ==
  \/ BeginSQL(w) \/ BeginStats(w) \/ BeginBackup(w) \/ BeginRestore(w) \/ BeginWipe(w)

Step(a) ==
  \/ Open(a) \/ Mkdir(a) \/ Vacuum(a) \/ VacuumEnd(a) \/ Close(a)
  \/ a \in Workers /\ (\/ Commit(a) \/ Finish(a) \/ Release(a)
                       \/ Copy(a) \/ Rename(a) \/ RemoveWal(a)
                       \/ RemoveAll(a) \/ MarkWiped(a))
  \/ a = Scheduler /\ (PruneList \/ PruneRemove)

Next ==
  \/ \E w \in Workers : Arrive(w)
  \/ \E a \in Actors : Step(a)
  \/ Tick
  \/ Delete
  \/ Crash

Spec == Init /\ [][Next]_vars

-----------------------------------------------------------------------------
(* Properties. *)

(* While a restore replaces the files, no SQL request and no backup        *)
(* request has the database open: they hold the shared lock until their    *)
(* connection is closed, and the restore holds the exclusive one.          *)
RestoreExclusive ==
  (\E w \in Workers : act[w].pc \in {"Copy", "Rename", "RemoveWal"}) =>
    \A w \in Workers : act[w].op \in {"sql", "backup"} => act[w].conn = "none"

(* Of an active project a new connection sees the last acknowledged commit *)
(* or restore, after crashes too, unless a restore was exposed: cut short  *)
(* by a crash or failure before the stale -wal was gone, or joined by an   *)
(* unlocked connection that opened that -wal.                              *)
NothingLost == row = "active" /\ ~InWindow /\ ~exposed => Visible = expected

(* Retention never takes the backups of an active project below MaxGen     *)
(* files, whatever backups start and end between its ReadDir and its       *)
(* removals; a backup that fails after the ReadDir is what can.            *)
RetentionStep ==
  row = "active" /\ faults = 0 /\ PruneRemove =>
    backups' = backups \/ Cardinality({n \in Names : backups'[n] # None}) >= MaxGen
RetentionFloor == [][RetentionStep]_vars

(* What leaves an unfinished backup that nobody is writing is a crash, or  *)
(* a VACUUM that fails and then a removal that fails too: one failure      *)
(* alone, of whatever call, never does.                                    *)
NoAbandonedPartial ==
  crashes = 0 /\ faults <= 1 =>
    \A n \in Names : backups[n] = Partial =>
      \E a \in Actors : act[a].name = n

(* The project implements BackedUpDatabase while it is active and no       *)
(* restore was exposed: whatever requests, the scheduler, failures and     *)
(* crashes do, commits and restores take effect in one step each, a backup *)
(* is the state of the moment it was started in, and once finished it does *)
(* not change until it is removed.                                         *)
Value == IF row # "active" \/ exposed THEN None ELSE IF InWindow THEN db ELSE Visible
Copied == [a \in Actors |-> IF act[a].op = "restore" THEN None ELSE act[a].snap]
Fetched == [a \in Actors |-> IF act[a].op = "restore" THEN act[a].snap ELSE None]
Store == INSTANCE BackedUpDatabase WITH value <- Value, latest <- commits, saved <- backups,
                                        copied <- Copied, fetched <- Fetched
ImplementsBackedUpDatabase == Store!Spec

(* restore.go:44: under the exclusive lock nothing can be holding the      *)
(* database files open when the restore removes the -wal.                  *)
NothingHoldsTheFiles == InWindow => \A a \in Actors : act[a].conn = "none"

(* docs/usecases.csv UC41: a restore replaces the database atomically:     *)
(* whatever happens, it is never a mixture of the old and the new one.     *)
ReplacedAtomically == ~InWindow => Visible # Mixed

(* docs/api.md:135: when a wipe completes the directory is gone.           *)
WipeStep == row # "wiped" /\ row' = "wiped" => ~dir'
WipeRemovesDirectory == [][WipeStep]_vars
=============================================================================
