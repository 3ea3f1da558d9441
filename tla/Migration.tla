------------------------------ MODULE Migration ------------------------------
(***************************************************************************)
(* Migrate of internal/sqlite/migration.go: several callers take one       *)
(* database up or down, while the files of migrations/ change, calls fail  *)
(* and the process crashes. No handler calls it, and it takes no lock but  *)
(* those of SQLite.                                                        *)
(*                                                                         *)
(* SQLite is external: one transaction at a time writes, readers see what  *)
(* is committed, a writer that waited for the lock sees the newest state   *)
(* or fails, and a failed COMMIT commits nothing.                          *)
(*                                                                         *)
(* A version is its place in the order of the texts, so < is the order of  *)
(* strings; Number is what Atoi makes of its leading digits. An operator   *)
(* that stands right before another one and differs from it by a suffix is *)
(* that definition with a bug.                                             *)
(***************************************************************************)
EXTENDS Integers, Sequences, FiniteSets, SequencesExt

CONSTANTS
  Callers,    \* who calls Migrate
  Versions,   \* the versions that files have had
  Number,     \* the number each version begins with
  NoDigits,   \* the version does not begin with a digit
  TooLarge,   \* the digits do not fit an int
  Disks,      \* what migrations/ can hold: sets of <<version, kind>>
  MaxTime,    \* bound: the seconds that the clock of the model shows
  MaxRedone,  \* bound: how many times a version is taken down once more
  NotApplied, \* no row for the version
  NoVersion,
  NoCaller

Kinds == {"plain", "up", "down"}

Numbered(v) == Number[v] \notin {NoDigits, TooLarge}

\* A text without leading digits is smaller or greater than every text with some.
ASSUME MigrationAssumption ==
  /\ Versions \subseteq Int /\ IsFiniteSet(Versions)
  /\ Number \in [Versions -> Nat \cup {NoDigits, TooLarge}]
  /\ NoDigits \notin Nat /\ TooLarge \notin Nat
  /\ \A u, v, w \in Versions :
       u < v /\ v < w /\ Number[v] = NoDigits => NoDigits \in {Number[u], Number[w]}
  /\ Disks \subseteq SUBSET (Versions \X Kinds)
  /\ MaxTime \in Nat /\ MaxRedone \in Nat
  /\ NotApplied \notin Nat
  /\ NoVersion \notin Versions
  /\ NoCaller \notin Callers

VARIABLES
  disk,      \* the files in migrations/
  clock,     \* CURRENT_TIMESTAMP, in seconds
  db,        \* the database: __migrations, and what the migrations made of the schema
  tx,        \* the same as the open write transaction sees it
  writer,    \* who has that transaction
  pc,        \* the next step of a caller
  call,      \* the migrationType it was called with
  loaded,    \* the files that LoadMigration found
  todo,      \* the versions that ApplyMigration has still to look at
  version,   \* the version that executeMigration is at
  order,     \* history: the versions applied, in the order of their commits
  redone,    \* history: how many times a version was taken down that had no row any more
  overtaken  \* history: the callers whose view another caller's commit has changed

history == <<order, redone>>
database == <<db, tx, writer, history>>
locals == <<call, loaded, todo, version>>
vars == <<disk, clock, database, pc, locals, overtaken>>

-----------------------------------------------------------------------------
DB == [rows: [Versions -> Nat \cup {NotApplied}], schema: [Versions -> Int]]

(* The values the variables have; in particular executeMigration always    *)
(* has a version.                                                          *)
TypeOK ==
  /\ disk \in Disks
  /\ clock \in 0..MaxTime
  /\ db \in DB /\ tx \in DB
  /\ writer \in Callers \cup {NoCaller}
  /\ pc \in [Callers -> {"idle", "isMigrationApplied", "getFinal", "ReadFile", "Exec",
                         "Record", "Commit"}]
  /\ call \in [Callers -> {"up", "down"}]
  /\ loaded \in [Callers -> Disks \cup {{}}]
  /\ todo \in [Callers -> Seq(Versions)]
  /\ version \in [Callers -> Versions \cup {NoVersion}]
  /\ \A c \in Callers :
       pc[c] \in {"ReadFile", "Exec", "Record", "Commit"} <=> version[c] \in Versions
  /\ order \in Seq(Versions)
  /\ redone \in [Versions -> Nat]
  /\ overtaken \subseteq Callers

Init ==
  /\ disk \in Disks
  /\ clock = 0
  /\ db = [rows |-> [v \in Versions |-> NotApplied], schema |-> [v \in Versions |-> 0]]
  /\ tx = db
  /\ writer = NoCaller
  /\ pc = [c \in Callers |-> "idle"]
  /\ call = [c \in Callers |-> "up"]
  /\ loaded = [c \in Callers |-> {}]
  /\ todo = [c \in Callers |-> <<>>]
  /\ version = [c \in Callers |-> NoVersion]
  /\ order = <<>>
  /\ redone = [v \in Versions |-> 0]
  /\ overtaken = {}

Recorded == {v \in Versions : db.rows[v] # NotApplied}

-----------------------------------------------------------------------------
(* The order of versions, and the files of a version. *)

\* The less function of sort.Slice.
BeforeText(u, v) == u < v
Before(u, v) ==
  IF Numbered(u) /\ Numbered(v) /\ Number[u] # Number[v]
    THEN Number[u] < Number[v]
    ELSE u < v

\* sort.Slice of what a map holds: no element is less than the one before it.
SortedLists(S) ==
  {s \in SetToSeqs(S) : \A i \in 2..Len(s) : ~Before(s[i], s[i - 1])}

VersionsOf(files) == {file[1] : file \in files}

\* UpFile: ReadDir lists v.sql before v.up.sql, and the last one stays. Without
\* either it is the empty name, which stands for the directory.
UpFile(files, v) ==
  CASE <<v, "up">> \in files                                 -> <<v, "up">>
    [] <<v, "up">> \notin files /\ <<v, "plain">> \in files   -> <<v, "plain">>
    [] OTHER                                                 -> <<v, "directory">>

\* The version with the latest applied_at, and of several the one with the greatest text.
FinalByText(v) ==
  v \in Recorded /\ \A u \in Recorded : u <= v
Final(v) ==
  /\ v \in Recorded
  /\ \A u \in Recorded :
       db.rows[u] < db.rows[v] \/ (db.rows[u] = db.rows[v] /\ u <= v)

-----------------------------------------------------------------------------
Goto(c, step) == pc' = [pc EXCEPT ![c] = step]

Forget(c) ==
  /\ Goto(c, "idle")
  /\ call' = [call EXCEPT ![c] = "up"]
  /\ loaded' = [loaded EXCEPT ![c] = {}]
  /\ todo' = [todo EXCEPT ![c] = <<>>]
  /\ version' = [version EXCEPT ![c] = NoVersion]

\* Migrate returns, with or without an error.
Return(c) == Forget(c) /\ overtaken' = overtaken \ {c}

\* LoadMigration. A call that fails here leaves nothing behind.
Migrate(c, type) ==
  /\ pc[c] = "idle"
  /\ call' = [call EXCEPT ![c] = type]
  /\ loaded' = [loaded EXCEPT ![c] = disk]
  /\ \/ /\ type = "up"
        /\ \E list \in SortedLists(VersionsOf(disk)) : todo' = [todo EXCEPT ![c] = list]
        /\ Goto(c, "isMigrationApplied")
     \/ type = "down" /\ Goto(c, "getFinal") /\ UNCHANGED todo
  /\ UNCHANGED <<disk, clock, database, version, overtaken>>

\* ApplyMigration looks at the next version of its list, or is done; a query that
\* fails ends it.
NextVersion(c) ==
  /\ pc[c] = "isMigrationApplied" /\ todo[c] # <<>>
  /\ \/ Return(c)
     \/ /\ todo' = [todo EXCEPT ![c] = Tail(@)]
        /\ \/ Head(todo[c]) \in Recorded /\ UNCHANGED <<pc, version>>
           \/ /\ Head(todo[c]) \notin Recorded
              /\ version' = [version EXCEPT ![c] = Head(todo[c])]
              /\ Goto(c, "ReadFile")
        /\ UNCHANGED <<call, loaded, overtaken>>
  /\ UNCHANGED <<disk, clock, database>>

UpDone(c) ==
  /\ pc[c] = "isMigrationApplied" /\ todo[c] = <<>>
  /\ Return(c)
  /\ UNCHANGED <<disk, clock, database>>

\* getFinalMigrationAppliedVersion, and the version must have a down file; without
\* either, or when the query fails, Down returns.
GetFinalUnchecked(c) ==
  /\ pc[c] = "getFinal"
  /\ version' = [version EXCEPT ![c] = IF Recorded = {} THEN NoVersion
                                        ELSE CHOOSE v \in Versions : Final(v)]
  /\ Goto(c, "ReadFile")
  /\ UNCHANGED <<disk, clock, database, call, loaded, todo, overtaken>>
GetFinal(c) ==
  /\ pc[c] = "getFinal"
  /\ \/ \E v \in Versions :
          /\ Final(v) /\ <<v, "down">> \in loaded[c]
          /\ version' = [version EXCEPT ![c] = v]
          /\ Goto(c, "ReadFile")
          /\ UNCHANGED <<call, loaded, todo, overtaken>>
     \/ Return(c)
  /\ UNCHANGED <<disk, clock, database>>

-----------------------------------------------------------------------------
(* executeMigration. *)

File(c) == IF call[c] = "up" THEN UpFile(loaded[c], version[c]) ELSE <<version[c], "down">>

\* To read a directory fails as a missing file does.
ReadFileOrSkip(c) ==
  /\ pc[c] = "ReadFile"
  /\ Goto(c, IF File(c) \in disk THEN "Exec" ELSE "isMigrationApplied")
  /\ UNCHANGED <<disk, clock, database, locals, overtaken>>
ReadFile(c) ==
  /\ pc[c] = "ReadFile"
  /\ \/ File(c) \in disk /\ Goto(c, "Exec") /\ UNCHANGED <<locals, overtaken>>
     \/ File(c) \notin disk /\ Return(c)
  /\ UNCHANGED <<disk, clock, database>>

\* The SQL of the file, counted: an up file makes its changes once more, a down file
\* takes them back once more, also where there are none.
Ran(schema, c) ==
  [schema EXCEPT ![version[c]] = IF call[c] = "up" THEN @ + 1 ELSE @ - 1]

\* A Down whose version has no row any more.
Redoes(c) == call[c] = "down" /\ version[c] \notin Recorded

Rollback(c) ==
  /\ writer' = NoCaller
  /\ tx' = db
  /\ Return(c)
  /\ UNCHANGED <<db, history>>

\* Begin and the SQL of the file; an error, as a busy database is, rolls back.
ExecOutsideTx(c) ==
  /\ pc[c] = "Exec"
  /\ \/ /\ writer = NoCaller /\ writer' = c
        /\ Redoes(c) => \A v \in Versions : redone[v] < MaxRedone
        /\ db' = [db EXCEPT !.schema = Ran(@, c)]
        /\ tx' = db'
        /\ Goto(c, "Record")
        /\ UNCHANGED <<history, locals, overtaken>>
     \/ Return(c) /\ UNCHANGED database
  /\ UNCHANGED <<disk, clock>>
Exec(c) ==
  /\ pc[c] = "Exec"
  /\ \/ /\ writer = NoCaller /\ writer' = c
        /\ Redoes(c) => \A v \in Versions : redone[v] < MaxRedone
        /\ tx' = [db EXCEPT !.schema = Ran(@, c)]
        /\ Goto(c, "Record")
        /\ UNCHANGED <<db, history, locals, overtaken>>
     \/ Return(c) /\ UNCHANGED database
  /\ UNCHANGED <<disk, clock>>

\* version is the primary key of __migrations, which an INSERT must not repeat;
\* a DELETE of no row is no error.
RecordTwice(c) ==
  /\ pc[c] = "Record"
  /\ \/ /\ tx' = [tx EXCEPT !.rows[version[c]] = IF call[c] = "up" THEN clock ELSE NotApplied]
        /\ Goto(c, "Commit")
        /\ UNCHANGED <<db, writer, history, locals, overtaken>>
     \/ Rollback(c)
  /\ UNCHANGED <<disk, clock>>
Record(c) ==
  /\ pc[c] = "Record"
  /\ \/ /\ call[c] = "up" => tx.rows[version[c]] = NotApplied
        /\ tx' = [tx EXCEPT !.rows[version[c]] = IF call[c] = "up" THEN clock ELSE NotApplied]
        /\ Goto(c, "Commit")
        /\ UNCHANGED <<db, writer, history, locals, overtaken>>
     \/ Rollback(c)
  /\ UNCHANGED <<disk, clock>>

\* Whose view a commit of c changes: an Up in progress, if it takes a version down,
\* and a Down that has chosen its version.
Overtakes(c) ==
  {d \in Callers \ {c} :
     \/ call[c] = "down" /\ call[d] = "up" /\ pc[d] # "idle"
     \/ call[d] = "down" /\ pc[d] # "getFinal"}

\* The sequence s, in which v is once or never, without v.
Without(s, v) ==
  IF \A i \in 1..Len(s) : s[i] # v THEN s
  ELSE LET k == CHOOSE i \in 1..Len(s) : s[i] = v
       IN [i \in 1..(Len(s) - 1) |-> IF i < k THEN s[i] ELSE s[i + 1]]

Commit(c) ==
  /\ pc[c] = "Commit"
  /\ \/ /\ db' = tx /\ UNCHANGED tx
        /\ writer' = NoCaller
        /\ \/ /\ call[c] = "up"
              /\ order' = Append(order, version[c])
              /\ version' = [version EXCEPT ![c] = NoVersion]
              /\ Goto(c, "isMigrationApplied")
              /\ overtaken' = overtaken \cup Overtakes(c)
              /\ UNCHANGED <<call, loaded, todo, redone>>
           \/ /\ call[c] = "down"
              /\ order' = Without(order, version[c])
              /\ redone' = IF Redoes(c) THEN [redone EXCEPT ![version[c]] = @ + 1] ELSE redone
              /\ Forget(c)
              /\ overtaken' = (overtaken \cup Overtakes(c)) \ {c}
     \/ Rollback(c)
  /\ UNCHANGED <<disk, clock>>

-----------------------------------------------------------------------------
(* The environment. *)

EditDisk ==
  /\ disk' \in Disks
  /\ UNCHANGED <<clock, database, pc, locals, overtaken>>

\* The clock goes on; that it is set back is left out.
Tick ==
  /\ clock < MaxTime
  /\ clock' = clock + 1
  /\ UNCHANGED <<disk, database, pc, locals, overtaken>>

\* The process dies; what is not committed is gone.
Crash ==
  /\ pc' = [c \in Callers |-> "idle"]
  /\ call' = [c \in Callers |-> "up"]
  /\ loaded' = [c \in Callers |-> {}]
  /\ todo' = [c \in Callers |-> <<>>]
  /\ version' = [c \in Callers |-> NoVersion]
  /\ writer' = NoCaller /\ tx' = db
  /\ overtaken' = {}
  /\ UNCHANGED <<disk, clock, db, history>>

CallStep(c) ==
  \/ Migrate(c, "up") \/ Migrate(c, "down") \/ NextVersion(c) \/ UpDone(c) \/ GetFinal(c)
  \/ ReadFile(c) \/ Exec(c) \/ Record(c) \/ Commit(c)

Next ==
  \/ \E c \in Callers : CallStep(c)
  \/ EditDisk \/ Tick \/ Crash

Spec == Init /\ [][Next]_vars
-----------------------------------------------------------------------------
(* Properties. *)

(* __migrations says which versions are in effect, also after errors and   *)
(* crashes: no up file is in effect twice, when several callers take the   *)
(* same version up at the same time, and a version falls short of its row  *)
(* only by the times that a Down ran the down file again, after another    *)
(* caller had taken the version down: a DELETE of no row is no error.      *)
InEffectAsRecorded ==
  \A v \in Versions :
    db.schema[v] = (IF v \in Recorded THEN 1 ELSE 0) - redone[v]

(* The migrations of the code implement VersionedSchema: each commit is    *)
(* one version taken up, down, or down once more, and nothing else changes *)
(* the database.                                                           *)
Abstract == INSTANCE VersionedSchema WITH schema <- db.schema, recorded <- Recorded
ImplementsVersionedSchema == Abstract!Spec

Applies(c) == pc[c] = "Commit" /\ call[c] = "up" /\ db' = tx /\ pc' # pc
Reverts(c) == pc[c] = "Commit" /\ call[c] = "down" /\ db' = tx /\ db' # db

(* Up applies versions in the order of their numbers: when it commits one, *)
(* those with a smaller number are applied, if no other caller takes       *)
(* versions down meanwhile and no version of the directory has more digits *)
(* than an int holds; one that has makes the order depend on chance.       *)
UpInOrder ==
  [][\A c \in Callers : Applies(c) =>
       \/ c \in overtaken
       \/ \E v \in VersionsOf(loaded[c]) : Number[v] = TooLarge
       \/ \A v \in VersionsOf(loaded[c]) :
            Numbered(v) /\ Numbered(version[c]) /\ Number[v] < Number[version[c]]
              => v \in Recorded]_vars

(* An Up that returns without an error has applied every version it found, *)
(* unless another caller has taken one down.                               *)
UpIsComplete ==
  [][\A c \in Callers : UpDone(c) =>
       c \in overtaken \/ VersionsOf(loaded[c]) \subseteq Recorded]_vars

(* Down takes down the version applied last, and none that is down         *)
(* already, unless another caller came in between: applied_at grows with   *)
(* the order of the commits, because it is read under the write lock. Only *)
(* of versions applied in one second may it be another one, as 9_a is      *)
(* before 10_b.                                                            *)
DownUndoesLast ==
  [][\A c \in Callers : Reverts(c) =>
       \/ c \in overtaken
       \/ order # <<>> /\ version[c] = Last(order)
       \/ order # <<>> /\ db.rows[Last(order)] = db.rows[version[c]]]_vars
=============================================================================
