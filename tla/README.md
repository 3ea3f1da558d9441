# SmartDB in TLA+

SmartDB is an HTTP server that hosts many small SQLite databases, one per
*project*. It keeps a system database with the projects and the API keys, and a
directory for each project with its `database.db`, its backups and its
migrations. This directory holds TLA+ models of it, the TLC runs that check
them, and proofs that TLAPS checks. Paths in this file are relative to the
repository.

1. [The system](#1-the-system)
2. [The modules](#2-the-modules)
3. [What the runs check](#3-what-the-runs-check)
4. [Fairness](#4-fairness)
5. [What is proved](#5-what-is-proved)
6. [Disagreements between the code and its documents](#6-disagreements-between-the-code-and-its-documents)
7. [What is not modelled](#7-what-is-not-modelled)
8. [Plan](#8-plan)

To check everything again, in this directory: `tlc -config X.cfg M` for a run,
`tlapm M.tla` for a module of proofs. `PROJECT.json` ties every definition to
the lines it models, every property to a change of the model that breaks it,
and every hazard to the properties that watch it.

## 1. The system

| Component | State | Operations | Code |
|---|---|---|---|
| Control plane | rows of `projects` and `api_keys`; the project directories | create (with rollback), patch, delete, wipe; issue, revoke; bootstrap of the system key | `internal/api/v1/{projects,wipe,apikeys}.go`, `internal/project/{create,systemdb}.go`, `internal/auth/{store,bootstrap,middleware}.go`, `internal/domain/project.go` |
| Project lock registry | a map from project ids to RWMutexes, a mutex for the map | `TryReadLock`, `TryWriteLock`, release | `internal/domain/lock.go` |
| Data plane | `database.db`, `-wal`, `backups/` of each project; open connections | SQL, stats, tables and schema reads, backup, restore | `internal/project/{operate,stats}.go`, `internal/backup/*.go`, `internal/api/v1/{projects,backup}.go` |
| Backup scheduler | one goroutine with a ticker | back up and prune every active project | `internal/backup/{scheduler,retention}.go` |
| Server lifecycle | the process, the listener, the scheduler | start, signal, shutdown within 30 s | `cmd/smartdb/main.go` |
| Migrations | `__migrations` of a database, SQL files | load, up, down | `internal/sqlite/migration.go` |
| SQL classifier | none | class of a request: read, edit, manage, admin | `internal/ats/*.go`, `internal/auth/authorize.go` |
| HTTP plumbing | none | ids, JSON bodies, CORS, request ids, errors | `internal/handler/*.go` |
| Configuration | read once | | `internal/config/config.go` |
| Connection pool | connections by project | used by nothing | `internal/project/pool.go` |

**How they interact.** Every request runs on a goroutine of its own. The
handlers share the system database through one connection
(`SetMaxOpenConns(1)`), and none of them opens a transaction: a statement is
atomic, a handler is not. They share the project directories through the file
system. SQL and manual backups take the project lock shared, restores take it
exclusively, both without waiting (409 when it is taken). The stats, tables and
schema reads, DELETE, wipe and the scheduler do not take it. Authentication and
authorisation happen once, when the request arrives.

**What is hard.**

- *Check, then act.* PATCH, DELETE and wipe read the row in one statement and
  write it, whatever it is by then, in another one.
- *Steps that fail one by one.* Create has five, wipe four, restore four. Each
  can fail, so can the rollback of Create, and the process can die between any
  two of them. Nothing is repaired at start-up.
- *Files replaced under open connections.* A restore replaces `database.db` and
  then removes the `-wal` of the old file. What has the old file open keeps it,
  and what opens the database between the two steps takes the wrong `-wal`.
- *Background work.* The scheduler works from a list of projects and a list of
  files that other requests have changed since.
- *On demand.* The RWMutex of a project is created by whichever request comes
  first.
- *Ending.* main, the scheduler's goroutine and the requests stop one after the
  other, within a deadline or without, and each needs something that another
  one closes.
- *Migrations.* Which version is next is asked before the transaction that
  takes it up or down; the files may change in between, and several callers may
  migrate one database.
- *Reading SQL without parsing it.* The class of a text rests on its tokens, on
  look-ahead with a stack of tokens pushed back, and on where literals, quoted
  identifiers and comments end.

**What makes each component correct.**

- Control plane: project states follow `allowedTransitions`; deletion is for
  system keys; a project key acts on its own project; there is always a system
  key; a project that Create announced is complete, and half-made ones are
  rolled back; a wiped project has nothing left; keys refer to rows.
- Project lock: one readers-writer lock per project, independent of the others,
  that answers every call.
- Data plane: what was committed or restored is what is read, until something
  the code does not handle happens; a restore does not meet SQL or a backup
  under the lock; retention keeps enough; unfinished backups are removed; a
  wipe removes the directory.
- Server lifecycle: work that is in flight ends before its resources are
  closed, one project's failed backup does not cost the others theirs, and an
  interrupt ends the process.
- Migrations: no version is in effect twice, and one that is recorded is in
  effect; up goes in the order of the numbers and misses none, down takes the
  last one.
- Classifier: the lexer finds the tokens of the text; a text should be refused
  exactly if one of its statements is, and a role should be able to run it
  exactly if it may run each statement (the code falls short of both behind
  WITH ... VALUES, see section 6).

## 2. The modules

| Module | What it is |
|---|---|
| `ProjectLifecycle` | the control plane: several projects, keys and requests |
| `ReadersWriterLock` | abstract: what the registry promises for one project |
| `ProjectLock` | the registry, `get` and the two tries; implements `ReadersWriterLock` once per project |
| `ProjectData` | the files of one project and everything that opens or replaces them; uses `ReadersWriterLock` for the project lock, implements `BackedUpDatabase` |
| `BackedUpDatabase` | abstract: what a project promises for its data |
| `ServerLifecycle` | the process: main, the scheduler, the listener, requests, signals |
| `VersionedSchema` | abstract: what migrations promise for one database |
| `Migration` | `Migrate`, up and down, with several callers; implements `VersionedSchema` |
| `SQLText` | what the statements of a text are, said without a lexer |
| `SQLLexer` | the lexer, one iteration of a loop a step |
| `SQLClassifier` | `ClassifySQL`, one token a step, with the lexer that it calls, and the permissions of roles |
| `MC*` | the small instances for TLC: symmetry sets and set constants |
| `ProjectLifecycleProofs`, `ProjectLockProofs`, `ProjectDataProofs`, `ProjectDataRefinement`, `BackedUpDatabaseProofs`, `ServerLifecycleProofs`, `MigrationProofs`, `SQLClassifierProofs` | the theorems |

An operator that stands right before another and has its name with a suffix
(`ReadStateUnchecked` before `ReadState`) is not part of the specification. It
is that definition with a plausible bug, kept to show that some property
notices it (`PROJECT.json`, `mutants`).

### ProjectLifecycle

| Variable | In the code |
|---|---|
| `rows` | `projects.state`, `"none"` without a row |
| `disk` | which of the directory, `database.db`, `migrations/` and `backups/` exist |
| `keys` | `api_keys`: status, project (or NULL), role |
| `wk` | the local variables of a handler: next step, key, project, state it read (`seen`), state it will write (`to`) |
| `up` | the process serves requests |
| `faults`, `crashes` | bounds |
| `recreated`, `contended` | history: directories that a backup made anew; projects that have had two requests at once |

A handler is a sequence of actions, one for each SQL statement or file-system
call: `AddProject` to `Activate` are the five steps of `project.Create`,
`RollbackDir` and `RollbackRow` its deferred rollback; `ReadState` and
`WriteState` are the SELECT with the check of `CanTransitionTo` and the UPDATE
by id that DELETE, PATCH and wipe share; `WipeRevoke` and `WipeRemoveAll` are
between the two for a wipe. `Begin...` is the arrival of a request:
`RequireSystemKey`, `RequireProjectAccess` and the tests of the role in the
handlers for keys and backups are its guards, and a refused request does nothing. Every call has a branch in which it
fails (`Fault`); a `RemoveAll` that fails leaves some of the directory.
`Crash` keeps `rows`, `disk` and `keys` and drops the handlers; `Start` is
`BootstrapSystemKey`.

Manual backups are here as far as they make files of a project: `BackupMkdir` is
the MkdirAll of `CreateBackup`, which makes a project directory that is gone
again, and `BackupVacuum` its VACUUM INTO, which creates `database.db`. They
look at no row, so one can run during and after a wipe. What they copy, the lock
they take and the backups of the scheduler are in `ProjectData`.

`Made` is what Create makes: the directory, the database file and the migrations
directory. The `metadata.json` that its comment lists is not made (section 6).

Abstracted: names, timestamps, key texts. An id comes from `genProjectSeed`,
which hashes the name and `time.Now().UnixNano()`: with `ClockTies = FALSE` it
is an id nobody has (`FreshSeed`), with `TRUE` two creations that are in flight
may get the same one (`TiedSeed`). A client can name an id only when it can have
seen it (`Addressable`): the project list omits projects in state `creating`.

### ReadersWriterLock and ProjectLock

`ProjectLock` has the registry as it is: `mu`, the map, RWMutex objects, and for
each request where it is in `get` or the try, and the pointer it got. An access
to the map is a step of its own, so a registry without `mu` would show its
races. `Mutexes` is the memory they are allocated from; an object is new when
nothing points to it (`InUse`). `ImplementsLock` is the refinement: for each
project `p`, the requests that hold `p` shared and exclusively are the
`readers` and `writers` of a `ReadersWriterLock`, and each step of the registry
is a step of it or a stutter.

### ProjectData

One project that starts active with an empty database. `db`, `wal` and
`backups` are contents: the number of the last commit that is in the file, or
`Torn` (the copy of an unfinished backup), or `Mixed` (a `-wal` over a file it
does not belong to). `act` has for each request, and for the scheduler, the
operation, the next step, its connection (`"cur"`, or `"old"` to a file that
was replaced or removed), the `-wal` it still holds after the file was removed
(`own`), and what it writes or copies. `expected` is what the acknowledged
commits and restores add up to.

SQLite is external, and modelled by what the code relies on and its comments
say (`restore.go` 38-46): a connection creates the file when the directory is
there; a commit goes to the `-wal`; a new connection reads the `-wal` that is
there; the last connection to close copies it into the file and removes it, but
a connection to a replaced file leaves both alone; VACUUM INTO takes a snapshot
at its start and creates the target at once, and does not finish it until its
end.

`Closed` is what comes after the deferred close: the deferred release of the
lock for SQL and backups, pruning for a scheduled backup that succeeded, the
answer for everything else. `Tick` puts the list of active projects and the
start of one's backup in one step; a DELETE or wipe can come at any time after
it.

Abstracted: rows and results; `-shm`, which SQLite can rebuild;
`database.db.restoring`, which the next restore overwrites; the 409 answers,
which change nothing; backups of several projects in one tick, which touch
different directories (`ServerLifecycle` has the round over several projects).

### BackedUpDatabase

| Variable | Of `ProjectData` it is |
|---|---|
| `value` | `Value`: what a new connection reads; in the window of a restore the restored file; `None` once the project is deleted or a restore was exposed |
| `latest` | `commits` |
| `saved` | `backups` |
| `copied` | `Copied`: the snapshot of whoever is in VACUUM INTO |
| `fetched` | `Fetched`: the copy of a restore, in `database.db.restoring` |

It has no files, connections and locks. `Commit`, `Snapshot`, `Save`, `Fetch`,
`Restore` and `Remove` are what its clients see; `GiveUp` and `Crash` drop what
was under way and nothing else; `End` is the step after which nothing is
promised. The steps of `ProjectData` that open, close and rename files are
stutters or one of these: `Restore` is the rename, because from then on the old
`-wal` is not read, unless something is exposed.

### ServerLifecycle

| Variable | In the code |
|---|---|
| `proc` | the process: up, or ended by return, `os.Exit(1)`, a signal or a panic |
| `main`, `defers` | the next step of main, and the calls it has deferred |
| `env`, `cfg` | the environment, and what `config.Load` made of it |
| `systemDB`, `signals`, `listener` | the handle, `NotifyContext`, the goroutine of `ListenAndServe` |
| `expired` | the 30 s ran out with requests in flight |
| `req` | each request: authenticating, working on files, or about to write a row |
| `sch`, `tick`, `stop` | the scheduler's goroutine, `ticker.C`, `s.stop` |
| `queue`, `listed`, `tried` | a round: projects to do, listed, and tried |
| `active` | the projects whose row says active |

The actions are the statements of main from `Load` to `Exit`, where
`StopNotify`, `StopScheduler` with `WaitForScheduler`, and `CloseDB` are the
deferred calls, last in first out; those of the scheduler's loop and of
`runBackups`; and three per request. `cancel` of the shutdown context is left
out, it frees a timer. Each signal, a kill and a restart with another
environment can come at any time. What requests and backups do to files is in
`ProjectData`.

### VersionedSchema and Migration

`disk` is the directory, `db` the committed rows of `__migrations` and how often
each version is in effect, `tx` the same in the open transaction of `writer`.
For each caller `pc`, `call`, `loaded`, `todo` and `version` are where it is and
its local variables. `order` and `overtaken` are history: the versions in the
order of their commits, and the callers whose view another commit has changed.

A version is a number that stands for its text, in the order of the texts;
`Number` is what `strconv.Atoi` makes of its leading digits, which may be none
(`NoDigits`) or too many for an int (`TooLarge`). `SortedLists` is everything
that sorting by `Before` may give when the map is read in any order; for an
order that is not transitive that is more than one list. `Final` is the query
of `getFinalMigrationAppliedVersion`. `Exec`, `Record` and `Commit` are the
transaction; each of them, and each query, can fail. `EditDisk` is whoever
changes the files, `Tick` the clock, `Crash` ends every caller.

SQLite is external: one writer at a time; a failed COMMIT commits nothing;
`CURRENT_TIMESTAMP` has seconds. That the clock is set back is left out, and so
is what an SQL file does beyond being in effect.

The schema counts, for each version, how many times its up file ran less how
many times its down file did. Two Downs may choose one version before either
begins its transaction; the second one then runs the down file again and deletes
no row, which is no error, and commits (`Redoes`). The count goes below zero
then, and the history `redone` says how often; `MaxRedone` bounds it for TLC.

`VersionedSchema` has three actions. `Apply` and `Revert` change the schema and
the record of one version together; `Redo` takes down once more what is down,
which is all that the code does beyond them.

### SQLText, SQLLexer and SQLClassifier

A text is a sequence of atoms: keywords, quotes, brackets, comment signs,
semicolons, spaces, and `x` for every other word character. `SQLText` says what
the text is: the *mode* in which each character is read (code, in quotes, in a
comment), where tokens begin (`Tokens`), the places where statements begin
(`Firsts`), the keywords that lead them (`Leaders`, two for WITH), and which
statements are refused. It reads the text in a way the lexer does not: character
by character, with one mode for each.

| Variable | In the code |
|---|---|
| `input`, `pos` | the fields of the Lexer; `pos` counts from 1 |
| `reading`, `start` | the loop of `NextToken` that runs (`"space"`, `"line"` and `"block"` in `skipSpace`, `"quoted"`, `"word"`), and where its token began |
| `returned` | history: what the calls of `NextToken` that read the text have returned |
| `buf`, `taken` | the stack of tokens pushed back; how many of `returned` the caller has taken |
| `at`, `first`, `depth` | where `ClassifySQL`, `hasIntoClause` or `resolveWithBody` is, and its local variables |
| `stmtKeywords`, `result` | the same in `ClassifySQL`; `"refused"` and `"empty"` are its errors |

`SkipSpace`, `SkipLine`, `SkipBlock`, `Switch`, `ReadQuoted` and `ReadWord` take
one character, or two that belong together, as the loops of the lexer do, or
end the call. The actions of `ClassifySQL`, of `hasIntoClause` (`Vacuum...`)
and of `resolveWithBody` (`With...`) take one token each: `Call` enters the
lexer when nothing is pushed back. `Permitted` is `CheckSQLPermission`.

A WITH without SELECT, INSERT, UPDATE, DELETE or REPLACE in its own statement
(`WITH ... VALUES`) has nothing to stop `resolveWithBody`, which does not know
VALUES and reads on over semicolons: it takes a keyword of a later statement, or
all the rest. A statement that stands between such a WITH and the next of these
keywords outside of parentheses is `ReadOver`: it is neither refused nor counted.
The documents make no such exception. `EveryStatementCounts` says what they
promise, and `with_values` shows that the code breaks it; the properties of
`sql_classifier` say that this is the only way in which it does. A statement with
no such WITH in front of it is `Resolved`.

In `LeadersFound` what stands behind a WITH without a keyword is left out, since
the keyword found there is that of another statement.

## 3. What the runs check

| Run | Instance | States | Shows |
|---|---|---|---|
| `lifecycle_concurrent` | 1 project, 3 keys, 2 requests, 2 faults, 1 crash | 635 000 | what holds when requests interleave, and what clients that wait for their answers get |
| `lifecycle_race` | 1 project, 2 keys, 2 requests | violation | `AllowedTransitions` is lost to a race |
| `slug_tie` | `ClockTies = TRUE`, 2 requests | violation | a rollback undoes another creation |
| `project_lock` | 2 projects, 3 requests, 2 RWMutexes | 22 600 | the registry implements the lock, and answers |
| `data_plane` | 2 requests and the scheduler, 2 backup names, 1 commit, 1 accident | 2 873 000 | nothing is lost but by the accidents named; the project is a `BackedUpDatabase` |
| `restore_open` | the same, no accident | violation | connections are open while a restore works |
| `restore_crash` | the same, 1 accident | violation | a restore is not atomic |
| `wipe_backup` | the same, no accident | violation | a wipe may leave the directory |
| `server_lifecycle` | 2 projects, 2 requests, 7 environments | 297 000 | what ends before what, and that it ends |
| `migration` | 2 callers, 3 versions, 2 directories, 2 seconds, 1 down file run once more | 747 000 | versions are recorded as they are in effect |
| `sql_classifier` | 37 044 texts of up to 5 pieces, and those that end in a keyword | 738 000 | the lexer and the classifier find what the text says |
| `with_values` | 12 texts of two statements | violation | what stands behind `WITH ... VALUES;` is not classified |

**`lifecycle_concurrent`.** Two requests are what a race needs: each property
speaks of one project, and every pair of handlers (PATCH against DELETE, wipe
against issuing a key, Create against a crash) occurs. Two faults are a failing
step and a failing rollback; one crash can come before, between or after. Three
keys are the system key and two project keys, one that can be issued while
another one is revoked. `RequestedRoles` has a role that may manage keys, one
that may not, and two that must be refused (`system`, and one that does not
exist).

- `SystemKeyActive`: no sequence of revocations, failures and restarts takes
  the last system key.
- `NothingOutlivesWipe`: of a project that is `wiped` nothing is left, although
  the wipe has four steps and other requests, failures and crashes come between
  them. What may be there is what a backup has made anew after the wipe removed
  the directory (`recreated`), and never the migrations. That such a backup makes
  the promise of a complete removal false is `wipe_backup`.
- `OneFailureLeavesNothing`: a half-made project needs a crash or two failures.
- `KeysReferToRows`: no key names a row that a rollback removed.
- `DeletionBySystemKey`: only DELETE and wipe lead to `deleted` and `wiped`,
  and nothing to `deleting`.
- `IllegalOnlyIfOvertaken`: a transition that the table forbids needs another
  handler between the SELECT and the UPDATE, so the race of `lifecycle_race` is
  the only way.
- `CreatedIsComplete`: the directory, the database file and the migrations
  directory are there when Create answers.
- `WipeLeavesNoKeys`: also after a wipe that failed half-way and keys that were
  issued since.
- `ListedHasDatabase`: a project that clients see has its database, unless a
  crash or two failures made it. The two are a creation that fails and a
  rollback that cannot delete the row: the row stays `creating`, and a PATCH,
  which the table lets take it to `inactive`, makes it a project like others.

The last two are about a project that is not `contended`: its clients wait for
each answer. With two requests at once a key may be issued between the
revocation and the last write of a wipe, and a PATCH may undo a DELETE while a
wipe removes the directory. `contended` is history, not a constraint: the run
explores contended projects too, and the condition is on the project that the
property speaks of. `AllowedTransitions` and `CreatedIsNotUndone`, which
`lifecycle_race` and `slug_tie` break, are theorems under the same condition
(section 5), and so is that a key reaches its own project only
(`OwnProjectOnlyAlways`), which needs two projects and is not a run of its own.

**`project_lock`.** Three requests: two that race for one project's first
RWMutex and one that holds it, or has another project. Two RWMutexes suffice
for two projects because `get` creates at most one for each. `Exclusion`,
`ImplementsLock` and `RefusedByOwnProject` are safety; `Answered` says that
every call of a Try is answered even if no lock is ever released.

**`data_plane`.** Each of `BeginSQL`, `BeginStats`, `BeginBackup`,
`BeginRestore`, `BeginWipe` next to each other and to the scheduler. One
commit, because the question is whether the file, the `-wal` and the backups
hold the commit or do not, and a second one adds no new case of that; two
backup names, so that one is above `MaxGen = 1`; one accident, a failed call or
a crash, at any step. The run goes on up to the wipe (`NotWiped`): the properties
are about a project that is active, or on its way to be wiped, and what is left
of a wiped one is `wipe_backup`.

- `RestoreExclusive`: the lock keeps SQL and manual backups away from a
  restore, until their connection is closed.
- `NothingLost`: what a new connection reads is the last commit or restore. The
  one exception is a restore that was `exposed`: a crash or a failed removal
  came before the old `-wal` was gone, or an unlocked read opened it.
- `RetentionFloor`: pruning by an old listing, next to manual backups, restores
  and wipes, does not take the backups below `MaxGen`.
- `NoAbandonedPartial`: what leaves an unfinished backup behind is a crash, or a
  VACUUM INTO that fails together with the removal of its target, whose error
  `CreateBackup` ignores; no single failed call does. The pair counts as one
  accident, so the instance has it (`faults` counts its two calls).
- `ImplementsBackedUpDatabase`: as long as the project is active and no restore
  was exposed, all of this is a database with backups that change in one step
  each. A backup is the state of the moment in which it was started, whatever
  commits and restores come before it is finished, and two backups of the same
  second do not get into one file.

**`server_lifecycle`.** Two projects, so that a round has one to skip and one to
go on with; two requests, one in flight while the other one is done; seven
environments: each variable unset, malformed, sensible and senseless.

- `CleanExit`: when main returns, the scheduler has ended, the database is
  closed, and the requests are answered unless the deadline ran out.
- `OpenForItsUsers`: who still uses the system database finds it open.
- `RoundIsComplete`: a round tries every project it has listed.
- `PanicsOnlyIfMisconfigured`: malformed and missing values are harmless.
- `InterruptEnds`: the process ends after an interrupt, also when a tick is
  always ready or the server never listened.

**`migration`.** Two callers, in either direction; three versions: `10_b`, one
with more digits than an int holds, and `9_a`, in the order of their texts;
two contents of the directory, of which one lacks an up file; two seconds, so
that versions have the same `applied_at` or different ones; one down file that
is run once more.

- `InEffectAsRecorded`: no up file is in effect twice, although the version is
  chosen before the transaction, and a version falls short of its row only by
  the times that its down file was run again.
- `ImplementsVersionedSchema`: the record and the schema change together, one
  version at a time; a second run of a down file is a step of its own (`Redo`).
- `UpInOrder`: by number, unless a number does not fit an int, or another
  caller takes versions down meanwhile.
- `UpIsComplete`: no error means that everything found is applied.
- `DownUndoesLast`: the last one, or one of the same second.

**`sql_classifier`.** Every sequence of three pieces behind every head: the
pieces are the keywords of each class, quoted and parenthesised keywords, opened
and closed quotes and comments, VACUUM and its INTO. Three pieces are what the
longest look-ahead and one statement after it need. Other texts end in a
keyword (a bare `VACUUM`). `TextsAssumption` leaves out texts whose last atom is
a keyword inside an unclosed comment: the lexer leaves the last character of
such a comment to be read, and one character is never a keyword.

- `LexerReadsText`: what the calls of `NextToken` return are the tokens of
  `SQLText`; an unclosed comment leaves its last character to be read as one
  more, which is never a space.
- `RefusedUnlessReadOver`: a text is refused only for one of its statements, and
  for each that is to be refused, unless `resolveWithBody` reads over it.
- `LeadersFound`: the keywords found are those that lead the statements, up to
  the first WITH without a keyword of its own, of which the texts have many
  (`WITH x CREATE ...`).
- `PermittedUnlessReadOver`: a role that may run the text may run each of its
  statements, unless it is read over; and a role that may run each may run the
  text, if each WITH has its keyword.
- `EndsInTime`: each step lowers a bound, `Remaining`, so that the classification
  ends, although tokens are pushed back and `EOF` is read again.

**`with_values`.** A SELECT, a WITH with a SELECT and a WITH with VALUES, each in
front of ATTACH, VACUUM INTO, DROP and SELECT. `EveryStatementCounts` holds behind
the first two heads and fails behind the third.

**Not vacuous.** Every property of a passing run has a mutant: the definition
with one guard, step or test changed as a bug would, under which TLC finds the
property violated in the same instance.

## 4. Fairness

Two properties are about liveness, and their two specifications state fairness.

- `ProjectLock` (`Answered`): weak fairness of the code between two calls
  (`Get`, `Try`), because a goroutine that can run is scheduled; strong fairness
  of `GetLock`, because a `sync.Mutex` hands itself to a goroutine that has
  waited for a millisecond (its starvation mode). None of `Call` and `Release`:
  whether a request comes, and when its work ends, is up to clients and SQLite.
- `ServerLifecycle` (`InterruptEnds`): weak fairness of main and of the steps
  of a round, whose backups end because they have local files to copy; strong
  fairness of the scheduler's stop case, because a Go `select` picks among the
  cases that are ready with equal probability, so ticks cannot win for ever.
  None of requests, signals and ticks: `Shutdown` ends by its deadline, not by
  the requests.

The other specifications are without fairness: their properties are about what
never happens. That the classifier ends needs none: `EndsInTime` is a bound on
its steps, and TLC finds no deadlock before it is done.

## 5. What is proved

Proofs are for all values of the constants: any number of projects, keys,
requests, RWMutexes, failures and crashes.

**`ProjectLifecycleProofs`** (from `LifecycleAssumption`)

- `TypeCorrect`: types, one lemma per group of actions.
- `SystemKeyAlwaysActive`, `SystemRoleHasNoProjectAlways`, `OwnProjectOnlyAlways`
  and `DeletionBySystemKeyAlways` from `KeyInv`. `SystemKeyActive` is not
  inductive alone: that a revocation spares the system keys needs that the
  project in a handler is never `NoProject`, and that a key never changes its
  project or role; that an actor is a system key when it writes needs that its
  key row stays, revoked or not, while the handler runs.
- `WipeLeavesNoKeysAlways`, `ListedHasDatabaseAlways`,
  `AllowedTransitionsIfWaiting` and `CreatedIsNotUndoneIfWaiting`, of
  `Spec /\ []Untied`: what holds of every project that is not contended, for any
  number of projects, requests, failures and crashes. `WaitingInv` says that what
  a handler read of its row is still there when it writes (`Current`), and that
  what a wipe revoked is still revoked when it is done (`StaysRevoked`).
- `OneFailureLeavesNothingAlways`, of `Spec /\ []Untied`: no two creations in
  flight get one id, because the clock does not tie or because no project has had
  two requests at once.
  `FailureInv` says that a rollback is the answer to the one failure there was,
  so that it does not fail itself (`RollbackSucceeds`), and that no key refers to
  the row it deletes (`CreatedIsUnreferenced`), because a project that is being
  created is not in any list.
- `KeysReferToRowsAlways`: rows disappear only in `RollbackRow`, which fails for
  a row that is referenced.
- `NothingOutlivesWipeAlways`, `CreatedIsCompleteAlways` and
  `IllegalOnlyIfOvertakenAlways` from `CreateInv`, under `ClockTies = FALSE`
  (with ties they are false, or need more than the code gives; `slug_tie`).
  `CreateInv` says that at most one creation has an id and that no other handler
  has it until its row leaves `creating`, and relates the step of a creation to
  its row and to the parts on disk.

**`ProjectLockProofs`** (from `LockAssumption`)

- `LockInvariant`: `LockInv` says who is in the critical section, that an
  RWMutex belongs to one project, that the pointer of a request past `get` is
  its project's, and that an RWMutex is held by the requests that say so.
- `ExclusionAlways`, `RefusedByOwnProjectAlways` and `Implementation` (the
  refinement) follow from it.

**`ProjectDataProofs`** (from `DataAssumption`)

- `DataInvariant`: `IInv` has four parts. `Shape` is `TypeOK` and what each
  step has in its local variables (`Fits`: a connection is open only where SQL
  runs, where a VACUUM INTO ends and where it is closed; a copy is there to be
  renamed). `TypeOK` is not inductive without it: `Rename` installs the copy, so
  there must be one. `LocksHeld` says that the lock excludes, and that whoever
  works under it has it. `Durable` says where the last commit is: an active
  project has its files; in the window of a restore, between the rename and the
  removal of the `-wal`, nothing is open next to the stale `-wal` and the file
  is the restored one; outside of it, what a new connection reads is it; and no
  connection has a removed `-wal` of its own, unless a restore was `exposed`.
  `BeingWritten` names the writer of every unfinished backup. Each action is
  first reduced to what it does to a few variables (the `...Effect` lemmas), and
  each part of `IInv` is preserved by these effects.
- `TypeCorrect`, `RestoreExclusiveAlways`, `NothingLostAlways` and
  `NoAbandonedPartialAlways` follow from it, for any number of requests, backup
  names, commits, failures and crashes.
- `RetentionFloorAlways`: `OldestKeeps` is about `Oldest` alone (if anything is
  to be removed, at least `MaxGen` later files are not; the last of the victims
  is found by well-foundedness of `<`). `Kept` says that these files are still
  there while the victims are removed one by one, because nothing takes a
  backup away from an active project but the pruning itself (`Grows`).

**`ProjectDataRefinement`** (from `DataAssumption`) and **`BackedUpDatabaseProofs`**

- `NamedAlways`: two backups at once never have one file, and none writes over
  another one. `Named` is inductive with `Shape`: a name is taken when the
  target is not there and nobody has it, and nobody but its owner writes it.
- `Implementation`: `Spec => ImplementsBackedUpDatabase`, from `IInv` and
  `Named`, one lemma per action of `BackedUpDatabase`. While the project is
  `Live`, `Value` is `expected` (`LiveValue`, from `Durable`), so a step has to
  account for `expected` and for what is copied. The steps that are interesting
  are `Vacuum` in the window of a restore, which sees the restored file unless
  it is exposed, and `Commit`, which cannot be in the window, because the
  restore has the lock.
- `OnlyCommittedAlways` is about the abstract module alone: every copy there is
  is a state that was committed, or comes from an unfinished backup.
  `CommittedAlways` carries it over to the files of a project.

**`ServerLifecycleProofs`** (from `ServerAssumption`)

- `ServerInvariant`: `IInv` has five parts. `Types`; `Registered`, which says
  for each step of main what is in `defers` and what has therefore not been
  closed; `Drained`, that past `Drain` no request is in flight or the deadline
  ran out, and the listener is closed; `Configured`, what `cfg` has to do with
  `env`; `Round`, that a round has tried or has still to try what it listed, and
  never both. `CleanExit` and `OpenForItsUsers` are not inductive alone: that the
  database is closed last needs the order of `defers`.
- `TypeCorrect`, `CleanExitAlways`, `OpenForItsUsersAlways`,
  `PanicsOnlyIfMisconfiguredAlways` and `RoundIsCompleteAlways` follow from it,
  for any number of projects, requests and environments.

**`MigrationProofs`** (from `MigrationAssumption`)

- `BeforeIsTotalOrder`: among versions whose numbers fit an int, `Before` is a
  strict total order. A text without leading digits is before or behind all texts with some,
  which `MigrationAssumption` says; without it the mixture of the two
  comparisons would not be transitive.
- `MigrationInvariant`: `InEffectAsRecorded` needs `Held` (the transaction has one
  owner) and `Pending` (it holds the state at its start with this caller's
  change, so the version was not recorded when an Up recorded it).
  `TypeCorrect`, `InEffectAsRecordedAlways` and `Implementation` (the
  refinement, which maps the second run of a down file to `Redo`) follow from it.
- `UpIsCompleteAlways`, from `Complete`: a version an Up has found is recorded,
  at hand or still in its list. That sorting keeps every version is
  `ListIsAll`, by counting.
- `DownUndoesLastAlways`, from `Ordered` (`order` has the recorded versions,
  once, with `applied_at` growing), `Timed` (a row pending has the latest time)
  and `Chosen` (a Down that nobody overtook has the final version).
- `UpInOrderAlways`, from `Complete` and `Sorted`: what an Up has still to apply
  is in order and behind the version at hand, so a version before that one is
  recorded. A sorted list has only its neighbours in order; that all its pairs
  are is `SortedIsOrdered`, by the least counterexample.

**`SQLClassifierProofs`** (from `TextsAssumption`: a text is a finite sequence of
atoms, and one that ends inside an unclosed block comment does not end in a
keyword, for such a comment leaves one character)

- `ClassifierInvariant` is for every text, of any length. Its first part,
  `LexerInv`, says for each loop of the lexer where in the text it is: between
  tokens (`Between`), with as many tokens returned as begin before `pos`
  (`Returned`, by rank), inside a literal, an identifier or a word that began at
  `start` (`UnderWay`), or in the last character of an unclosed comment
  (`StrayUnderWay`). `Correct` says that everything returned is the token of the
  text with this number. Each action of the lexer keeps it by a lemma
  (`SkipSpaceKeeps` to `ReadWordKeeps`), which compares what the code does with
  the modes of the characters it passes.
- The modes are a function on the positions of the text that is defined by its
  value in front. That there is one, and that it takes these values, is
  `ModesExist` and `ModeSteps`: the library's induction theorems cannot be used
  here (they take an operator), so the lemmas argue by the least position at
  which the claim fails (`LeastOf`, `AllOf`, from the well-foundedness of `<`).
- `PushedBack` says that the stack holds the tokens taken last, the next one on
  top, so that `Read` counts what has been read for good. `Position` ties the
  state of `ClassifySQL` to the text: after a semicolon as `leader`, right behind a
  VACUUM as `into`. `Progress` says that the keywords so far are the leaders up to
  `Read` (`FoundUpTo`, by rank), that none of their statements is refused, and
  what is known of the rest: a semicolon comes before the next leader
  (`NextBehindSemicolon`), or the body of this WITH is still to come and `depth`
  counts what is open (`InWith`). It is `Lost` at a WITH without a body; from
  then on, what had been found up to it stays found. `Counted` is about the
  whole text all the same: every leader read so far counts in `stmtKeywords`, or
  is `ReadOver`.
- The lemmas on `SQLText` carry the argument: `Separate` (behind a place in a
  statement, only its own body leads before the next semicolon), `RankStep`,
  `DepthStep` and `DepthEncloses` (a counter that stops at zero is the number of
  parentheses that no later one closes), and `HighestIs` (a maximum of priorities
  stands for a set of categories).
- `LexerReadsTextAlways`, `LeadersFoundAlways`, `RefusedUnlessReadOverAlways` and
  `PermittedUnlessReadOverAlways` follow, the last two from `Counted`: that a
  statement is read over is the only way past the refusal and past the role of a
  key. `EndsInTimeAlways` bounds the steps for a text of n characters by 7 n + 16.

**Only model-checked.** `Answered` and `InterruptEnds`, because liveness under
fairness is out of the prover's reach. Every other property of a passing run is
stated by a theorem.

## 6. Disagreements between the code and its documents

Each has a run that shows it (`PROJECT.json`, `findings`, quotes the documents).

1. `lifecycle_race`: PATCH reads a project as inactive, a DELETE marks it
   deleted and answers 204, PATCH writes `active`. `docs/api.md` and
   `allowedTransitions` say that only DELETE and wipe lead out of, or to, these
   states.
2. `slug_tie`: two creations of one name in the same nanosecond get one id,
   which `create.go` calls unique; the rollback of the second removes the
   directory and the row of the first.
3. `restore_open`: `restore.go` says that nothing can hold the database open
   while a restore removes the `-wal`. The scheduler and the stats, tables and
   schema reads can.
4. `restore_crash`: `docs/usecases.csv` says that a restore replaces the
   database atomically. A crash, or a failure, between the rename and the
   removal of the `-wal` leaves the new file with the old `-wal`.
5. `wipe_backup`: `docs/api.md` says that a wipe removes the directory
   completely. A backup in flight makes it again, and a wiped project cannot be
   wiped once more.

6. `with_values`, two findings of one run: behind `WITH x(..) AS (..) VALUES (..);`
   the next statement is not seen. An ATTACH or VACUUM INTO there is classified
   read, although `classifier.go` says that ATTACH is "rejected outright" and
   `docs/api.md` 231-235 that no role may run either; and a DROP there may be run
   by a `read_only` key, against `docs/api.md` 240 and UC48.

Five more are seen by reading, and have no run of their own:

- `create.go` 21-31 lists a `metadata.json` among what Create makes. No code
  writes one.
- `docs/spec.md` 539 and `docs/usecases.csv` (UC13) promise that SIGTERM lets
  requests complete. main registers `os.Interrupt` only, so SIGTERM kills the
  process: `Terminate` in `ServerLifecycle`.
- `docs/spec.md` 498 says that migrations take the exclusive project lock.
  `Migrate` takes none, and nothing calls it. `Migration` shows what holds
  without one: two callers may run one down file twice, since the version is
  chosen before the transaction and a DELETE of no row is no error (`Redo`).
- A Down takes down, of two versions that were applied in one second, the one
  with the greater text: of `9_a` and `10_b`, applied in this order, `9_a`.
- A row that a failed creation could not roll back stays `creating`, as a crash
  leaves it: no list has it and DELETE refuses it (`docs/api.md` 122). But
  whoever reads its id in the system database can PATCH it to `inactive`, which
  `allowedTransitions` has for `Activate`, and it is a project without a
  database (`ListedHasDatabase`).

## 7. What is not modelled

- *HTTP plumbing*: without state. What it refuses does not reach a handler.
  Time-outs of the server (`ReadTimeout`, `WriteTimeout`) cut an answer off and
  change no state.
- *Configuration*, the values but two: they change no behaviour modelled here.
- *Connection pool*: nothing uses it.
- *List and detail requests*: they only read the system database.

## 8. Plan

Done, in this order because the control plane decides which projects exist, the
lock is what keeps the data plane consistent, and the data plane is where data
can be lost:

1. `ProjectLifecycle` with its three runs and its proofs.
2. `ReadersWriterLock`, `ProjectLock`, the refinement and its proof.
3. `ProjectData` with its four runs and its proofs.
4. `ServerLifecycle` with its run and its proofs.
5. `VersionedSchema`, `Migration`, the refinement and the proofs.
6. `SQLText`, `SQLLexer` and `SQLClassifier` with their two runs and the proofs.
7. `BackedUpDatabase`, which `ProjectData` implements, and the proofs of what
   clients that wait can rely on.

What is left, proofs of the two liveness properties, is out of reach for the
reason given above.
