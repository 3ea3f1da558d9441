---------------------------- MODULE ServerLifecycle ----------------------------
(***************************************************************************)
(* The process of SmartDB: main, the goroutine of the backup scheduler,    *)
(* the HTTP server with the requests in flight, and the signals it gets.   *)
(* main registers deferred calls as it starts up, waits for an interrupt,  *)
(* gives the requests 30 seconds, and then runs the deferred calls, the    *)
(* last one first.                                                         *)
(*                                                                         *)
(* net/http and os/signal are external: Shutdown closes the listener and   *)
(* returns when no request is in flight or its context has expired; an     *)
(* interrupt ends the process unless NotifyContext has registered it.      *)
(*                                                                         *)
(* An operator that stands right before another one and differs from it by *)
(* a suffix is that definition with a bug.                                 *)
(***************************************************************************)
EXTENDS Integers, Sequences, FiniteSets

CONSTANTS
  Projects,     \* the rows of the projects table
  Requests,     \* the requests in flight at once
  Environments, \* what SDB_BACKUP_INTERVAL and SDB_BACKUP_MAX_GEN may be
  Unset,        \* no such environment variable
  Malformed     \* a value that ParseDuration or Atoi refuses

ASSUME ServerAssumption ==
  /\ Environments \subseteq [interval: Int \cup {Unset, Malformed},
                             maxGen: Int \cup {Unset, Malformed}]
  /\ Unset \notin Int /\ Malformed \notin Int

VARIABLES
  proc,      \* the process: up, or how it ended
  main,      \* the next step of main
  defers,    \* the deferred calls of main
  env,       \* the environment the process was started with
  cfg,       \* config.Config
  systemDB,  \* the handle of the system database
  signals,   \* NotifyContext: off, registered, or ctx is done
  listener,  \* the goroutine of ListenAndServe
  expired,   \* shutdownCtx ran out before the requests were done
  req,       \* where each request is
  sch,       \* where the scheduler's goroutine is
  tick,      \* ticker.C has a tick
  stop,      \* s.stop is closed
  queue,     \* the projects that runBackups has still to look at
  listed,    \* what projectIDs returned to this round
  tried,     \* the projects of this round that CreateBackup was called for
  active     \* the projects whose row says active

server == <<main, defers, cfg, systemDB, signals, listener, expired>>
scheduler == <<sch, tick, stop, queue, listed, tried>>
vars == <<proc, env, server, req, scheduler, active>>

-----------------------------------------------------------------------------
MainPCs == {"Load", "InitializeSystemDB", "BootstrapSystemKey", "StartScheduler", "Listen",
            "Wait", "Shutdown", "Drain", "Return", "WaitForScheduler"}

DeferredCalls == {"db.Close", "scheduler.Stop", "stop"}

ConfigDefaults == [interval |-> 24, maxGen |-> 7]

(* The values the variables have.  Of the projects a round has listed none *)
(* is both still to come and tried: no project is tried twice, even        *)
(* when its backup fails (runBackups does not retry before the next tick). *)
TypeOK ==
  /\ proc \in {"up", "exited", "failed", "killed", "panicked"}
  /\ main \in MainPCs
  /\ defers \in Seq(DeferredCalls)
  /\ env \in Environments
  /\ cfg \in [interval: Int, maxGen: Int]
  /\ systemDB \in {"none", "open", "closed"}
  /\ signals \in {"off", "registered", "done"}
  /\ listener \in {"none", "spawned", "open", "failed", "closed"}
  /\ expired \in BOOLEAN
  /\ req \in [Requests -> {"none", "auth", "work", "record"}]
  /\ sch \in {"none", "NewTicker", "select", "projectIDs", "CreateBackup", "PruneBackups",
              "done"}
  /\ tick \in BOOLEAN /\ stop \in BOOLEAN
  /\ listed \subseteq Projects
  /\ queue \subseteq listed /\ tried \subseteq listed /\ queue \cap tried = {}
  /\ active \subseteq Projects

Init ==
  /\ proc = "up"
  /\ main = "Load"
  /\ defers = <<>>
  /\ env \in Environments
  /\ cfg = ConfigDefaults
  /\ systemDB = "none"
  /\ signals = "off"
  /\ listener = "none"
  /\ expired = FALSE
  /\ req = [r \in Requests |-> "none"]
  /\ sch = "none" /\ tick = FALSE /\ stop = FALSE
  /\ queue = {} /\ listed = {} /\ tried = {}
  /\ active = Projects

-----------------------------------------------------------------------------
(* main, up to the point where it waits. *)

At(pc) == proc = "up" /\ main = pc

\* Load: a value that does not parse leaves the default.
FromEnvUnchecked(v, default) == IF v = Unset THEN default ELSE IF v = Malformed THEN 0 ELSE v
FromEnv(v, default) == IF v \in {Unset, Malformed} THEN default ELSE v

Load ==
  /\ At("Load")
  /\ cfg' = [interval |-> FromEnv(env.interval, ConfigDefaults.interval),
              maxGen |-> FromEnv(env.maxGen, ConfigDefaults.maxGen)]
  /\ main' = "InitializeSystemDB"
  /\ UNCHANGED <<proc, env, defers, systemDB, signals, listener, expired, req, scheduler, active>>

\* os.Exit(1), which runs no deferred call.
Exit1 ==
  /\ proc' = "failed"
  /\ UNCHANGED <<main, defers, systemDB>>

InitializeSystemDB ==
  /\ At("InitializeSystemDB")
  /\ \/ /\ systemDB' = "open"
        /\ defers' = Append(defers, "db.Close")
        /\ main' = "BootstrapSystemKey"
        /\ UNCHANGED proc
     \/ Exit1
  /\ UNCHANGED <<env, cfg, signals, listener, expired, req, scheduler, active>>

BootstrapSystemKey ==
  /\ At("BootstrapSystemKey")
  /\ \/ main' = "StartScheduler" /\ UNCHANGED <<proc, env, defers, systemDB>>
     \/ Exit1
  /\ UNCHANGED <<env, cfg, signals, listener, expired, req, scheduler, active>>

StartScheduler ==
  /\ At("StartScheduler")
  /\ sch' = "NewTicker"
  /\ defers' = Append(defers, "scheduler.Stop")
  /\ main' = "Listen"
  /\ UNCHANGED <<proc, env, cfg, systemDB, signals, listener, expired, req, tick, stop, queue,
                 listed, tried, active>>

\* NotifyContext, and the goroutine of ListenAndServe.
Listen ==
  /\ At("Listen")
  /\ signals' = "registered"
  /\ defers' = Append(defers, "stop")
  /\ listener' = "spawned"
  /\ main' = "Wait"
  /\ UNCHANGED <<proc, env, cfg, systemDB, expired, req, scheduler, active>>

\* ListenAndServe; an error is logged, and main is not told.
ListenAndServe ==
  /\ proc = "up"
  /\ listener = "spawned"
  /\ listener' \in IF main \in {"Drain", "Return", "WaitForScheduler"}
                     THEN {"closed"}
                     ELSE {"open", "failed"}
  /\ UNCHANGED <<proc, env, main, defers, cfg, systemDB, signals, expired, req, scheduler, active>>

-----------------------------------------------------------------------------
(* main, from the interrupt on. *)

Wait ==
  /\ At("Wait")
  /\ signals = "done"
  /\ main' = "Shutdown"
  /\ UNCHANGED <<proc, env, defers, cfg, systemDB, signals, listener, expired, req, scheduler,
                 active>>

Shutdown ==
  /\ At("Shutdown")
  /\ listener' = IF listener = "open" THEN "closed" ELSE listener
  /\ main' = "Drain"
  /\ UNCHANGED <<proc, env, defers, cfg, systemDB, signals, expired, req, scheduler, active>>

InFlight(r) == req[r] # "none"

\* Shutdown returns, with or without an error: main goes on.
DrainAtOnce ==
  /\ At("Drain")
  /\ main' = "Return"
  /\ UNCHANGED <<proc, env, defers, cfg, systemDB, signals, listener, expired, req, scheduler,
                 active>>
Drain ==
  /\ At("Drain")
  /\ \/ (\A r \in Requests : ~InFlight(r)) /\ UNCHANGED expired
     \/ expired' = TRUE
  /\ main' = "Return"
  /\ UNCHANGED <<proc, env, defers, cfg, systemDB, signals, listener, req, scheduler, active>>

\* A deferred call that main makes as it returns: last in, first out.
RunDeferredInOrder(call) ==
  /\ defers # <<>>
  /\ call = Head(defers)
  /\ defers' = Tail(defers)
RunDeferred(call) ==
  /\ defers # <<>>
  /\ call = defers[Len(defers)]
  /\ defers' = SubSeq(defers, 1, Len(defers) - 1)

\* stop() of NotifyContext: an interrupt has its default effect again.
StopNotify ==
  /\ At("Return")
  /\ RunDeferred("stop")
  /\ signals' = "off"
  /\ UNCHANGED <<proc, env, main, cfg, systemDB, listener, expired, req, scheduler, active>>

\* Scheduler.Stop: close(s.stop), then <-s.done.
StopScheduler ==
  /\ At("Return")
  /\ RunDeferred("scheduler.Stop")
  /\ stop' = TRUE
  /\ main' = "WaitForScheduler"
  /\ UNCHANGED <<proc, env, cfg, systemDB, signals, listener, expired, req, sch, tick,
                 queue, listed, tried, active>>

WaitForScheduler ==
  /\ At("WaitForScheduler")
  /\ sch = "done"
  /\ main' = "Return"
  /\ UNCHANGED <<proc, env, defers, cfg, systemDB, signals, listener, expired, req, scheduler, active>>

CloseDB ==
  /\ At("Return")
  /\ RunDeferred("db.Close")
  /\ systemDB' = "closed"
  /\ UNCHANGED <<proc, env, main, cfg, signals, listener, expired, req, scheduler, active>>

\* main returns: the process ends, with everything that still runs in it.
Exit ==
  /\ At("Return") /\ defers = <<>>
  /\ proc' = "exited"
  /\ UNCHANGED <<env, server, req, scheduler, active>>

-----------------------------------------------------------------------------
(* Requests: authentication in the system database, work on the files of a *)
(* project, and for some a statement in the system database after it.      *)

Progress(r, to) ==
  /\ req' = [req EXCEPT ![r] = to]
  /\ UNCHANGED <<proc, env, server, scheduler>>

Accept(r) ==
  /\ proc = "up" /\ listener = "open" /\ req[r] = "none"
  /\ Progress(r, "auth")
  /\ UNCHANGED active

Authenticate(r) ==
  /\ proc = "up" /\ req[r] = "auth"
  /\ \/ systemDB = "open" /\ Progress(r, "work")
     \/ Progress(r, "none")  \* 401, 403, or sql: database is closed
  /\ UNCHANGED active

Work(r) ==
  /\ proc = "up" /\ req[r] = "work"
  /\ Progress(r, "record") \/ Progress(r, "none")
  /\ UNCHANGED active

\* Create, PATCH, DELETE and wipe change the state of a project.
Record(r) ==
  /\ proc = "up" /\ req[r] = "record"
  /\ \/ /\ systemDB = "open"
        /\ \E p \in Projects : active' \in {active \cup {p}, active \ {p}}
     \/ UNCHANGED active
  /\ Progress(r, "none")

-----------------------------------------------------------------------------
(* The scheduler: a select between the ticker and s.stop, and a round of   *)
(* backups for each tick.                                                  *)

Unscheduled == <<proc, env, server, req, active>>

\* Without recover a panic in any goroutine ends the process.
Panic == proc' = "panicked" /\ UNCHANGED <<env, server, req, scheduler, active>>

\* time.NewTicker panics for an interval that is not positive.
NewTicker ==
  /\ proc = "up" /\ sch = "NewTicker"
  /\ \/ /\ cfg.interval > 0
        /\ sch' = "select"
        /\ UNCHANGED <<Unscheduled, tick, stop, queue, listed, tried>>
     \/ cfg.interval <= 0 /\ Panic

\* The channel of a ticker holds one tick and drops the others.
Tick ==
  /\ proc = "up" /\ sch \notin {"none", "NewTicker", "done"}
  /\ tick' = TRUE
  /\ UNCHANGED <<Unscheduled, sch, stop, queue, listed, tried>>

SelectTick ==
  /\ proc = "up" /\ sch = "select" /\ tick
  /\ tick' = FALSE
  /\ sch' = "projectIDs"
  /\ UNCHANGED <<Unscheduled, stop, queue, listed, tried>>

SelectStopSilent ==
  /\ proc = "up" /\ sch = "select" /\ stop
  /\ sch' = "none"
  /\ UNCHANGED <<Unscheduled, tick, stop, queue, listed, tried>>
SelectStop ==
  /\ proc = "up" /\ sch = "select" /\ stop
  /\ sch' = "done"
  /\ UNCHANGED <<Unscheduled, tick, stop, queue, listed, tried>>

\* The closure over GetProjectList: nil when the query fails.
ProjectIDs ==
  /\ proc = "up" /\ sch = "projectIDs"
  /\ \/ systemDB = "open" /\ listed' = active
     \/ listed' = {}
  /\ queue' = listed' /\ tried' = {}
  /\ sch' = "CreateBackup"
  /\ UNCHANGED <<Unscheduled, tick, stop>>

EndOfRound ==
  /\ proc = "up" /\ sch = "CreateBackup" /\ queue = {}
  /\ sch' = "select"
  /\ UNCHANGED <<Unscheduled, tick, stop, queue, listed, tried>>

\* A backup that fails is logged, and the round goes on.
CreateBackupFatal ==
  /\ proc = "up" /\ sch = "CreateBackup"
  /\ \E p \in queue :
       /\ tried' = tried \cup {p}
       /\ \/ sch' = "PruneBackups" /\ queue' = queue \ {p}
          \/ sch' = "CreateBackup" /\ queue' = {}
  /\ UNCHANGED <<Unscheduled, tick, stop, listed>>
CreateBackupRetried ==
  /\ proc = "up" /\ sch = "CreateBackup"
  /\ \E p \in queue :
       /\ tried' = tried \cup {p}
       /\ \/ sch' = "PruneBackups" /\ queue' = queue \ {p}
          \/ sch' = "CreateBackup" /\ UNCHANGED queue
  /\ UNCHANGED <<Unscheduled, tick, stop, listed>>
CreateBackup ==
  /\ proc = "up" /\ sch = "CreateBackup"
  /\ \E p \in queue :
       /\ queue' = queue \ {p}
       /\ tried' = tried \cup {p}
       /\ sch' \in {"PruneBackups", "CreateBackup"}
  /\ UNCHANGED <<Unscheduled, tick, stop, listed>>

\* backups[:len(backups)-maxGenerations]: a negative maxGenerations is past the
\* length, and panics unless append has left that much capacity.
PruneBackups ==
  /\ proc = "up" /\ sch = "PruneBackups"
  /\ \/ sch' = "CreateBackup" /\ UNCHANGED <<Unscheduled, tick, stop, queue, listed, tried>>
     \/ cfg.maxGen < 0 /\ Panic

-----------------------------------------------------------------------------
(* Signals, and the supervisor that starts the server again. *)

Interrupt ==
  /\ proc = "up"
  /\ IF signals = "off"
       THEN proc' = "killed" /\ UNCHANGED signals
       ELSE signals' = "done" /\ UNCHANGED proc
  /\ UNCHANGED <<main, env, defers, cfg, systemDB, listener, expired, req, scheduler, active>>

\* SIGTERM, which main does not register, SIGKILL, or a crash.
Terminate ==
  /\ proc = "up"
  /\ proc' = "killed"
  /\ UNCHANGED <<env, server, req, scheduler, active>>

Restart ==
  /\ proc # "up"
  /\ proc' = "up" /\ env' \in Environments
  /\ main' = "Load" /\ defers' = <<>> /\ cfg' = ConfigDefaults
  /\ systemDB' = "none" /\ signals' = "off" /\ listener' = "none" /\ expired' = FALSE
  /\ req' = [r \in Requests |-> "none"]
  /\ sch' = "none" /\ tick' = FALSE /\ stop' = FALSE
  /\ queue' = {} /\ listed' = {} /\ tried' = {}
  /\ UNCHANGED active

-----------------------------------------------------------------------------
MainStep ==
  \/ Load \/ InitializeSystemDB \/ BootstrapSystemKey \/ StartScheduler \/ Listen
  \/ Wait \/ Shutdown \/ Drain
  \/ StopNotify \/ StopScheduler \/ WaitForScheduler \/ CloseDB \/ Exit

RoundStep == NewTicker \/ ProjectIDs \/ CreateBackup \/ PruneBackups \/ EndOfRound

SchedulerStep == RoundStep \/ SelectTick \/ SelectStop

RequestStep(r) == Accept(r) \/ Authenticate(r) \/ Work(r) \/ Record(r)

Next ==
  \/ MainStep \/ ListenAndServe \/ SchedulerStep
  \/ \E r \in Requests : RequestStep(r)
  \/ Tick \/ Interrupt \/ Terminate \/ Restart

\* main and the scheduler run; a select that is ready for both cases takes
\* each of them sooner or later; nothing is assumed of requests.
Fairness == WF_vars(MainStep) /\ WF_vars(RoundStep) /\ SF_vars(SelectStop)

Spec == Init /\ [][Next]_vars /\ Fairness
-----------------------------------------------------------------------------
(* Properties. *)

(* When main returns after an interrupt, the system database is closed,    *)
(* the scheduler has ended, no backup is half done, and unless the 30      *)
(* seconds ran out every request has been answered: requests and backups   *)
(* are cut off by the deadline, a panic or an unregistered signal only.    *)
CleanExit ==
  proc = "exited" =>
    /\ systemDB = "closed" /\ sch = "done" /\ listener # "open"
    /\ expired \/ \A r \in Requests : ~InFlight(r)

(* A handler or a round of backups that is about to use the system         *)
(* database finds it open, unless the requests overran the deadline: the   *)
(* deferred calls close it after everything that uses it.                  *)
OpenForItsUsers ==
  proc = "up" /\ systemDB = "closed" =>
    /\ sch \notin {"projectIDs", "CreateBackup", "PruneBackups"}
    /\ expired \/ \A r \in Requests : ~InFlight(r)

(* A backup or a pruning that fails does not cost the other projects their *)
(* backup: a round ends when each project that was listed has been tried.  *)
RoundIsComplete ==
  [][sch = "CreateBackup" /\ sch' = "select" => tried = listed]_vars

(* The process panics only for values of the configuration that parse and  *)
(* make no sense (an interval that is not positive, a negative number of   *)
(* generations), never for values that are missing or malformed.           *)
PanicsOnlyIfMisconfigured ==
  proc = "panicked" => \/ env.interval \in Int /\ env.interval <= 0
                       \/ env.maxGen \in Int /\ env.maxGen < 0

(* After an interrupt the process ends, however long requests take and     *)
(* however fast ticks arrive, also when nothing could ever be served       *)
(* because ListenAndServe failed.                                          *)
InterruptEnds == (proc = "up" /\ signals = "done") ~> (proc # "up")
=============================================================================
