------------------------- MODULE ServerLifecycleProofs -------------------------
(***************************************************************************)
(* The process always has numbers for a configuration, closes what it uses *)
(* last, and panics for a senseless configuration only: for any number of  *)
(* projects, requests and restarts.                                        *)
(***************************************************************************)
EXTENDS ServerLifecycle, SequenceTheorems, TLAPS

D1 == <<"db.Close">>
D2 == <<"db.Close", "scheduler.Stop">>
D3 == <<"db.Close", "scheduler.Stop", "stop">>

Starting == {"Load", "InitializeSystemDB", "BootstrapSystemKey", "StartScheduler"}

Types ==
  /\ proc \in {"up", "exited", "failed", "killed", "panicked"}
  /\ main \in MainPCs
  /\ env \in Environments
  /\ cfg \in [interval: Int, maxGen: Int]
  /\ systemDB \in {"none", "open", "closed"}
  /\ signals \in {"off", "registered", "done"}
  /\ listener \in {"none", "spawned", "open", "failed", "closed"}
  /\ expired \in BOOLEAN
  /\ req \in [Requests -> {"none", "auth", "work", "record"}]
  /\ sch \in {"none", "NewTicker", "select", "projectIDs", "CreateBackup", "PruneBackups",
              "done"}
  /\ tick \in BOOLEAN /\ stop \in BOOLEAN
  /\ queue \subseteq Projects /\ listed \subseteq Projects /\ tried \subseteq Projects
  /\ active \subseteq Projects

(* What main has registered, opened and ended, by where it is.             *)
Registered ==
  /\ main \in {"Load", "InitializeSystemDB"} => defers = <<>> /\ systemDB = "none"
  /\ main \in {"BootstrapSystemKey", "StartScheduler"} => defers = D1 /\ systemDB = "open"
  /\ main = "Listen" => defers = D2 /\ systemDB = "open"
  /\ main \in {"Wait", "Shutdown", "Drain"} => defers = D3 /\ systemDB = "open"
  /\ main = "WaitForScheduler" => defers = D1 /\ systemDB = "open"
  /\ main = "Return" => \/ defers \in {D3, D2} /\ systemDB = "open"
                        \/ defers = D1 /\ systemDB = "open" /\ sch = "done"
                        \/ defers = <<>> /\ systemDB = "closed" /\ sch = "done"

(* The listener is closed before main waits for the requests, and none     *)
(* comes after that.                                                       *)
Drained ==
  /\ main \in Starting \cup {"Listen"} => listener = "none" /\ \A r \in Requests : ~InFlight(r)
  /\ main \in {"Drain", "Return", "WaitForScheduler"} => listener # "open"
  /\ main \in {"Return", "WaitForScheduler"} =>
       expired \/ \A r \in Requests : ~InFlight(r)
  /\ proc = "exited" => main = "Return" /\ defers = <<>>

(* What of the configuration makes no sense was so in the environment.     *)
Configured ==
  /\ cfg.interval <= 0 => env.interval \in Int /\ env.interval <= 0
  /\ cfg.maxGen < 0 => env.maxGen \in Int /\ env.maxGen < 0
  /\ proc = "panicked" => cfg.interval <= 0 \/ cfg.maxGen < 0

(* In a round a project that was listed is either to come or was tried,    *)
(* and never both.                                                         *)
Round ==
  /\ queue \subseteq listed /\ tried \subseteq listed /\ queue \cap tried = {}
  /\ sch \in {"CreateBackup", "PruneBackups"} => listed = tried \cup queue

IInv == Types /\ Registered /\ Drained /\ Configured /\ Round

-----------------------------------------------------------------------------
(* Last in, first out.                                                     *)
LEMMA Popped ==
  ASSUME NEW S, NEW s \in Seq(S), NEW e \in S
  PROVE  LET t == Append(s, e)
         IN /\ t \in Seq(S) /\ t # <<>>
            /\ t[Len(t)] = e
            /\ SubSeq(t, 1, Len(t) - 1) = s
<1> DEFINE t == Append(s, e)
           r == SubSeq(t, 1, Len(t) - 1)
<1>1. t \in Seq(S) /\ t # <<>> /\ Len(t) = Len(s) + 1 /\ t[Len(s) + 1] = e
      /\ \A i \in 1..Len(s) : t[i] = s[i]
  BY AppendProperties
<1>2. Len(t) - 1 = Len(s) /\ Len(s) \in Nat
  BY <1>1
<1>3. r \in Seq(S) /\ Len(r) = Len(s) /\ \A i \in 1..Len(s) : r[i] = t[i]
  BY <1>1, <1>2, SubSeqProperties, \A i \in 1..(Len(t) - 1) : t[i] \in S
<1>4. r = s
  BY <1>1, <1>3, SeqEqual
<1> QED BY <1>1, <1>4

(* The deferred calls of main, as it registers and runs them.              *)
LEMMA Deferred ==
  /\ D1 = Append(<<>>, "db.Close")
  /\ D2 = Append(D1, "scheduler.Stop")
  /\ D3 = Append(D2, "stop")
  /\ D1[Len(D1)] = "db.Close" /\ SubSeq(D1, 1, Len(D1) - 1) = <<>>
  /\ D2[Len(D2)] = "scheduler.Stop" /\ SubSeq(D2, 1, Len(D2) - 1) = D1
  /\ D3[Len(D3)] = "stop" /\ SubSeq(D3, 1, Len(D3) - 1) = D2
  /\ D1 # <<>> /\ D2 # <<>> /\ D3 # <<>>
  /\ Len(D1) = 1 /\ Len(D2) = 2 /\ Len(D3) = 3
  /\ {D1, D2, D3, <<>>} \subseteq Seq(DeferredCalls)
<1>1. D1 = Append(<<>>, "db.Close") BY DEF D1
<1>2. D2 = Append(D1, "scheduler.Stop") BY DEF D1, D2
<1>3. D3 = Append(D2, "stop") BY DEF D2, D3
<1>4. <<>> \in Seq(DeferredCalls) /\ D1 \in Seq(DeferredCalls)
      /\ D2 \in Seq(DeferredCalls) /\ D3 \in Seq(DeferredCalls)
  BY DEF D1, D2, D3, DeferredCalls
<1>5. Len(D1) = 1 /\ Len(D2) = 2 /\ Len(D3) = 3
  BY DEF D1, D2, D3
<1>6. {"db.Close", "scheduler.Stop", "stop"} = DeferredCalls
  BY DEF DeferredCalls
<1>7. D1[Len(D1)] = "db.Close" /\ SubSeq(D1, 1, Len(D1) - 1) = <<>> /\ D1 # <<>>
  BY ONLY <1>1, <1>4, <1>6, Popped
<1>8. D2[Len(D2)] = "scheduler.Stop" /\ SubSeq(D2, 1, Len(D2) - 1) = D1 /\ D2 # <<>>
  BY ONLY <1>2, <1>4, <1>6, Popped
<1>9. D3[Len(D3)] = "stop" /\ SubSeq(D3, 1, Len(D3) - 1) = D2 /\ D3 # <<>>
  BY ONLY <1>3, <1>4, <1>6, Popped
<1> QED BY <1>1, <1>2, <1>3, <1>4, <1>5, <1>7, <1>8, <1>9

(* What Load makes of an environment.                                      *)
LEMMA LoadedTypes ==
  ASSUME ServerAssumption, NEW e \in Environments, NEW default \in Int
  PROVE  /\ FromEnv(e.interval, default) \in Int /\ FromEnv(e.maxGen, default) \in Int
         /\ FromEnv(e.interval, default) \in {e.interval, default}
         /\ FromEnv(e.maxGen, default) \in {e.maxGen, default}
<1>1. e.interval \in Int \cup {Unset, Malformed} /\ e.maxGen \in Int \cup {Unset, Malformed}
  BY DEF ServerAssumption
<1> QED BY <1>1 DEF FromEnv

LEMMA Defaults ==
  /\ ConfigDefaults \in [interval: Int, maxGen: Int]
  /\ ConfigDefaults.interval = 24 /\ ConfigDefaults.maxGen = 7
BY DEF ConfigDefaults

LEMMA InitEstablishes == ASSUME ServerAssumption, Init PROVE IInv
<1>1. Types
  BY Defaults DEF Init, Types, MainPCs
<1>2. Registered /\ Round /\ Drained
  BY DEF Init, Registered, Round, Drained, Starting, InFlight
<1>3. Configured
  BY Defaults DEF Init, Configured
<1> QED BY <1>1, <1>2, <1>3 DEF IInv

(*                                                                          *)
(* Each part of IInv is kept by each step, from the parts together.         *)
LEMMA TypesKept ==
  ASSUME ServerAssumption, Types, [Next]_vars PROVE Types'
<1> USE DEF Types, MainPCs
<1>1. CASE Load BY <1>1, LoadedTypes, Defaults DEF At, Load, Unscheduled, server, scheduler
<1>2. CASE InitializeSystemDB BY <1>2 DEF At, Exit1, InitializeSystemDB, Unscheduled, server, scheduler
<1>3. CASE BootstrapSystemKey BY <1>3 DEF At, Exit1, BootstrapSystemKey, Unscheduled, server, scheduler
<1>4. CASE StartScheduler BY <1>4 DEF At, StartScheduler, Unscheduled, server, scheduler
<1>5. CASE Listen BY <1>5 DEF At, Listen, Unscheduled, server, scheduler
<1>6. CASE Wait BY <1>6 DEF At, Wait, Unscheduled, server, scheduler
<1>7. CASE Shutdown BY <1>7 DEF At, Shutdown, Unscheduled, server, scheduler
<1>8. CASE Drain
  <2>1. expired' \in BOOLEAN /\ main' \in MainPCs
    BY <1>8 DEF Drain
  <2>2. UNCHANGED <<proc, env, cfg, systemDB, signals, listener, req, scheduler, active>>
    BY <1>8 DEF Drain
  <2> QED BY <2>1, <2>2 DEF scheduler
<1>9. CASE StopNotify BY <1>9 DEF At, RunDeferred, StopNotify, Unscheduled, server, scheduler
<1>10. CASE StopScheduler BY <1>10 DEF At, RunDeferred, StopScheduler, Unscheduled, server, scheduler
<1>11. CASE WaitForScheduler BY <1>11 DEF At, WaitForScheduler, Unscheduled, server, scheduler
<1>12. CASE CloseDB BY <1>12 DEF At, RunDeferred, CloseDB, Unscheduled, server, scheduler
<1>13. CASE Exit BY <1>13 DEF At, Exit, server, scheduler, Unscheduled, server, scheduler
<1>14. CASE ListenAndServe BY <1>14 DEF ListenAndServe, Unscheduled, server, scheduler
<1>15. CASE NewTicker BY <1>15 DEF NewTicker, Panic, Unscheduled, server, scheduler
<1>16. CASE ProjectIDs BY <1>16 DEF ProjectIDs, Unscheduled, server, scheduler
<1>17. CASE CreateBackup BY <1>17 DEF CreateBackup, Unscheduled, server, scheduler
<1>18. CASE PruneBackups BY <1>18 DEF PruneBackups, Panic, Unscheduled, server, scheduler
<1>19. CASE EndOfRound BY <1>19 DEF EndOfRound, Unscheduled, server, scheduler
<1>20. CASE SelectTick BY <1>20 DEF SelectTick, Unscheduled, server, scheduler
<1>21. CASE SelectStop BY <1>21 DEF SelectStop, Unscheduled, server, scheduler
<1>22. CASE Tick BY <1>22 DEF Tick, Unscheduled, server, scheduler
<1>23. CASE Interrupt BY <1>23 DEF Interrupt, Unscheduled, server, scheduler
<1>24. CASE Terminate BY <1>24 DEF Terminate, Unscheduled, server, scheduler
<1>25. CASE Restart BY <1>25, Defaults DEF Restart, Unscheduled, server, scheduler
<1>26. ASSUME NEW r \in Requests, RequestStep(r) PROVE Types'
  <2>1. CASE Accept(r) BY <2>1 DEF Progress, Accept, Unscheduled, server, scheduler
  <2>2. CASE Authenticate(r) BY <2>2 DEF Progress, Authenticate, Unscheduled, server, scheduler
  <2>3. CASE Work(r) BY <2>3 DEF Progress, Work, Unscheduled, server, scheduler
  <2>4. CASE Record(r) BY <2>4 DEF Progress, Record, Unscheduled, server, scheduler
  <2> QED BY <1>26, <2>1, <2>2, <2>3, <2>4 DEF RequestStep
<1>27. CASE UNCHANGED vars BY <1>27 DEF vars, Unscheduled, server, scheduler
<1> QED BY <1>1, <1>2, <1>3, <1>4, <1>5, <1>6, <1>7, <1>8, <1>9, <1>10, <1>11, <1>12,
          <1>13, <1>14, <1>15, <1>16, <1>17, <1>18, <1>19, <1>20, <1>21, <1>22, <1>23,
          <1>24, <1>25, <1>26, <1>27
     DEF Next, MainStep, SchedulerStep, RoundStep

(*                                                                          *)
LEMMA RegisteredKept ==
  ASSUME ServerAssumption, IInv, [Next]_vars PROVE Registered'
<1> USE DEF IInv, Types, Registered, MainPCs
<1>1. CASE Load BY <1>1 DEF At, Load, Unscheduled, server, scheduler
<1>2. CASE InitializeSystemDB BY <1>2, Deferred DEF At, Exit1, InitializeSystemDB, Unscheduled, server, scheduler
<1>3. CASE BootstrapSystemKey BY <1>3 DEF At, Exit1, BootstrapSystemKey, Unscheduled, server, scheduler
<1>4. CASE StartScheduler BY <1>4, Deferred DEF At, StartScheduler, Unscheduled, server, scheduler
<1>5. CASE Listen BY <1>5, Deferred DEF At, Listen, Unscheduled, server, scheduler
<1>6. CASE Wait BY <1>6 DEF At, Wait, Unscheduled, server, scheduler
<1>7. CASE Shutdown BY <1>7 DEF At, Shutdown, Unscheduled, server, scheduler
<1>8. CASE Drain BY <1>8 DEF At, Drain, Unscheduled, server, scheduler
<1>9. CASE StopNotify BY <1>9, Deferred DEF At, RunDeferred, StopNotify, Unscheduled, server, scheduler
<1>10. CASE StopScheduler BY <1>10, Deferred DEF At, RunDeferred, StopScheduler, Unscheduled, server, scheduler
<1>11. CASE WaitForScheduler BY <1>11, Deferred DEF At, WaitForScheduler, Unscheduled, server, scheduler
<1>12. CASE CloseDB BY <1>12, Deferred DEF At, RunDeferred, CloseDB, Unscheduled, server, scheduler
<1>13. CASE Exit BY <1>13 DEF At, Exit, server, scheduler, Unscheduled, server, scheduler
<1>14. CASE ListenAndServe BY <1>14 DEF ListenAndServe, Unscheduled, server, scheduler
<1>15. CASE NewTicker BY <1>15 DEF NewTicker, Panic, Unscheduled, server, scheduler
<1>16. CASE ProjectIDs BY <1>16 DEF ProjectIDs, Unscheduled, server, scheduler
<1>17. CASE CreateBackup BY <1>17 DEF CreateBackup, Unscheduled, server, scheduler
<1>18. CASE PruneBackups BY <1>18 DEF PruneBackups, Panic, Unscheduled, server, scheduler
<1>19. CASE EndOfRound BY <1>19 DEF EndOfRound, Unscheduled, server, scheduler
<1>20. CASE SelectTick BY <1>20 DEF SelectTick, Unscheduled, server, scheduler
<1>21. CASE SelectStop BY <1>21 DEF SelectStop, Unscheduled, server, scheduler
<1>22. CASE Tick BY <1>22 DEF Tick, Unscheduled, server, scheduler
<1>23. CASE Interrupt BY <1>23 DEF Interrupt, Unscheduled, server, scheduler
<1>24. CASE Terminate BY <1>24 DEF Terminate, Unscheduled, server, scheduler
<1>25. CASE Restart BY <1>25 DEF Restart, Unscheduled, server, scheduler
<1>26. ASSUME NEW r \in Requests, RequestStep(r) PROVE Registered'
  <2>1. CASE Accept(r) BY <2>1 DEF Progress, Accept, Unscheduled, server, scheduler
  <2>2. CASE Authenticate(r) BY <2>2 DEF Progress, Authenticate, Unscheduled, server, scheduler
  <2>3. CASE Work(r) BY <2>3 DEF Progress, Work, Unscheduled, server, scheduler
  <2>4. CASE Record(r) BY <2>4 DEF Progress, Record, Unscheduled, server, scheduler
  <2> QED BY <1>26, <2>1, <2>2, <2>3, <2>4 DEF RequestStep
<1>27. CASE UNCHANGED vars BY <1>27 DEF vars, Unscheduled, server, scheduler
<1> QED BY <1>1, <1>2, <1>3, <1>4, <1>5, <1>6, <1>7, <1>8, <1>9, <1>10, <1>11, <1>12,
          <1>13, <1>14, <1>15, <1>16, <1>17, <1>18, <1>19, <1>20, <1>21, <1>22, <1>23,
          <1>24, <1>25, <1>26, <1>27
     DEF Next, MainStep, SchedulerStep, RoundStep

(*                                                                          *)
LEMMA DrainedKept ==
  ASSUME ServerAssumption, IInv, [Next]_vars PROVE Drained'
<1> USE DEF IInv, Types, Registered, Drained, MainPCs, Starting, InFlight
<1>1. CASE Load BY <1>1 DEF At, Load, Unscheduled, server, scheduler
<1>2. CASE InitializeSystemDB BY <1>2 DEF At, Exit1, InitializeSystemDB, Unscheduled, server, scheduler
<1>3. CASE BootstrapSystemKey BY <1>3 DEF At, Exit1, BootstrapSystemKey, Unscheduled, server, scheduler
<1>4. CASE StartScheduler BY <1>4 DEF At, StartScheduler, Unscheduled, server, scheduler
<1>5. CASE Listen BY <1>5 DEF At, Listen, Unscheduled, server, scheduler
<1>6. CASE Wait BY <1>6 DEF At, Wait, Unscheduled, server, scheduler
<1>7. CASE Shutdown BY <1>7 DEF At, Shutdown, Unscheduled, server, scheduler
<1>8. CASE Drain BY <1>8 DEF At, Drain, Unscheduled, server, scheduler
<1>9. CASE StopNotify BY <1>9 DEF At, RunDeferred, StopNotify, Unscheduled, server, scheduler
<1>10. CASE StopScheduler BY <1>10 DEF At, RunDeferred, StopScheduler, Unscheduled, server, scheduler
<1>11. CASE WaitForScheduler BY <1>11 DEF At, WaitForScheduler, Unscheduled, server, scheduler
<1>12. CASE CloseDB BY <1>12 DEF At, RunDeferred, CloseDB, Unscheduled, server, scheduler
<1>13. CASE Exit BY <1>13 DEF At, Exit, server, scheduler, Unscheduled, server, scheduler
<1>14. CASE ListenAndServe BY <1>14 DEF ListenAndServe, Unscheduled, server, scheduler
<1>15. CASE NewTicker BY <1>15 DEF NewTicker, Panic, Unscheduled, server, scheduler
<1>16. CASE ProjectIDs BY <1>16 DEF ProjectIDs, Unscheduled, server, scheduler
<1>17. CASE CreateBackup BY <1>17 DEF CreateBackup, Unscheduled, server, scheduler
<1>18. CASE PruneBackups BY <1>18 DEF PruneBackups, Panic, Unscheduled, server, scheduler
<1>19. CASE EndOfRound BY <1>19 DEF EndOfRound, Unscheduled, server, scheduler
<1>20. CASE SelectTick BY <1>20 DEF SelectTick, Unscheduled, server, scheduler
<1>21. CASE SelectStop BY <1>21 DEF SelectStop, Unscheduled, server, scheduler
<1>22. CASE Tick BY <1>22 DEF Tick, Unscheduled, server, scheduler
<1>23. CASE Interrupt BY <1>23 DEF Interrupt, Unscheduled, server, scheduler
<1>24. CASE Terminate BY <1>24 DEF Terminate, Unscheduled, server, scheduler
<1>25. CASE Restart BY <1>25 DEF Restart, Unscheduled, server, scheduler
<1>26. ASSUME NEW r \in Requests, RequestStep(r) PROVE Drained'
  <2>1. CASE Accept(r) BY <2>1 DEF Progress, Accept, Unscheduled, server, scheduler
  <2>2. CASE Authenticate(r) BY <2>2 DEF Progress, Authenticate, Unscheduled, server, scheduler
  <2>3. CASE Work(r) BY <2>3 DEF Progress, Work, Unscheduled, server, scheduler
  <2>4. CASE Record(r) BY <2>4 DEF Progress, Record, Unscheduled, server, scheduler
  <2> QED BY <1>26, <2>1, <2>2, <2>3, <2>4 DEF RequestStep
<1>27. CASE UNCHANGED vars BY <1>27 DEF vars, Unscheduled, server, scheduler
<1> QED BY <1>1, <1>2, <1>3, <1>4, <1>5, <1>6, <1>7, <1>8, <1>9, <1>10, <1>11, <1>12,
          <1>13, <1>14, <1>15, <1>16, <1>17, <1>18, <1>19, <1>20, <1>21, <1>22, <1>23,
          <1>24, <1>25, <1>26, <1>27
     DEF Next, MainStep, SchedulerStep, RoundStep

(*                                                                          *)
LEMMA ConfiguredKept ==
  ASSUME ServerAssumption, IInv, [Next]_vars PROVE Configured'
<1> USE DEF IInv, Types, Registered, Configured
<1>1. CASE Load
  <2> DEFINE i == FromEnv(env.interval, ConfigDefaults.interval)
             g == FromEnv(env.maxGen, ConfigDefaults.maxGen)
  <2>1. cfg' = [interval |-> i, maxGen |-> g] /\ proc' = "up" /\ env' = env /\ env \in Environments
    BY <1>1 DEF At, Load
  <2>2. i \in {env.interval, 24} /\ g \in {env.maxGen, 7} /\ i \in Int /\ g \in Int
    BY <2>1, LoadedTypes, Defaults
  <2>3. cfg'.interval = i /\ cfg'.maxGen = g
    BY <2>1
  <2> QED BY <2>1, <2>2, <2>3
<1>2. CASE InitializeSystemDB BY <1>2 DEF At, Exit1, InitializeSystemDB, Unscheduled, server, scheduler
<1>3. CASE BootstrapSystemKey BY <1>3 DEF At, Exit1, BootstrapSystemKey, Unscheduled, server, scheduler
<1>4. CASE StartScheduler BY <1>4 DEF At, StartScheduler, Unscheduled, server, scheduler
<1>5. CASE Listen BY <1>5 DEF At, Listen, Unscheduled, server, scheduler
<1>6. CASE Wait BY <1>6 DEF At, Wait, Unscheduled, server, scheduler
<1>7. CASE Shutdown BY <1>7 DEF At, Shutdown, Unscheduled, server, scheduler
<1>8. CASE Drain BY <1>8 DEF At, Drain, Unscheduled, server, scheduler
<1>9. CASE StopNotify BY <1>9 DEF At, RunDeferred, StopNotify, Unscheduled, server, scheduler
<1>10. CASE StopScheduler BY <1>10 DEF At, RunDeferred, StopScheduler, Unscheduled, server, scheduler
<1>11. CASE WaitForScheduler BY <1>11 DEF At, WaitForScheduler, Unscheduled, server, scheduler
<1>12. CASE CloseDB BY <1>12 DEF At, RunDeferred, CloseDB, Unscheduled, server, scheduler
<1>13. CASE Exit BY <1>13 DEF At, Exit, server, scheduler, Unscheduled, server, scheduler
<1>14. CASE ListenAndServe BY <1>14 DEF ListenAndServe, Unscheduled, server, scheduler
<1>15. CASE NewTicker BY <1>15 DEF NewTicker, Panic, Unscheduled, server, scheduler
<1>16. CASE ProjectIDs BY <1>16 DEF ProjectIDs, Unscheduled, server, scheduler
<1>17. CASE CreateBackup BY <1>17 DEF CreateBackup, Unscheduled, server, scheduler
<1>18. CASE PruneBackups BY <1>18 DEF PruneBackups, Panic, Unscheduled, server, scheduler
<1>19. CASE EndOfRound BY <1>19 DEF EndOfRound, Unscheduled, server, scheduler
<1>20. CASE SelectTick BY <1>20 DEF SelectTick, Unscheduled, server, scheduler
<1>21. CASE SelectStop BY <1>21 DEF SelectStop, Unscheduled, server, scheduler
<1>22. CASE Tick BY <1>22 DEF Tick, Unscheduled, server, scheduler
<1>23. CASE Interrupt BY <1>23 DEF Interrupt, Unscheduled, server, scheduler
<1>24. CASE Terminate BY <1>24 DEF Terminate, Unscheduled, server, scheduler
<1>25. CASE Restart BY <1>25, Defaults DEF Restart, Unscheduled, server, scheduler
<1>26. ASSUME NEW r \in Requests, RequestStep(r) PROVE Configured'
  <2>1. CASE Accept(r) BY <2>1 DEF Progress, Accept, Unscheduled, server, scheduler
  <2>2. CASE Authenticate(r) BY <2>2 DEF Progress, Authenticate, Unscheduled, server, scheduler
  <2>3. CASE Work(r) BY <2>3 DEF Progress, Work, Unscheduled, server, scheduler
  <2>4. CASE Record(r) BY <2>4 DEF Progress, Record, Unscheduled, server, scheduler
  <2> QED BY <1>26, <2>1, <2>2, <2>3, <2>4 DEF RequestStep
<1>27. CASE UNCHANGED vars BY <1>27 DEF vars, Unscheduled, server, scheduler
<1> QED BY <1>1, <1>2, <1>3, <1>4, <1>5, <1>6, <1>7, <1>8, <1>9, <1>10, <1>11, <1>12,
          <1>13, <1>14, <1>15, <1>16, <1>17, <1>18, <1>19, <1>20, <1>21, <1>22, <1>23,
          <1>24, <1>25, <1>26, <1>27
     DEF Next, MainStep, SchedulerStep, RoundStep

(*                                                                          *)
LEMMA RoundKept ==
  ASSUME ServerAssumption, IInv, [Next]_vars PROVE Round'
<1> USE DEF IInv, Types, Round
<1>1. CASE Load BY <1>1 DEF At, Load, Unscheduled, server, scheduler
<1>2. CASE InitializeSystemDB BY <1>2 DEF At, Exit1, InitializeSystemDB, Unscheduled, server, scheduler
<1>3. CASE BootstrapSystemKey BY <1>3 DEF At, Exit1, BootstrapSystemKey, Unscheduled, server, scheduler
<1>4. CASE StartScheduler BY <1>4 DEF At, StartScheduler, Unscheduled, server, scheduler
<1>5. CASE Listen BY <1>5 DEF At, Listen, Unscheduled, server, scheduler
<1>6. CASE Wait BY <1>6 DEF At, Wait, Unscheduled, server, scheduler
<1>7. CASE Shutdown BY <1>7 DEF At, Shutdown, Unscheduled, server, scheduler
<1>8. CASE Drain BY <1>8 DEF At, Drain, Unscheduled, server, scheduler
<1>9. CASE StopNotify BY <1>9 DEF At, RunDeferred, StopNotify, Unscheduled, server, scheduler
<1>10. CASE StopScheduler BY <1>10 DEF At, RunDeferred, StopScheduler, Unscheduled, server, scheduler
<1>11. CASE WaitForScheduler BY <1>11 DEF At, WaitForScheduler, Unscheduled, server, scheduler
<1>12. CASE CloseDB BY <1>12 DEF At, RunDeferred, CloseDB, Unscheduled, server, scheduler
<1>13. CASE Exit BY <1>13 DEF At, Exit, server, scheduler, Unscheduled, server, scheduler
<1>14. CASE ListenAndServe BY <1>14 DEF ListenAndServe, Unscheduled, server, scheduler
<1>15. CASE NewTicker BY <1>15 DEF NewTicker, Panic, Unscheduled, server, scheduler
<1>16. CASE ProjectIDs BY <1>16 DEF ProjectIDs, Unscheduled, server, scheduler
<1>17. CASE CreateBackup BY <1>17 DEF CreateBackup, Unscheduled, server, scheduler
<1>18. CASE PruneBackups BY <1>18 DEF PruneBackups, Panic, Unscheduled, server, scheduler
<1>19. CASE EndOfRound BY <1>19 DEF EndOfRound, Unscheduled, server, scheduler
<1>20. CASE SelectTick BY <1>20 DEF SelectTick, Unscheduled, server, scheduler
<1>21. CASE SelectStop BY <1>21 DEF SelectStop, Unscheduled, server, scheduler
<1>22. CASE Tick BY <1>22 DEF Tick, Unscheduled, server, scheduler
<1>23. CASE Interrupt BY <1>23 DEF Interrupt, Unscheduled, server, scheduler
<1>24. CASE Terminate BY <1>24 DEF Terminate, Unscheduled, server, scheduler
<1>25. CASE Restart BY <1>25 DEF Restart, Unscheduled, server, scheduler
<1>26. ASSUME NEW r \in Requests, RequestStep(r) PROVE Round'
  <2>1. CASE Accept(r) BY <2>1 DEF Progress, Accept, Unscheduled, server, scheduler
  <2>2. CASE Authenticate(r) BY <2>2 DEF Progress, Authenticate, Unscheduled, server, scheduler
  <2>3. CASE Work(r) BY <2>3 DEF Progress, Work, Unscheduled, server, scheduler
  <2>4. CASE Record(r) BY <2>4 DEF Progress, Record, Unscheduled, server, scheduler
  <2> QED BY <1>26, <2>1, <2>2, <2>3, <2>4 DEF RequestStep
<1>27. CASE UNCHANGED vars BY <1>27 DEF vars, Unscheduled, server, scheduler
<1> QED BY <1>1, <1>2, <1>3, <1>4, <1>5, <1>6, <1>7, <1>8, <1>9, <1>10, <1>11, <1>12,
          <1>13, <1>14, <1>15, <1>16, <1>17, <1>18, <1>19, <1>20, <1>21, <1>22, <1>23,
          <1>24, <1>25, <1>26, <1>27
     DEF Next, MainStep, SchedulerStep, RoundStep

(* The parts together are inductive.                                      *)
THEOREM ServerInvariant == Spec => []IInv
<1>1. ASSUME IInv, [Next]_vars PROVE IInv'
  BY <1>1, ServerAssumption, TypesKept, RegisteredKept, DrainedKept, ConfiguredKept, RoundKept DEF IInv
<1>2. Init => IInv
  BY ServerAssumption, InitEstablishes
<1> QED BY <1>1, <1>2, PTL DEF Spec

-----------------------------------------------------------------------------
(* The values of the variables; the deferred calls are those of main, and  *)
(* a round tries no project twice.                                         *)
THEOREM TypeCorrect == Spec => []TypeOK
<1>1. ASSUME IInv PROVE defers \in Seq(DeferredCalls)
  <2>1. defers \in {<<>>, D1, D2, D3}
    BY <1>1 DEF IInv, Types, Registered, MainPCs
  <2> QED BY <2>1, Deferred
<1>2. IInv => TypeOK
  BY <1>1 DEF IInv, Types, Round, TypeOK
<1> QED BY <1>2, ServerInvariant, PTL

(* main returns with the database closed, the scheduler ended, and the     *)
(* requests answered unless their time ran out.                            *)
THEOREM CleanExitAlways == Spec => []CleanExit
<1>1. IInv => CleanExit
  BY Deferred DEF IInv, Types, Registered, Drained, CleanExit
<1> QED BY <1>1, ServerInvariant, PTL

(* What uses the system database finds it open, unless requests overran    *)
(* the deadline.                                                           *)
THEOREM OpenForItsUsersAlways == Spec => []OpenForItsUsers
<1>1. IInv => OpenForItsUsers
  BY Deferred DEF IInv, Types, MainPCs, Registered, Drained, OpenForItsUsers
<1> QED BY <1>1, ServerInvariant, PTL

(* The process panics for values that parse and make no sense only.        *)
THEOREM PanicsOnlyIfMisconfiguredAlways == Spec => []PanicsOnlyIfMisconfigured
<1>1. IInv => PanicsOnlyIfMisconfigured
  BY DEF IInv, Configured, PanicsOnlyIfMisconfigured
<1> QED BY <1>1, ServerInvariant, PTL

(* A round of backups ends when every project it listed was tried.         *)
THEOREM RoundIsCompleteAlways == Spec => RoundIsComplete
<1>1. ASSUME IInv, [Next]_vars
      PROVE  [sch = "CreateBackup" /\ sch' = "select" => tried = listed]_vars
  <2> SUFFICES ASSUME Next, sch = "CreateBackup", sch' = "select" PROVE tried = listed
    BY <1>1
  <2>1. EndOfRound
    <3>1. ~MainStep
      BY DEF MainStep, At, Load, Exit1, InitializeSystemDB, BootstrapSystemKey, StartScheduler,
             Listen, Wait, Shutdown, Drain, StopNotify, StopScheduler, WaitForScheduler, CloseDB,
             Exit, scheduler
    <3>2. ~ListenAndServe /\ ~Tick /\ ~Interrupt /\ ~Terminate /\ ~Restart
      BY DEF ListenAndServe, Tick, Interrupt, Terminate, Restart, scheduler
    <3>3. \A r \in Requests : ~RequestStep(r)
      BY DEF RequestStep, Accept, Authenticate, Work, Record, Progress, scheduler
    <3>4. ~NewTicker /\ ~ProjectIDs /\ ~CreateBackup /\ ~PruneBackups
      BY DEF NewTicker, ProjectIDs, CreateBackup, PruneBackups, Panic, Unscheduled, scheduler
    <3>5. ~SelectTick /\ ~SelectStop
      BY DEF SelectTick, SelectStop
    <3> QED BY <3>1, <3>2, <3>3, <3>4, <3>5 DEF Next, SchedulerStep, RoundStep
  <2>2. listed = tried \cup queue /\ queue = {}
    BY <1>1, <2>1 DEF EndOfRound, IInv, Round
  <2> QED BY <2>2
<1> QED BY <1>1, ServerInvariant, PTL DEF Spec, RoundIsComplete
=============================================================================
