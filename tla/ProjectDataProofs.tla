--------------------------- MODULE ProjectDataProofs ---------------------------
(***************************************************************************)
(* Proofs about ProjectData, for any number of requests, backups, commits, *)
(* failures and crashes.                                                   *)
(***************************************************************************)
EXTENDS ProjectData, FiniteSetTheorems, WellFoundedInduction, TLAPS

-----------------------------------------------------------------------------
(* Values. *)

LEMMA Bounds == MaxCommits \in Nat /\ MaxAccidents \in Nat
BY DataAssumption

\* The markers are no numbers, and different ones.
LEMMA Distinct ==
  /\ None \notin Contents /\ Partial \notin Contents /\ None # Partial
  /\ None \notin Nat /\ None \notin Names
<1>1. \A x \in {None, Partial, Torn, Mixed} : x \notin Nat
  BY DataAssumption
<1>2. 0..MaxCommits \subseteq Nat
  BY Bounds
<1>. QED
  BY <1>1, <1>2, DataAssumption DEF Contents

LEMMA IdleLocal == Idle \in Locals
BY DEF Idle, Locals, Ops, PCs

\* What assigning fields of a local state gives.
LEMMA LocalFields ==
  ASSUME NEW l \in Locals
  PROVE  /\ l.op \in Ops /\ l.pc \in PCs /\ l.conn \in {"none", "cur", "old"}
         /\ l.own \in Contents \cup {None} /\ l.name \in Names \cup {None}
         /\ l.snap \in Contents \cup {None}
         /\ \A pc \in PCs : [l EXCEPT !.pc = pc] \in Locals
BY DEF Locals

\* Only a's local state changes; its operation and connection do not.
Others(a) == \A b \in Actors \ {a} : act'[b] = act[b]
Keeps(a) == act'[a].op = act[a].op /\ act'[a].conn = act[a].conn /\ act'[a].own = act[a].own

LEMMA Move ==
  ASSUME act \in [Actors -> Locals], NEW a \in Actors, NEW l \in Locals,
         act' = [act EXCEPT ![a] = l]
  PROVE  act' \in [Actors -> Locals] /\ act'[a] = l /\ Others(a)
BY DEF Others

LEMMA GotoMoves ==
  ASSUME act \in [Actors -> Locals], NEW a \in Actors, NEW pc \in PCs, Goto(a, pc)
  PROVE  /\ act' \in [Actors -> Locals] /\ Others(a) /\ Keeps(a)
         /\ act'[a].pc = pc /\ act'[a].name = act[a].name /\ act'[a].snap = act[a].snap
<1>. DEFINE l == [act[a] EXCEPT !.pc = pc]
<1>1. /\ l \in Locals /\ l.op = act[a].op /\ l.conn = act[a].conn /\ l.own = act[a].own
      /\ l.pc = pc /\ l.name = act[a].name /\ l.snap = act[a].snap
  BY DEF Locals
<1>2. act' = [act EXCEPT ![a] = l]
  BY DEF Goto
<1>. QED
  BY <1>1, <1>2, Move DEF Keeps

LEMMA NameMoves ==
  ASSUME act \in [Actors -> Locals], NEW a \in Actors, NEW pc \in PCs,
         NEW n \in Names \cup {None},
         act' = [act EXCEPT ![a].pc = pc, ![a].name = n]
  PROVE  /\ act' \in [Actors -> Locals] /\ Others(a) /\ Keeps(a)
         /\ act'[a].pc = pc /\ act'[a].name = n /\ act'[a].snap = act[a].snap
<1>. DEFINE l == [act[a] EXCEPT !.pc = pc, !.name = n]
<1>1. /\ l \in Locals /\ l.op = act[a].op /\ l.conn = act[a].conn /\ l.own = act[a].own
      /\ l.pc = pc /\ l.name = n /\ l.snap = act[a].snap
  BY DEF Locals
<1>2. act' = [act EXCEPT ![a] = l]
  OBVIOUS
<1>. QED
  BY <1>1, <1>2, Move DEF Keeps

LEMMA SnapMoves ==
  ASSUME act \in [Actors -> Locals], NEW a \in Actors, NEW pc \in PCs,
         NEW c \in Contents \cup {None},
         act' = [act EXCEPT ![a].pc = pc, ![a].snap = c]
  PROVE  /\ act' \in [Actors -> Locals] /\ Others(a) /\ Keeps(a)
         /\ act'[a].pc = pc /\ act'[a].snap = c /\ act'[a].name = act[a].name
<1>. DEFINE l == [act[a] EXCEPT !.pc = pc, !.snap = c]
<1>1. /\ l \in Locals /\ l.op = act[a].op /\ l.conn = act[a].conn /\ l.own = act[a].own
      /\ l.pc = pc /\ l.snap = c /\ l.name = act[a].name
  BY DEF Locals
<1>2. act' = [act EXCEPT ![a] = l]
  OBVIOUS
<1>. QED
  BY <1>1, <1>2, Move DEF Keeps

LEMMA ReturnMoves ==
  ASSUME act \in [Actors -> Locals], NEW a \in Actors, Return(a)
  PROVE  act' \in [Actors -> Locals] /\ Others(a) /\ act'[a] = Idle
BY IdleLocal, Move DEF Return

LEMMA BeginMoves ==
  ASSUME act \in [Actors -> Locals], NEW a \in Actors, NEW op \in Ops, NEW pc \in PCs,
         Begin(a, op, pc)
  PROVE  /\ act' \in [Actors -> Locals]
         /\ act'[a].op = op /\ act'[a].pc = pc
         /\ act'[a].conn = act[a].conn /\ act'[a].own = act[a].own
         /\ Others(a)
         /\ act[a].pc = "idle"
         /\ UNCHANGED <<row, dir, db, wal, backups, victims, commits, expected, exposed,
                        faults, crashes>>
BY DEF Begin, At, Locals, Others, files, history, bounds

LEMMA ClosedLocal ==
  ASSUME act \in [Actors -> Locals], NEW a \in Actors
  PROVE  Closed(a) \in Locals
<1>1. [act[a] EXCEPT !.conn = "none", !.own = None, !.snap = None] \in Locals
  BY DEF Locals
<1>2. {"Release", "PruneList"} \subseteq PCs
  BY DEF PCs
<1>. QED
  BY <1>1, <1>2, IdleLocal, LocalFields DEF Closed

LEMMA VisibleContents ==
  ASSUME db \in Contents \cup {None}, wal \in Contents \cup {None}
  PROVE  Visible \in Contents \cup {None} /\ (db # None => Visible # None)
BY DEF Visible

-----------------------------------------------------------------------------
(* Types, one action at a time. *)

LEMMA TypeInit == Init => TypeOK
<1>1. /\ 0 \in Contents /\ 0 \in 0..MaxCommits
      /\ 0 \in 0..MaxAccidents /\ 0 \in 0..(MaxAccidents + 1)
  BY Bounds DEF Contents
<1>. QED
  BY <1>1, IdleLocal DEF Init, TypeOK, L!Init, L!TypeOK

\* Most actions leave most of the types alone.
LEMMA TypeOfRest ==
  ASSUME TypeOK, act' \in [Actors -> Locals],
         UNCHANGED <<row, dir, db, wal, backups, victims, commits, expected, exposed,
                     faults, crashes>>,
         readers' \subseteq Workers, writers' \subseteq Workers
  PROVE  TypeOK'
BY DEF TypeOK, L!TypeOK

LEMMA TypeArrive ==
  ASSUME TypeOK, NEW w \in Workers, Arrive(w)
  PROVE  TypeOK'
<1>1. w \in Actors /\ act \in [Actors -> Locals] /\ readers \subseteq Workers
      /\ writers \subseteq Workers
  BY DEF TypeOK, L!TypeOK, Actors
<1>2. /\ {"sql", "stats", "backup", "restore", "wipe"} \subseteq Ops
      /\ {"Open", "Mkdir", "Copy", "RemoveAll"} \subseteq PCs
  BY DEF Ops, PCs
<1>3. CASE BeginSQL(w)
  BY <1>1, <1>2, <1>3, BeginMoves, TypeOfRest DEF BeginSQL, L!TryReadLock
<1>4. CASE BeginStats(w)
  BY <1>1, <1>2, <1>4, BeginMoves, TypeOfRest DEF BeginStats, locks
<1>5. CASE BeginBackup(w)
  BY <1>1, <1>2, <1>5, BeginMoves, TypeOfRest DEF BeginBackup, L!TryReadLock
<1>6. CASE BeginRestore(w)
  BY <1>1, <1>2, <1>6, BeginMoves, TypeOfRest DEF BeginRestore, L!TryWriteLock
<1>7. CASE BeginWipe(w)
  BY <1>1, <1>2, <1>7, BeginMoves, TypeOfRest DEF BeginWipe, locks
<1>. QED
  BY <1>3, <1>4, <1>5, <1>6, <1>7 DEF Arrive

LEMMA ConnectMoves ==
  ASSUME TypeOK, NEW a \in Actors, NEW r \in Locals, Connect(a, r)
  PROVE  /\ db' \in Contents /\ exposed' \in BOOLEAN
         /\ act' \in [Actors -> Locals] /\ Others(a)
         /\ act'[a].op = r.op /\ act'[a].pc = r.pc /\ act'[a].conn = "cur"
         /\ act'[a].own = r.own /\ act'[a].name = r.name /\ act'[a].snap = r.snap
<1>1. 0 \in Contents
  BY Bounds DEF Contents
<1>. DEFINE l == [r EXCEPT !.conn = "cur"]
<1>2. /\ l \in Locals /\ l.op = r.op /\ l.pc = r.pc /\ l.conn = "cur" /\ l.own = r.own
      /\ l.name = r.name /\ l.snap = r.snap
  BY DEF Locals
<1>3. db' \in Contents /\ exposed' \in BOOLEAN
  BY <1>1 DEF Connect, TypeOK
<1>4. act' = [act EXCEPT ![a] = l] /\ act \in [Actors -> Locals]
  BY DEF Connect, TypeOK
<1>. HIDE DEF l
<1>. QED
  BY <1>2, <1>3, <1>4, Move

\* What Open and Vacuum connect with.
LEMMA ConnectLocals ==
  ASSUME TypeOK, NEW a \in Actors
  PROVE  /\ [act[a] EXCEPT !.pc = IF act[a].op = "sql" THEN "Run" ELSE "Close"] \in Locals
         /\ [act[a] EXCEPT !.pc = "VacuumEnd",
                           !.snap = IF Visible = None THEN 0 ELSE Visible] \in Locals
<1>1. {"Run", "Close", "VacuumEnd"} \subseteq PCs
  BY DEF PCs
<1>2. (IF Visible = None THEN 0 ELSE Visible) \in Contents
  BY Bounds, VisibleContents DEF TypeOK, Contents
<1>. QED
  BY <1>1, <1>2 DEF TypeOK, Locals

LEMMA TypeOpen ==
  ASSUME TypeOK, NEW a \in Actors, Open(a)
  PROVE  TypeOK'
<1>. DEFINE r == [act[a] EXCEPT !.pc = IF act[a].op = "sql" THEN "Run" ELSE "Close"]
<1>1. CASE Connect(a, r)
  <2>1. r \in Locals
    BY ConnectLocals
  <2>. HIDE DEF r
  <2>2. db' \in Contents /\ exposed' \in BOOLEAN /\ act' \in [Actors -> Locals]
    BY <1>1, <2>1, ConnectMoves
  <2>. QED
    BY <1>1, <2>2 DEF Open, Connect, TypeOK, L!TypeOK, locks, bounds
<1>2. CASE ~dir /\ Goto(a, "Close") /\ UNCHANGED <<db, history>>
  BY <1>2, GotoMoves, TypeOfRest DEF Open, PCs, TypeOK, L!TypeOK, history, locks, bounds
<1>. QED
  BY <1>1, <1>2 DEF Open

LEMMA TypeMkdir ==
  ASSUME TypeOK, NEW a \in Actors, Mkdir(a)
  PROVE  TypeOK'
<1>1. act' \in [Actors -> Locals]
  BY NameMoves, GotoMoves DEF Mkdir, FreeNames, PCs, TypeOK
<1>. QED
  BY <1>1 DEF Mkdir, TypeOK, L!TypeOK, history, locks, bounds

LEMMA TypeVacuum ==
  ASSUME TypeOK, NEW a \in Actors, Vacuum(a)
  PROVE  TypeOK'
<1>. DEFINE r == [act[a] EXCEPT !.pc = "VacuumEnd",
                                !.snap = IF Visible = None THEN 0 ELSE Visible]
<1>1. CASE Connect(a, r) /\ backups' = [backups EXCEPT ![act[a].name] = Partial]
  <2>1. r \in Locals
    BY ConnectLocals
  <2>. HIDE DEF r
  <2>2. db' \in Contents /\ exposed' \in BOOLEAN /\ act' \in [Actors -> Locals]
    BY <1>1, <2>1, ConnectMoves
  <2>3. backups' \in [Names -> Contents \cup {None, Partial}]
    BY <1>1 DEF TypeOK
  <2>. QED
    BY <1>1, <2>2, <2>3 DEF Vacuum, Connect, TypeOK, L!TypeOK, locks, bounds
<1>2. CASE /\ ~dir
           /\ act' = [act EXCEPT ![a].pc = "Close", ![a].name = None]
           /\ UNCHANGED <<db, backups, history>>
  <2>1. act' \in [Actors -> Locals]
    BY <1>2, NameMoves DEF TypeOK, PCs
  <2>. QED
    BY <1>2, <2>1, TypeOfRest DEF Vacuum, TypeOK, L!TypeOK, history, locks, bounds
<1>. QED
  BY <1>1, <1>2 DEF Vacuum

LEMMA TypeVacuumEnd ==
  ASSUME TypeOK, NEW a \in Actors, VacuumEnd(a)
  PROVE  TypeOK'
<1>1. act' \in [Actors -> Locals]
  BY NameMoves, SnapMoves DEF VacuumEnd, PCs, TypeOK
<1>2. backups' \in [Names -> Contents \cup {None, Partial}]
  <2>1. act[a].snap \in Contents \cup {None}
    BY LocalFields DEF TypeOK
  <2>. QED
    BY <2>1 DEF VacuumEnd, TypeOK
<1>3. faults' \in 0..(MaxAccidents + 1)
  BY Bounds DEF VacuumEnd, Fault, Accident, TypeOK
<1>. QED
  BY <1>1, <1>2, <1>3 DEF VacuumEnd, TypeOK, L!TypeOK, history, locks

LEMMA TypeClose ==
  ASSUME TypeOK, NEW a \in Actors, Close(a)
  PROVE  TypeOK'
<1>1. act' \in [Actors -> Locals]
  BY ClosedLocal DEF Close, TypeOK
<1>2. db' \in Contents \cup {None} /\ wal' \in Contents \cup {None}
  BY VisibleContents, LocalFields DEF Close, TypeOK
<1>. QED
  BY <1>1, <1>2 DEF Close, TypeOK, L!TypeOK, history, locks, bounds

LEMMA TypeRequest ==
  ASSUME TypeOK, NEW w \in Workers, Commit(w) \/ Finish(w) \/ Release(w)
  PROVE  TypeOK'
<1>1. w \in Actors
  BY DEF Actors
<1>2. CASE Commit(w)
  <2>1. commits + 1 \in 0..MaxCommits /\ commits + 1 \in Contents
    BY <1>2, Bounds DEF Commit, TypeOK, Contents
  <2>. QED
    BY <1>2, <2>1 DEF Commit, TypeOK, L!TypeOK, locks, bounds
<1>3. CASE Finish(w)
  BY <1>1, <1>3, GotoMoves, TypeOfRest DEF Finish, PCs, TypeOK, L!TypeOK, files, history,
    locks, bounds
<1>4. CASE Release(w)
  BY <1>1, <1>4, ReturnMoves, TypeOfRest DEF Release, L!ReadUnlock, L!WriteUnlock, TypeOK,
    L!TypeOK, files, history, bounds
<1>. QED
  BY <1>2, <1>3, <1>4

\* What a step of one actor may do to the local state of another.
Disturbed(l, m) ==
  \/ m = l
  \/ /\ l.conn = "cur" /\ m.conn \in {"cur", "old"}
     /\ m.op = l.op /\ m.pc = l.pc /\ m.name = l.name /\ m.snap = l.snap

LEMMA DisturbedBy ==
  ASSUME NEW l \in Locals, NEW c \in Contents \cup {None}
  PROVE  /\ [l EXCEPT !.conn = "old"] \in Locals /\ [l EXCEPT !.own = c] \in Locals
         /\ [l EXCEPT !.conn = "old"].conn = "old"
         /\ [l EXCEPT !.own = c].own = c
         /\ l.conn = "cur" => /\ Disturbed(l, [l EXCEPT !.conn = "old"])
                              /\ Disturbed(l, [l EXCEPT !.own = c])
BY DEF Disturbed, Locals

LEMMA DetachedLocals ==
  ASSUME act \in [Actors -> Locals]
  PROVE  /\ Detached \in [Actors -> Locals]
         /\ \A b \in Actors : Detached[b] =
              IF act[b].conn = "cur" THEN [act[b] EXCEPT !.conn = "old"] ELSE act[b]
BY DEF Detached, Locals

\* The two steps that move the file away under the open connections.
LEMMA DetachedMoves ==
  ASSUME act \in [Actors -> Locals], NEW a \in Actors, NEW l \in Locals,
         act' = [Detached EXCEPT ![a] = l]
  PROVE  /\ act' \in [Actors -> Locals] /\ act'[a] = l
         /\ \A b \in Actors \ {a} : Disturbed(act[b], act'[b]) /\ act'[b].conn # "cur"
<1>1. act' \in [Actors -> Locals] /\ act'[a] = l
      /\ \A b \in Actors \ {a} : act'[b] =
           IF act[b].conn = "cur" THEN [act[b] EXCEPT !.conn = "old"] ELSE act[b]
  BY DetachedLocals
<1>2. ASSUME NEW b \in Actors \ {a}
      PROVE  Disturbed(act[b], act'[b]) /\ act'[b].conn # "cur"
  <2>1. CASE act[b].conn = "cur"
    BY <1>1, <2>1, DisturbedBy
  <2>2. CASE act[b].conn # "cur"
    BY <1>1, <2>2 DEF Disturbed
  <2>. QED
    BY <2>1, <2>2
<1>. QED
  BY <1>1, <1>2

LEMMA CopyMoves ==
  ASSUME TypeOK, NEW w \in Workers, Copy(w)
  PROVE  /\ act' \in [Actors -> Locals]
         /\ Others(w) /\ Keeps(w)
         /\ \/ act'[w].pc = "Release"
            \/ act'[w].pc = "Rename" /\ act'[w].snap # None
<1>1. w \in Actors /\ "Rename" \in PCs /\ "Release" \in PCs /\ act \in [Actors -> Locals]
  BY DEF Actors, PCs, TypeOK
<1>2. ASSUME NEW n \in Names, backups[n] # None,
             act' = [act EXCEPT ![w].pc = "Rename",
                       ![w].snap = IF backups[n] = Partial THEN Torn ELSE backups[n]]
      PROVE  /\ act' \in [Actors -> Locals]
             /\ Others(w) /\ Keeps(w)
             /\ act'[w].pc = "Rename" /\ act'[w].snap # None
  <2>. DEFINE c == IF backups[n] = Partial THEN Torn ELSE backups[n]
  <2>1. c \in Contents
    BY <1>2 DEF TypeOK, Contents
  <2>2. act' = [act EXCEPT ![w].pc = "Rename", ![w].snap = c]
    BY <1>2
  <2>3. c \in Contents \cup {None} /\ c # None
    BY <2>1, Distinct
  <2>. HIDE DEF c
  <2>. QED
    BY <1>1, <2>2, <2>3, SnapMoves
<1>3. CASE Goto(w, "Release")
  BY <1>1, <1>3, GotoMoves
<1>. QED
  BY <1>2, <1>3 DEF Copy

LEMMA RemoveWalMoves ==
  ASSUME TypeOK, NEW w \in Workers, RemoveWal(w)
  PROVE  /\ act' \in [Actors -> Locals]
         /\ act'[w].pc = "Release" /\ Keeps(w)
         /\ \/ /\ \A b \in Actors \ {w} :
                    /\ Disturbed(act[b], act'[b])
                    /\ act'[b].conn = "cur" => act[b].conn = "cur" /\ act'[b].own = wal
               /\ wal' = None /\ exposed' = exposed /\ faults' = faults
            \/ /\ Others(w)
               /\ wal' = wal /\ exposed' = (exposed \/ wal # None) /\ Fault
<1>1. /\ w \in Actors /\ "Release" \in PCs /\ act \in [Actors -> Locals]
      /\ wal \in Contents \cup {None}
  BY DEF Actors, PCs, TypeOK
<1>2. CASE /\ wal' = None
           /\ act' = [b \in Actors |->
                IF b = w THEN [act[b] EXCEPT !.pc = "Release"]
                ELSE IF act[b].conn = "cur" THEN [act[b] EXCEPT !.own = wal]
                ELSE act[b]]
           /\ UNCHANGED <<exposed, faults>>
  <2>. DEFINE l == [act[w] EXCEPT !.pc = "Release"]
  <2>1. \A b \in Actors : act[b] \in Locals /\ [act[b] EXCEPT !.own = wal] \in Locals
    BY <1>1 DEF Locals
  <2>2. /\ l \in Locals /\ l.pc = "Release" /\ l.op = act[w].op /\ l.conn = act[w].conn
        /\ l.own = act[w].own
    BY <1>1 DEF Locals
  <2>3. act'[w] = l /\ act' \in [Actors -> Locals]
    BY <1>1, <1>2, <2>1, <2>2
  <2>4. ASSUME NEW b \in Actors \ {w}
        PROVE  /\ Disturbed(act[b], act'[b])
               /\ act'[b].conn = "cur" => act[b].conn = "cur" /\ act'[b].own = wal
    <3>1. act'[b] = IF act[b].conn = "cur" THEN [act[b] EXCEPT !.own = wal] ELSE act[b]
      BY <1>2
    <3>2. CASE act[b].conn = "cur"
      <4>. DEFINE m == [act[b] EXCEPT !.own = wal]
      <4>1. Disturbed(act[b], m) /\ m.own = wal
        BY <1>1, <2>1, <3>2, DisturbedBy
      <4>2. act'[b] = m
        BY <3>1, <3>2
      <4>. HIDE DEF m
      <4>. QED
        BY <3>2, <4>1, <4>2
    <3>3. CASE act[b].conn # "cur"
      BY <3>1, <3>3 DEF Disturbed
    <3>. QED
      BY <3>2, <3>3
  <2>. QED
    BY <1>2, <2>2, <2>3, <2>4 DEF Keeps
<1>3. CASE Fault /\ Goto(w, "Release") /\ exposed' = (exposed \/ wal # None) /\ UNCHANGED wal
  BY <1>1, <1>3, GotoMoves
<1>. QED
  BY <1>2, <1>3 DEF RemoveWal

LEMMA FaultType == TypeOK /\ Fault => faults' \in 0..(MaxAccidents + 1)
BY Bounds DEF Fault, Accident, TypeOK

-----------------------------------------------------------------------------
(* What the fields of a local state have to do with each other.            *)

Fits(l) ==
  /\ l.pc = "idle" => l.op = "none" /\ l.conn = "none" /\ l.name = None /\ l.snap = None
  /\ l.conn = "none" => l.own = None
  /\ l.conn # "none" => l.pc \in {"Run", "VacuumEnd", "Close"}
  /\ l.pc \in {"Copy", "Rename", "RemoveWal"} => l.op = "restore"
  /\ l.pc \in {"Rename", "VacuumEnd"} => l.snap # None
  /\ l.pc = "Run" => l.op = "sql"

Phases ==
  /\ \A a \in Actors : Fits(act[a])
  /\ act[Scheduler].op \in {"none", "auto"}

Shape == TypeOK /\ Phases

LEMMA DisturbedFits ==
  ASSUME NEW l, NEW m, Fits(l), Disturbed(l, m)
  PROVE  Fits(m)
BY DEF Fits, Disturbed

LEMMA ShapeInit == Init => Shape
<1>. SUFFICES ASSUME Init PROVE Shape
  OBVIOUS
<1>1. Scheduler \in Actors
  BY DEF Actors
<1>. QED
  BY <1>1, TypeInit DEF Shape, Phases, Fits, Init, Idle

LEMMA ShapeArrive ==
  ASSUME Shape, NEW w \in Workers, Arrive(w)
  PROVE  /\ Shape'
         /\ Others(w)
         /\ act[w].pc = "idle" /\ act'[w].conn = "none"
         /\ act'[w].pc \in {"Open", "Mkdir", "Copy", "RemoveAll"}
         /\ act'[w].pc = "RemoveAll" => row = "deleted"
         /\ UNCHANGED <<row, dir, db, wal, backups, victims, commits, expected, exposed,
                        faults, crashes>>
         /\ \/ BeginSQL(w) /\ act'[w].op = "sql"
            \/ BeginBackup(w) /\ act'[w].op = "backup"
            \/ BeginRestore(w) /\ act'[w].op = "restore"
            \/ UNCHANGED <<readers, writers>> /\ act'[w].op \in {"stats", "wipe"}
<1>1. /\ w \in Actors /\ w # Scheduler /\ Scheduler \in Actors
      /\ act \in [Actors -> Locals] /\ Fits(act[w]) /\ TypeOK'
  BY DataAssumption, TypeArrive DEF Shape, Phases, TypeOK, Actors
<1>. DEFINE Moved(op, pc) ==
       /\ act' \in [Actors -> Locals]
       /\ act'[w].op = op /\ act'[w].pc = pc
       /\ act'[w].conn = act[w].conn /\ act'[w].own = act[w].own
       /\ Others(w)
       /\ act[w].pc = "idle"
       /\ UNCHANGED <<row, dir, db, wal, backups, victims, commits, expected, exposed,
                      faults, crashes>>
<1>2. \/ BeginSQL(w) /\ Moved("sql", "Open")
      \/ BeginStats(w) /\ Moved("stats", "Open") /\ UNCHANGED <<readers, writers>>
      \/ BeginBackup(w) /\ Moved("backup", "Mkdir")
      \/ BeginRestore(w) /\ Moved("restore", "Copy")
      \/ /\ BeginWipe(w) /\ Moved("wipe", "RemoveAll") /\ UNCHANGED <<readers, writers>>
         /\ row = "deleted"
  <2>1. /\ {"sql", "stats", "backup", "restore", "wipe"} \subseteq Ops
        /\ {"Open", "Mkdir", "Copy", "RemoveAll"} \subseteq PCs
    BY DEF Ops, PCs
  <2>2. CASE BeginSQL(w)
    BY <1>1, <2>1, <2>2, BeginMoves DEF BeginSQL
  <2>3. CASE BeginStats(w)
    BY <1>1, <2>1, <2>3, BeginMoves DEF BeginStats, locks
  <2>4. CASE BeginBackup(w)
    BY <1>1, <2>1, <2>4, BeginMoves DEF BeginBackup
  <2>5. CASE BeginRestore(w)
    BY <1>1, <2>1, <2>5, BeginMoves DEF BeginRestore
  <2>6. CASE BeginWipe(w)
    BY <1>1, <2>1, <2>6, BeginMoves DEF BeginWipe, locks
  <2>. QED
    BY <2>2, <2>3, <2>4, <2>5, <2>6 DEF Arrive
<1>3. ASSUME NEW op \in {"sql", "stats", "backup", "restore", "wipe"},
             NEW pc \in {"Open", "Mkdir", "Copy", "RemoveAll"},
             Moved(op, pc), pc = "Copy" => op = "restore"
      PROVE  /\ Phases' /\ act'[w].op = op /\ act'[w].pc = pc /\ act'[w].conn = "none"
             /\ Others(w)
  <2>2. act'[w].op = op /\ act'[w].pc = pc /\ act'[w].conn = "none" /\ act'[w].own = None
    BY <1>1, <1>3 DEF Fits
  <2>3. Fits(act'[w])
    BY <1>3, <2>2 DEF Fits
  <2>. QED
    BY <1>1, <1>3, <2>2, <2>3 DEF Phases, Shape, Others
<1>4. CASE BeginSQL(w) /\ Moved("sql", "Open")
  BY <1>1, <1>3, <1>4 DEF Shape
<1>5. CASE BeginStats(w) /\ Moved("stats", "Open") /\ UNCHANGED <<readers, writers>>
  BY <1>1, <1>3, <1>5 DEF Shape
<1>6. CASE BeginBackup(w) /\ Moved("backup", "Mkdir")
  BY <1>1, <1>3, <1>6 DEF Shape
<1>7. CASE BeginRestore(w) /\ Moved("restore", "Copy")
  BY <1>1, <1>3, <1>7 DEF Shape
<1>8. CASE /\ BeginWipe(w) /\ Moved("wipe", "RemoveAll") /\ UNCHANGED <<readers, writers>>
           /\ row = "deleted"
  BY <1>1, <1>3, <1>8 DEF Shape
<1>. QED
  BY <1>2, <1>4, <1>5, <1>6, <1>7, <1>8

-----------------------------------------------------------------------------
(* What each step of an actor does, in the terms of the invariants.        *)

\* To the local states.
Effect(a) ==
  /\ Fits(act'[a]) /\ act'[a].op \in {act[a].op, "none"}
  /\ \A b \in Actors \ {a} : Disturbed(act[b], act'[b])

\* To the files: nothing, and no connection is opened.
Quiet(a) ==
  /\ Others(a)
  /\ act'[a].conn = "cur" => act[a].conn = "cur" /\ act'[a].own = act[a].own
  /\ act[a].pc # "RemoveWal" /\ act'[a].pc \notin {"RemoveWal", "MarkWiped"}
  /\ act'[a].pc = "RemoveAll" => row # "active"
  /\ dir => dir'
  /\ row' = "active" => row = "active"
  /\ UNCHANGED <<db, wal, expected, exposed>>

\* To the files: a connection is opened.
Opened(a) ==
  /\ Others(a)
  /\ act[a].pc # "RemoveWal" /\ act'[a].pc \notin {"RemoveWal", "MarkWiped", "RemoveAll"}
  /\ act'[a].own = None
  /\ db' = IF db = None THEN 0 ELSE db
  /\ exposed' = (exposed \/ (InWindow /\ wal # None))
  /\ UNCHANGED <<row, dir, wal, expected>>

\* To the backups: no unfinished one appears, and a was not writing one.
NoPartial(a) ==
  /\ act[a].pc # "VacuumEnd"
  /\ \A n \in Names : backups'[n] = Partial => backups[n] = Partial
  /\ crashes' = crashes

LEMMA OthersDisturbed ==
  ASSUME NEW a \in Actors, Others(a)
  PROVE  \A b \in Actors \ {a} : Disturbed(act[b], act'[b])
BY DEF Others, Disturbed

LEMMA ShapeFits ==
  ASSUME Shape, NEW a \in Actors
  PROVE  /\ TypeOK /\ act \in [Actors -> Locals] /\ act[a] \in Locals /\ Fits(act[a])
         /\ backups \in [Names -> Contents \cup {None, Partial}]
BY DEF Shape, Phases, TypeOK

LEMMA OpenEffect ==
  ASSUME Shape, NEW a \in Actors, Open(a)
  PROVE  /\ TypeOK' /\ Effect(a) /\ NoPartial(a) /\ (Quiet(a) \/ Opened(a))
         /\ UNCHANGED <<readers, writers>>
<1>1. TypeOK /\ act \in [Actors -> Locals] /\ Fits(act[a]) /\ TypeOK' /\ act[a].pc = "Open"
      /\ UNCHANGED <<readers, writers>>
  BY ShapeFits, TypeOpen DEF Open, At, locks
<1>. DEFINE r == [act[a] EXCEPT !.pc = IF act[a].op = "sql" THEN "Run" ELSE "Close"]
<1>2. CASE Connect(a, r)
  <2>1. r \in Locals /\ r.op = act[a].op /\ r.own = act[a].own
        /\ r.pc = (IF act[a].op = "sql" THEN "Run" ELSE "Close")
    BY <1>1, ConnectLocals, ShapeFits DEF Locals
  <2>. HIDE DEF r
  <2>2. /\ Others(a) /\ act'[a].op = act[a].op /\ act'[a].own = act[a].own
        /\ act'[a].pc = (IF act[a].op = "sql" THEN "Run" ELSE "Close")
        /\ act'[a].conn = "cur"
    BY <1>1, <1>2, <2>1, ConnectMoves
  <2>3. Effect(a)
    BY <1>1, <2>2, OthersDisturbed DEF Effect, Fits
  <2>. QED
    BY <1>1, <1>2, <2>2, <2>3 DEF Opened, NoPartial, Open, Connect, Fits, bounds
<1>3. CASE ~dir /\ Goto(a, "Close") /\ UNCHANGED <<db, history>>
  <2>1. Others(a) /\ Keeps(a) /\ act'[a].pc = "Close"
    BY <1>1, <1>3, GotoMoves DEF PCs
  <2>2. Effect(a)
    BY <1>1, <2>1, OthersDisturbed DEF Effect, Fits, Keeps
  <2>. QED
    BY <1>1, <1>3, <2>1, <2>2 DEF Quiet, NoPartial, Open, Keeps, history, bounds
<1>. QED
  BY <1>2, <1>3 DEF Open

LEMMA MkdirEffect ==
  ASSUME Shape, NEW a \in Actors, Mkdir(a)
  PROVE  /\ TypeOK' /\ Effect(a) /\ NoPartial(a) /\ Quiet(a)
         /\ UNCHANGED <<readers, writers>>
<1>1. TypeOK /\ act \in [Actors -> Locals] /\ Fits(act[a]) /\ TypeOK' /\ act[a].pc = "Mkdir"
      /\ UNCHANGED <<readers, writers>> /\ dir \in BOOLEAN
  BY ShapeFits, TypeMkdir DEF Mkdir, At, locks, TypeOK
<1>2. Others(a) /\ Keeps(a) /\ act'[a].pc \in {"Vacuum", "Close"}
  BY <1>1, GotoMoves, NameMoves DEF Mkdir, FreeNames, PCs
<1>3. Effect(a)
  BY <1>1, <1>2, OthersDisturbed DEF Effect, Fits, Keeps
<1>. QED
  BY <1>1, <1>2, <1>3 DEF Quiet, NoPartial, Mkdir, Keeps, history, bounds

LEMMA VacuumEffect ==
  ASSUME Shape, NEW a \in Actors, Vacuum(a)
  PROVE  /\ TypeOK' /\ Effect(a) /\ (Quiet(a) \/ Opened(a))
         /\ UNCHANGED <<readers, writers>> /\ act[a].pc = "Vacuum"
         /\ \/ NoPartial(a)
            \/ /\ backups' = [backups EXCEPT ![act[a].name] = Partial]
               /\ act'[a].pc = "VacuumEnd" /\ act'[a].name = act[a].name
<1>1. TypeOK /\ act \in [Actors -> Locals] /\ Fits(act[a]) /\ TypeOK' /\ act[a].pc = "Vacuum"
      /\ UNCHANGED <<readers, writers>>
  BY ShapeFits, TypeVacuum DEF Vacuum, At, locks
<1>. DEFINE r == [act[a] EXCEPT !.pc = "VacuumEnd",
                                !.snap = IF Visible = None THEN 0 ELSE Visible]
<1>2. CASE Connect(a, r) /\ backups' = [backups EXCEPT ![act[a].name] = Partial]
  <2>1. r \in Locals /\ r.op = act[a].op /\ r.own = act[a].own /\ r.pc = "VacuumEnd"
        /\ r.name = act[a].name /\ r.snap # None
    <3>1. (IF Visible = None THEN 0 ELSE Visible) # None
      BY Distinct
    <3>. QED
      BY <1>1, <3>1, ConnectLocals, ShapeFits DEF Locals
  <2>. HIDE DEF r
  <2>2. /\ Others(a) /\ act'[a].op = act[a].op /\ act'[a].own = act[a].own
        /\ act'[a].pc = "VacuumEnd" /\ act'[a].conn = "cur" /\ act'[a].name = act[a].name
        /\ act'[a].snap # None
    BY <1>1, <1>2, <2>1, ConnectMoves
  <2>3. Effect(a)
    BY <1>1, <2>2, OthersDisturbed DEF Effect, Fits
  <2>. QED
    BY <1>1, <1>2, <2>2, <2>3 DEF Opened, Vacuum, Connect, Fits
<1>3. CASE /\ ~dir
           /\ act' = [act EXCEPT ![a].pc = "Close", ![a].name = None]
           /\ UNCHANGED <<db, backups, history>>
  <2>1. Others(a) /\ Keeps(a) /\ act'[a].pc = "Close"
    BY <1>1, <1>3, NameMoves DEF PCs
  <2>2. Effect(a)
    BY <1>1, <2>1, OthersDisturbed DEF Effect, Fits, Keeps
  <2>. QED
    BY <1>1, <1>3, <2>1, <2>2 DEF Quiet, NoPartial, Vacuum, Keeps, history, bounds
<1>. QED
  BY <1>2, <1>3 DEF Vacuum

LEMMA VacuumEndEffect ==
  ASSUME Shape, NEW a \in Actors, VacuumEnd(a)
  PROVE  /\ TypeOK' /\ Effect(a) /\ Quiet(a)
         /\ UNCHANGED <<readers, writers, crashes>>
         /\ \A n \in Names : backups'[n] = Partial =>
              backups[n] = Partial /\ (n = act[a].name => faults' = faults + 2)
<1>1. /\ TypeOK /\ act \in [Actors -> Locals] /\ Fits(act[a]) /\ TypeOK'
      /\ act[a].pc = "VacuumEnd" /\ act[a].snap \in Contents \cup {None}
      /\ backups \in [Names -> Contents \cup {None, Partial}]
      /\ UNCHANGED <<readers, writers, crashes, db, wal, dir, row, expected, exposed>>
  BY ShapeFits, TypeVacuumEnd, LocalFields DEF VacuumEnd, At, locks, history
<1>2. Others(a) /\ Keeps(a) /\ act'[a].pc = "Close"
  BY <1>1, NameMoves, SnapMoves DEF VacuumEnd, PCs
<1>3. Effect(a)
  BY <1>1, <1>2, OthersDisturbed DEF Effect, Fits, Keeps
<1>4. Partial \notin Contents \cup {None}
  BY Distinct
<1>5. \A n \in Names : backups'[n] = Partial =>
        backups[n] = Partial /\ (n = act[a].name => faults' = faults + 2)
  BY <1>1, <1>4 DEF VacuumEnd
<1>. QED
  BY <1>1, <1>2, <1>3, <1>5 DEF Quiet, Keeps

LEMMA CloseEffect ==
  ASSUME Shape, NEW a \in Actors, Close(a)
  PROVE  /\ TypeOK' /\ Effect(a) /\ NoPartial(a) /\ Others(a)
         /\ act[a].pc # "RemoveWal" /\ act'[a].conn = "none"
         /\ act'[a].pc \notin {"RemoveWal", "MarkWiped", "RemoveAll"}
         /\ \/ UNCHANGED <<db, wal>>
            \/ /\ act[a].conn = "cur" /\ wal' = None
               /\ db' = IF act[a].own # None THEN act[a].own ELSE Visible
         /\ UNCHANGED <<row, dir, expected, exposed, readers, writers>>
<1>1. TypeOK /\ act \in [Actors -> Locals] /\ act[a] \in Locals /\ TypeOK' /\ act[a].pc = "Close"
  BY ShapeFits, TypeClose DEF Close, At
<1>2. act' = [act EXCEPT ![a] = Closed(a)] /\ Closed(a) \in Locals
  BY <1>1, ClosedLocal DEF Close
<1>3. Others(a) /\ act'[a] = Closed(a)
  BY <1>1, <1>2, Move
<1>4. /\ Closed(a).conn = "none" /\ Closed(a).own = None /\ Closed(a).snap = None
      /\ \/ Closed(a).op = act[a].op /\ Closed(a).pc \in {"Release", "PruneList"}
         \/ Closed(a) = Idle
  <2>. DEFINE left == [act[a] EXCEPT !.conn = "none", !.own = None, !.snap = None]
  <2>1. left \in Locals /\ left.conn = "none" /\ left.own = None /\ left.snap = None
        /\ left.op = act[a].op
    BY <1>1 DEF Locals
  <2>2. \A pc \in {"Release", "PruneList"} :
          LET l == [left EXCEPT !.pc = pc] IN
          l.conn = "none" /\ l.own = None /\ l.snap = None /\ l.op = act[a].op /\ l.pc = pc
    BY <2>1 DEF Locals
  <2>3. \/ Closed(a) = [left EXCEPT !.pc = "Release"]
        \/ Closed(a) = [left EXCEPT !.pc = "PruneList"]
        \/ Closed(a) = Idle
    BY DEF Closed
  <2>. HIDE DEF left
  <2>4. Idle.conn = "none" /\ Idle.own = None /\ Idle.snap = None
    BY DEF Idle
  <2>. QED
    BY <2>2, <2>3, <2>4
<1>5. Effect(a) /\ act'[a].conn = "none"
      /\ act'[a].pc \notin {"RemoveWal", "MarkWiped", "RemoveAll"}
  BY <1>3, <1>4, OthersDisturbed DEF Effect, Fits, Idle
<1>. QED
  BY <1>1, <1>3, <1>5 DEF Close, LastConnection, NoPartial, locks, history, bounds

LEMMA CommitEffect ==
  ASSUME Shape, NEW w \in Workers, Commit(w)
  PROVE  /\ TypeOK' /\ act[w].op = "sql" /\ act[w].conn = "cur"
         /\ wal' = commits + 1 /\ wal' # None /\ expected' = wal'
         /\ UNCHANGED <<row, dir, db, backups, act, exposed, crashes, readers, writers>>
<1>1. /\ w \in Actors /\ TypeOK /\ Fits(act[w]) /\ TypeOK' /\ act[w].pc = "Run"
      /\ commits \in 0..MaxCommits
  BY ShapeFits, TypeRequest DEF Commit, At, TypeOK, Actors
<1>2. commits + 1 # None
  BY <1>1, Bounds, Distinct
<1>. QED
  BY <1>1, <1>2 DEF Commit, Fits, locks, bounds

LEMMA FinishEffect ==
  ASSUME Shape, NEW w \in Workers, Finish(w)
  PROVE  /\ TypeOK' /\ Effect(w) /\ NoPartial(w) /\ Quiet(w)
         /\ UNCHANGED <<readers, writers>>
<1>1. /\ w \in Actors /\ TypeOK /\ act \in [Actors -> Locals] /\ Fits(act[w]) /\ TypeOK'
      /\ act[w].pc = "Run"
  BY ShapeFits, TypeRequest DEF Finish, At, Actors
<1>2. Others(w) /\ Keeps(w) /\ act'[w].pc = "Close"
  BY <1>1, GotoMoves DEF Finish, PCs
<1>3. Effect(w)
  BY <1>1, <1>2, OthersDisturbed DEF Effect, Fits, Keeps
<1>. QED
  BY <1>1, <1>2, <1>3 DEF Quiet, NoPartial, Finish, Keeps, files, history, bounds, locks

LEMMA ReleaseEffect ==
  ASSUME Shape, NEW w \in Workers, Release(w)
  PROVE  /\ TypeOK' /\ Effect(w) /\ NoPartial(w) /\ Quiet(w)
         /\ act'[w].op = "none"
         /\ \/ readers' = readers \ {w} /\ writers' = writers
            \/ writers' = writers \ {w} /\ readers' = readers
<1>1. /\ w \in Actors /\ TypeOK /\ act \in [Actors -> Locals] /\ Fits(act[w]) /\ TypeOK'
      /\ act[w].pc = "Release"
  BY ShapeFits, TypeRequest DEF Release, At, Actors
<1>2. Others(w) /\ act'[w] = Idle
  BY <1>1, ReturnMoves DEF Release
<1>3. /\ act'[w].op = "none" /\ act'[w].pc = "idle" /\ act'[w].conn = "none"
      /\ act'[w].own = None /\ act'[w].name = None /\ act'[w].snap = None
  BY <1>2 DEF Idle
<1>4. Effect(w)
  BY <1>1, <1>2, <1>3, OthersDisturbed DEF Effect, Fits
<1>. QED
  BY <1>1, <1>2, <1>3, <1>4 DEF Quiet, NoPartial, Release, L!ReadUnlock, L!WriteUnlock,
    files, history, bounds

LEMMA CopyEffect ==
  ASSUME Shape, NEW w \in Workers, Copy(w)
  PROVE  /\ TypeOK' /\ Effect(w) /\ NoPartial(w) /\ Quiet(w)
         /\ UNCHANGED <<readers, writers>>
<1>1. /\ w \in Actors /\ TypeOK /\ Fits(act[w]) /\ act[w].pc = "Copy"
  BY ShapeFits DEF Copy, At, Actors
<1>2. /\ act' \in [Actors -> Locals] /\ Others(w) /\ Keeps(w)
      /\ \/ act'[w].pc = "Release"
         \/ act'[w].pc = "Rename" /\ act'[w].snap # None
  BY <1>1, CopyMoves
<1>3. Effect(w)
  BY <1>1, <1>2, OthersDisturbed DEF Effect, Fits, Keeps
<1>4. faults' = faults \/ faults' \in 0..(MaxAccidents + 1)
  BY <1>1, FaultType DEF Copy
<1>5. UNCHANGED <<row, files, victims, locks, history, crashes>>
  BY DEF Copy
<1>6. TypeOK'
  BY <1>1, <1>2, <1>4, <1>5 DEF TypeOK, L!TypeOK, files, locks, history
<1>. QED
  BY <1>1, <1>2, <1>3, <1>5, <1>6 DEF Quiet, NoPartial, Keeps, files, history, locks

LEMMA RenameEffect ==
  ASSUME Shape, NEW w \in Workers, Rename(w)
  PROVE  /\ TypeOK' /\ Effect(w) /\ NoPartial(w)
         /\ UNCHANGED <<readers, writers>>
         /\ \/ Quiet(w)
            \/ /\ act[w].pc = "Rename" /\ act'[w].pc = "RemoveWal"
               /\ \A b \in Actors : act'[b].conn # "cur"
               /\ db' # None /\ expected' = db'
               /\ UNCHANGED <<row, dir, exposed>>
<1>1. /\ w \in Actors /\ TypeOK /\ act \in [Actors -> Locals] /\ act[w] \in Locals
      /\ Fits(act[w]) /\ act[w].pc = "Rename"
  BY ShapeFits DEF Rename, At, Actors
<1>2. act[w].snap \in Contents /\ act[w].snap # None /\ act[w].conn = "none" /\ act[w].own = None
      /\ act[w].op = "restore"
  BY <1>1, LocalFields DEF Fits
<1>3. faults' = faults \/ faults' \in 0..(MaxAccidents + 1)
  BY <1>1, FaultType DEF Rename
<1>4. CASE /\ db' = act[w].snap
           /\ wal' = IF wal = None THEN None ELSE Mixed
           /\ expected' = act[w].snap
           /\ act' = [Detached EXCEPT ![w].pc = "RemoveWal", ![w].snap = None]
  <2>. DEFINE l == [Detached[w] EXCEPT !.pc = "RemoveWal", !.snap = None]
  <2>1. Detached[w] = act[w] /\ "RemoveWal" \in PCs
    BY <1>1, <1>2, DetachedLocals DEF PCs
  <2>2. /\ l \in Locals /\ l.pc = "RemoveWal" /\ l.op = "restore" /\ l.conn = "none"
        /\ l.own = None /\ l.snap = None
    BY <1>1, <1>2, <2>1 DEF Locals
  <2>3. act' = [Detached EXCEPT ![w] = l]
    BY <1>1, <1>4, DetachedLocals
  <2>4. /\ act' \in [Actors -> Locals] /\ act'[w] = l
        /\ \A b \in Actors \ {w} : Disturbed(act[b], act'[b]) /\ act'[b].conn # "cur"
    <3>. HIDE DEF l
    <3>. QED
      BY <1>1, <2>2, <2>3, DetachedMoves
  <2>5. /\ act'[w].pc = "RemoveWal" /\ act'[w].op = "restore" /\ act'[w].conn = "none"
        /\ act'[w].own = None /\ act'[w].snap = None
    BY <2>2, <2>4
  <2>6. Effect(w)
    BY <1>2, <2>4, <2>5 DEF Effect, Fits
  <2>7. Mixed \in Contents
    BY DEF Contents
  <2>8. TypeOK'
    BY <1>1, <1>2, <1>3, <1>4, <2>4, <2>7 DEF Rename, TypeOK, L!TypeOK, locks
  <2>. QED
    BY <1>1, <1>2, <1>4, <2>4, <2>5, <2>6, <2>8 DEF Rename, NoPartial, locks
<1>5. CASE Goto(w, "Release") /\ UNCHANGED <<db, wal, expected>>
  <2>1. act' \in [Actors -> Locals] /\ Others(w) /\ Keeps(w) /\ act'[w].pc = "Release"
    BY <1>1, <1>5, GotoMoves DEF PCs
  <2>2. Effect(w)
    BY <1>1, <2>1, OthersDisturbed DEF Effect, Fits, Keeps
  <2>3. TypeOK'
    BY <1>1, <1>3, <1>5, <2>1 DEF Rename, TypeOK, L!TypeOK, locks
  <2>. QED
    BY <1>1, <1>5, <2>1, <2>2, <2>3 DEF Rename, Quiet, NoPartial, Keeps, locks
<1>. QED
  BY <1>4, <1>5 DEF Rename

LEMMA RemoveWalEffect ==
  ASSUME Shape, NEW w \in Workers, RemoveWal(w)
  PROVE  /\ TypeOK' /\ Effect(w) /\ NoPartial(w)
         /\ UNCHANGED <<readers, writers, row, dir, db, expected>>
         /\ act[w].pc = "RemoveWal" /\ act'[w].pc = "Release" /\ act'[w].conn = "none"
         /\ \/ /\ wal' = None /\ exposed' = exposed
               /\ \A b \in Actors : act'[b].conn = "cur" =>
                    act[b].conn = "cur" /\ act'[b].own = wal
            \/ /\ wal' = wal /\ exposed' = (exposed \/ wal # None)
               /\ Others(w)
<1>1. /\ w \in Actors /\ TypeOK /\ act \in [Actors -> Locals]
      /\ Fits(act[w]) /\ act[w].pc = "RemoveWal"
  BY ShapeFits DEF RemoveWal, At, Actors
<1>2. /\ act' \in [Actors -> Locals]
      /\ act'[w].pc = "Release" /\ Keeps(w)
      /\ \/ /\ \A b \in Actors \ {w} :
                 /\ Disturbed(act[b], act'[b])
                 /\ act'[b].conn = "cur" => act[b].conn = "cur" /\ act'[b].own = wal
            /\ wal' = None /\ exposed' = exposed /\ faults' = faults
         \/ /\ Others(w)
            /\ wal' = wal /\ exposed' = (exposed \/ wal # None) /\ Fault
  BY <1>1, RemoveWalMoves
<1>3. act[w].conn = "none" /\ act'[w].conn = "none" /\ act'[w].own = None
  BY <1>1, <1>2 DEF Fits, Keeps
<1>4. \A b \in Actors \ {w} : Disturbed(act[b], act'[b])
  BY <1>1, <1>2, OthersDisturbed
<1>5. Effect(w)
  BY <1>1, <1>2, <1>3, <1>4 DEF Effect, Fits, Keeps
<1>6. faults' = faults \/ faults' \in 0..(MaxAccidents + 1)
  BY <1>1, <1>2, FaultType
<1>7. UNCHANGED <<row, dir, db, backups, victims, readers, writers, commits, expected, crashes>>
  BY DEF RemoveWal, locks
<1>8. TypeOK'
  BY <1>1, <1>2, <1>6, <1>7 DEF TypeOK, L!TypeOK
<1>9. CASE /\ \A b \in Actors \ {w} :
                 act'[b].conn = "cur" => act[b].conn = "cur" /\ act'[b].own = wal
           /\ wal' = None /\ exposed' = exposed
  BY <1>1, <1>2, <1>3, <1>5, <1>7, <1>8, <1>9 DEF NoPartial
<1>10. CASE Others(w) /\ wal' = wal /\ exposed' = (exposed \/ wal # None)
  BY <1>1, <1>2, <1>3, <1>5, <1>7, <1>8, <1>10 DEF NoPartial
<1>. QED
  BY <1>2, <1>9, <1>10

LEMMA RemoveAllEffect ==
  ASSUME Shape, NEW w \in Workers, RemoveAll(w)
  PROVE  /\ TypeOK' /\ Effect(w) /\ NoPartial(w)
         /\ act[w].pc = "RemoveAll" /\ act'[w].pc \in {"MarkWiped", "idle"}
         /\ wal' = None /\ \A b \in Actors : act'[b].conn # "cur"
         /\ UNCHANGED <<readers, writers, row, expected, exposed>>
<1>1. /\ w \in Actors /\ TypeOK /\ act \in [Actors -> Locals] /\ act[w] \in Locals
      /\ Fits(act[w]) /\ act[w].pc = "RemoveAll"
  BY ShapeFits DEF RemoveAll, At, Actors
<1>2. act[w].conn = "none" /\ act[w].own = None
  BY <1>1 DEF Fits
<1>3. /\ faults' = faults \/ faults' \in 0..(MaxAccidents + 1)
      /\ wal' = None /\ db' = None
      /\ dir' \in {dir, FALSE}
      /\ backups' = backups \/ backups' = [n \in Names |-> None]
      /\ UNCHANGED <<row, victims, readers, writers, commits, expected, exposed, crashes>>
  BY <1>1, FaultType DEF RemoveAll, locks, history
<1>4. ASSUME NEW l \in Locals, act' = [Detached EXCEPT ![w] = l],
             l.op \in {act[w].op, "none"}, l.conn = "none", Fits(l),
             l.pc \in {"MarkWiped", "idle"}
      PROVE  /\ act' \in [Actors -> Locals] /\ Effect(w)
             /\ act'[w].pc \in {"MarkWiped", "idle"}
             /\ \A b \in Actors : act'[b].conn # "cur"
  <2>1. /\ act'[w] = l /\ act' \in [Actors -> Locals]
        /\ \A b \in Actors \ {w} : Disturbed(act[b], act'[b]) /\ act'[b].conn # "cur"
    BY <1>1, <1>4, DetachedMoves
  <2>. QED
    BY <1>4, <2>1 DEF Effect
<1>5. /\ act' \in [Actors -> Locals] /\ Effect(w)
      /\ act'[w].pc \in {"MarkWiped", "idle"}
      /\ \A b \in Actors : act'[b].conn # "cur"
  <2>1. CASE act' = [Detached EXCEPT ![w].pc = "MarkWiped"]
    <3>. DEFINE l == [Detached[w] EXCEPT !.pc = "MarkWiped"]
    <3>1. Detached[w] = act[w] /\ "MarkWiped" \in PCs
      BY <1>1, <1>2, DetachedLocals DEF PCs
    <3>2. /\ l \in Locals /\ l.pc = "MarkWiped" /\ l.op = act[w].op /\ l.conn = "none"
          /\ l.own = None
      BY <1>1, <1>2, <3>1 DEF Locals
    <3>3. act' = [Detached EXCEPT ![w] = l]
      BY <1>1, <2>1, DetachedLocals
    <3>4. Fits(l)
      BY <3>2 DEF Fits
    <3>. HIDE DEF l
    <3>. QED
      BY <1>4, <3>2, <3>3, <3>4
  <2>2. CASE act' = [Detached EXCEPT ![w] = Idle]
    <3>1. Idle.op = "none" /\ Idle.conn = "none" /\ Idle.pc = "idle" /\ Fits(Idle)
      BY DEF Idle, Fits
    <3>. QED
      BY <1>4, <2>2, <3>1, IdleLocal
  <2>. QED
    BY <2>1, <2>2 DEF RemoveAll
<1>6. TypeOK'
  BY <1>1, <1>3, <1>5 DEF TypeOK, L!TypeOK
<1>7. NoPartial(w)
  BY <1>1, <1>3, Distinct DEF NoPartial
<1>. QED
  BY <1>1, <1>3, <1>5, <1>6, <1>7

LEMMA MarkWipedEffect ==
  ASSUME Shape, NEW w \in Workers, MarkWiped(w)
  PROVE  /\ TypeOK' /\ Effect(w) /\ NoPartial(w) /\ Quiet(w)
         /\ UNCHANGED <<readers, writers>>
<1>1. /\ w \in Actors /\ TypeOK /\ act \in [Actors -> Locals]
      /\ Fits(act[w]) /\ act[w].pc = "MarkWiped"
  BY ShapeFits DEF MarkWiped, At, Actors
<1>2. Others(w) /\ act'[w] = Idle /\ act' \in [Actors -> Locals]
  BY <1>1, ReturnMoves DEF MarkWiped
<1>3. /\ act'[w].op = "none" /\ act'[w].pc = "idle" /\ act'[w].conn = "none"
      /\ act'[w].own = None /\ act'[w].name = None /\ act'[w].snap = None
  BY <1>2 DEF Idle
<1>4. Effect(w)
  BY <1>1, <1>2, <1>3, OthersDisturbed DEF Effect, Fits
<1>5. /\ faults' = faults \/ faults' \in 0..(MaxAccidents + 1)
      /\ row' \in {row, "wiped"}
      /\ UNCHANGED <<dir, db, wal, backups, victims, readers, writers, commits, expected,
                     exposed, crashes>>
  BY <1>1, FaultType DEF MarkWiped, files, locks, history
<1>6. TypeOK'
  BY <1>1, <1>2, <1>5 DEF TypeOK, L!TypeOK
<1>. QED
  BY <1>1, <1>2, <1>3, <1>4, <1>5, <1>6 DEF Quiet, NoPartial

LEMMA PruneEffect ==
  ASSUME Shape, PruneList \/ PruneRemove
  PROVE  /\ TypeOK' /\ Effect(Scheduler) /\ NoPartial(Scheduler) /\ Quiet(Scheduler)
         /\ UNCHANGED <<readers, writers>>
<1>1. /\ Scheduler \in Actors /\ TypeOK /\ act \in [Actors -> Locals]
      /\ Fits(act[Scheduler]) /\ act[Scheduler].pc \in {"PruneList", "PruneRemove"}
      /\ backups \in [Names -> Contents \cup {None, Partial}] /\ victims \subseteq Names
      /\ UNCHANGED <<row, dir, db, wal, readers, writers, commits, expected, exposed, crashes>>
  BY ShapeFits DEF PruneList, PruneRemove, At, Actors, files, locks, history, bounds, TypeOK
<1>2. CASE PruneList
  <2>1. /\ act' \in [Actors -> Locals] /\ Others(Scheduler) /\ Keeps(Scheduler)
        /\ act'[Scheduler].pc = "PruneRemove"
    BY <1>1, <1>2, GotoMoves DEF PruneList, PCs
  <2>2. Effect(Scheduler)
    BY <1>1, <2>1, OthersDisturbed DEF Effect, Fits, Keeps
  <2>3. victims' \subseteq Names /\ backups' = backups /\ faults' = faults
    BY <1>2 DEF PruneList, Oldest, files, bounds
  <2>. QED
    BY <1>1, <2>1, <2>2, <2>3 DEF Quiet, NoPartial, Keeps, TypeOK, L!TypeOK
<1>3. CASE PruneRemove
  <2>1. /\ backups' \in [Names -> Contents \cup {None, Partial}] /\ victims' \subseteq Names
        /\ faults' = faults \/ faults' \in 0..(MaxAccidents + 1)
        /\ \A n \in Names : backups'[n] = Partial => backups[n] = Partial
    BY <1>1, <1>3, FaultType, Distinct DEF PruneRemove
  <2>2. /\ act' \in [Actors -> Locals]
        /\ act' = act \/ (Others(Scheduler) /\ act'[Scheduler] = Idle)
    BY <1>1, <1>3, ReturnMoves DEF PruneRemove
  <2>3. TypeOK'
    BY <1>1, <2>1, <2>2 DEF TypeOK, L!TypeOK
  <2>4. CASE act' = act
    <3>1. Others(Scheduler)
      BY <2>4 DEF Others
    <3>. QED
      BY <1>1, <2>1, <2>3, <2>4, <3>1, OthersDisturbed DEF Quiet, NoPartial, Effect
  <2>5. CASE Others(Scheduler) /\ act'[Scheduler] = Idle
    <3>1. Effect(Scheduler)
      BY <1>1, <2>5, OthersDisturbed DEF Effect, Fits, Idle
    <3>. QED
      BY <1>1, <2>1, <2>3, <2>5, <3>1 DEF Quiet, NoPartial, Idle
  <2>. QED
    BY <2>2, <2>4, <2>5
<1>. QED
  BY <1>2, <1>3

LEMMA TickEffect ==
  ASSUME Shape, Tick
  PROVE  /\ Shape' /\ NoPartial(Scheduler) /\ Quiet(Scheduler)
         /\ UNCHANGED <<readers, writers>>
<1>1. /\ Scheduler \in Actors /\ TypeOK /\ act \in [Actors -> Locals]
      /\ Fits(act[Scheduler]) /\ "auto" \in Ops /\ "Mkdir" \in PCs
  BY ShapeFits DEF Actors, Ops, PCs
<1>2. /\ act' \in [Actors -> Locals] /\ Others(Scheduler)
      /\ act'[Scheduler].op = "auto" /\ act'[Scheduler].pc = "Mkdir"
      /\ act'[Scheduler].conn = act[Scheduler].conn /\ act'[Scheduler].own = act[Scheduler].own
      /\ act[Scheduler].pc = "idle"
      /\ UNCHANGED <<row, dir, db, wal, backups, victims, commits, expected, exposed,
                     faults, crashes, readers, writers>>
  BY <1>1, BeginMoves DEF Tick, locks
<1>3. Fits(act'[Scheduler])
  BY <1>1, <1>2 DEF Fits
<1>4. TypeOK'
  BY <1>1, <1>2 DEF TypeOK, L!TypeOK
<1>5. \A b \in Actors : Fits(act'[b])
  BY <1>2, <1>3 DEF Shape, Phases, Others
<1>. QED
  BY <1>1, <1>2, <1>4, <1>5 DEF Shape, Phases, Quiet, NoPartial

LEMMA CrashEffect ==
  ASSUME Shape, Crash
  PROVE  /\ Shape' /\ act' = [a \in Actors |-> Idle] /\ crashes' # 0
         /\ readers' = {} /\ writers' = {}
         /\ exposed' = (exposed \/ (InWindow /\ wal # None))
         /\ UNCHANGED <<row, dir, db, wal, expected>>
<1>1. /\ Scheduler \in Actors /\ TypeOK /\ act' \in [Actors -> Locals]
      /\ crashes' \in 0..MaxAccidents /\ crashes' # 0
      /\ act' = [a \in Actors |-> Idle]
  BY ShapeFits, IdleLocal, Bounds DEF Crash, Accident, Actors, TypeOK
<1>2. TypeOK'
  BY <1>1 DEF Crash, TypeOK, L!TypeOK, files
<1>3. Fits(Idle) /\ Idle.op = "none"
  BY DEF Fits, Idle
<1>4. Phases'
  BY <1>1, <1>3 DEF Phases
<1>. QED
  BY <1>1, <1>2, <1>4 DEF Crash, Shape, files

LEMMA DeleteEffect ==
  ASSUME Shape, Delete
  PROVE  /\ Shape' /\ row' = "deleted"
         /\ UNCHANGED <<dir, db, wal, backups, readers, writers, act, expected, exposed,
                        crashes>>
BY DEF Shape, Phases, TypeOK, L!TypeOK, Delete, files, locks, history, bounds

-----------------------------------------------------------------------------
(* The invariants.                                                         *)

\* Who works under the project lock has it.
LocksHeld ==
  /\ L!Exclusion
  /\ \A w \in Workers : /\ act[w].op \in {"sql", "backup"} => w \in readers
                        /\ act[w].op = "restore" => w \in writers

\* In the order of the argument: an active project has its files; without an
\* exposed restore no connection has a -wal of its own, none is open in the
\* window next to a stale -wal, and the file is the restored one.
Durable ==
  /\ row = "active" => /\ dir /\ db # None
                       /\ \A a \in Actors : act[a].pc \notin {"RemoveAll", "MarkWiped"}
  /\ ~exposed => \A a \in Actors : act[a].conn = "cur" => act[a].own = None
  /\ InWindow /\ ~exposed /\ wal # None => \A a \in Actors : act[a].conn # "cur"
  /\ row = "active" /\ ~exposed /\ InWindow => db = expected
  /\ NothingLost

\* An unfinished backup has its writer.
BeingWritten ==
  crashes = 0 /\ faults <= 1 =>
    \A n \in Names : backups[n] = Partial =>
      \E a \in Actors : act[a].name = n /\ act[a].pc = "VacuumEnd"

IInv == Shape /\ LocksHeld /\ Durable /\ BeingWritten

LEMMA IInvInit == Init => IInv
<1>. SUFFICES ASSUME Init PROVE IInv
  OBVIOUS
<1>1. \A a \in Actors : act[a].op = "none" /\ act[a].pc = "idle" /\ act[a].conn = "none"
  BY DEF Init, Idle
<1>2. LocksHeld
  BY <1>1 DEF Init, L!Init, L!Exclusion, LocksHeld, Actors
<1>3. 0 # None
  BY Distinct
<1>4. Durable
  BY <1>1, <1>3 DEF Init, Durable, InWindow, At, NothingLost, Visible
<1>5. BeingWritten
  BY Distinct DEF Init, BeingWritten
<1>. QED
  BY <1>2, <1>4, <1>5, ShapeInit DEF IInv

(* A restore is alone with the files, as far as the lock goes.             *)
LEMMA Alone ==
  ASSUME Shape, LocksHeld
  PROVE  /\ \A a \in Actors : act[a].op = "restore" => a \in Workers
         /\ (\E a \in Actors : act[a].op = "restore") =>
              \A w \in Workers : act[w].op \notin {"sql", "backup"}
         /\ InWindow => \E a \in Actors : act[a].op = "restore"
<1>1. \A a \in Actors : act[a].op = "restore" => a \in Workers
  BY DEF Shape, Phases, Actors
<1>2. ASSUME NEW a \in Actors, act[a].op = "restore", NEW w \in Workers
      PROVE  act[w].op \notin {"sql", "backup"}
  BY <1>1, <1>2 DEF LocksHeld, L!Exclusion
<1>3. InWindow => \E a \in Actors : act[a].op = "restore"
  BY DEF InWindow, At, Shape, Phases, Fits
<1>. QED
  BY <1>1, <1>2, <1>3

-----------------------------------------------------------------------------
(* Their preservation, by the kind of the step.                            *)

LEMMA ShapeByEffect ==
  ASSUME Shape, NEW a \in Actors, TypeOK', Effect(a)
  PROVE  Shape'
<1>1. ASSUME NEW b \in Actors PROVE Fits(act'[b])
  BY DisturbedFits DEF Effect, Shape, Phases
<1>2. Scheduler \in Actors
  BY DEF Actors
<1>3. act'[Scheduler].op \in {act[Scheduler].op, "none"}
  BY <1>2 DEF Effect, Disturbed
<1>. QED
  BY <1>1, <1>3 DEF Shape, Phases

LEMMA LocksByEffect ==
  ASSUME LocksHeld, NEW a \in Actors, Effect(a), UNCHANGED <<readers, writers>>
  PROVE  LocksHeld'
<1>1. ASSUME NEW w \in Workers PROVE act'[w].op \in {act[w].op, "none"}
  BY DEF Effect, Disturbed, Actors
<1>. QED
  BY <1>1 DEF LocksHeld, L!Exclusion

\* The window, when at most a enters or leaves it.
LEMMA WindowByEffect ==
  ASSUME NEW a \in Actors, \A b \in Actors \ {a} : Disturbed(act[b], act'[b])
  PROVE  /\ act[a].pc # "RemoveWal" /\ act'[a].pc # "RemoveWal" => InWindow' = InWindow
         /\ act[a].pc = "RemoveWal" => InWindow
         /\ act'[a].pc = "RemoveWal" => InWindow'
<1>1. \A b \in Actors \ {a} : act'[b].pc = act[b].pc
  BY DEF Disturbed
<1>2. InWindow <=> \E b \in Actors : act[b].pc = "RemoveWal"
  BY DEF InWindow, At
<1>3. InWindow' <=> \E b \in Actors : act'[b].pc = "RemoveWal"
  BY DEF InWindow, At
<1>4. InWindow \in BOOLEAN /\ InWindow' \in BOOLEAN
  BY DEF InWindow
<1>. QED
  BY <1>1, <1>2, <1>3, <1>4

LEMMA DurableQuiet ==
  ASSUME Durable, NEW a \in Actors, Quiet(a)
  PROVE  Durable'
<1>1. InWindow' = InWindow
  BY OthersDisturbed, WindowByEffect DEF Quiet
<1>2. Visible' = Visible
  BY DEF Quiet, Visible
<1>. QED
  BY <1>1, <1>2 DEF Durable, Quiet, Others, NothingLost

LEMMA DurableOpened ==
  ASSUME Durable, NEW a \in Actors, Opened(a)
  PROVE  Durable'
<1>1. InWindow' = InWindow
  BY OthersDisturbed, WindowByEffect DEF Opened
<1>2. row' = "active" => db' = db
  BY DEF Opened, Durable
<1>3. ~exposed' => ~exposed /\ ~(InWindow /\ wal # None)
  BY DEF Opened
<1>4. row' = "active" => dir' /\ db' # None
        /\ \A b \in Actors : act'[b].pc \notin {"RemoveAll", "MarkWiped"}
  BY <1>2 DEF Durable, Opened, Others
<1>5. ~exposed' => \A b \in Actors : act'[b].conn = "cur" => act'[b].own = None
  BY <1>3 DEF Durable, Opened, Others
<1>6. ~(InWindow' /\ ~exposed' /\ wal' # None)
  BY <1>1, <1>3 DEF Opened
<1>7. row' = "active" /\ ~exposed' /\ InWindow' => db' = expected'
  BY <1>1, <1>2, <1>3 DEF Durable, Opened
<1>8. NothingLost'
  BY <1>1, <1>2, <1>3 DEF Durable, Opened, NothingLost, Visible
<1>. QED
  BY <1>4, <1>5, <1>6, <1>7, <1>8 DEF Durable

LEMMA DurableClose ==
  ASSUME Shape, Durable, NEW a \in Actors, Close(a)
  PROVE  Durable'
<1>1. /\ Others(a) /\ act[a].pc # "RemoveWal" /\ act'[a].conn = "none"
      /\ act'[a].pc \notin {"RemoveWal", "MarkWiped", "RemoveAll"}
      /\ \/ UNCHANGED <<db, wal>>
         \/ /\ act[a].conn = "cur" /\ wal' = None
            /\ db' = IF act[a].own # None THEN act[a].own ELSE Visible
      /\ UNCHANGED <<row, dir, expected, exposed>>
  BY CloseEffect
<1>2. InWindow' = InWindow
  BY <1>1, OthersDisturbed, WindowByEffect
<1>3. db # None => db' # None
  BY <1>1 DEF Visible
<1>4. ~exposed => Visible' = Visible
  BY <1>1 DEF Durable, Visible
<1>5. ~exposed /\ InWindow => db' = db
  BY <1>1 DEF Durable, Visible
<1>6. row' = "active" => dir' /\ db' # None
        /\ \A b \in Actors : act'[b].pc \notin {"RemoveAll", "MarkWiped"}
  BY <1>1, <1>3 DEF Durable, Others
<1>7. ~exposed' => \A b \in Actors : act'[b].conn = "cur" => act'[b].own = None
  BY <1>1 DEF Durable, Others
<1>8. InWindow' /\ ~exposed' /\ wal' # None => \A b \in Actors : act'[b].conn # "cur"
  BY <1>1, <1>2 DEF Durable, Others
<1>9. row' = "active" /\ ~exposed' /\ InWindow' => db' = expected'
  BY <1>1, <1>2, <1>5 DEF Durable
<1>10. NothingLost'
  BY <1>1, <1>2, <1>4 DEF Durable, NothingLost
<1>. QED
  BY <1>6, <1>7, <1>8, <1>9, <1>10 DEF Durable

LEMMA DurableCommit ==
  ASSUME Shape, LocksHeld, Durable, NEW w \in Workers, Commit(w)
  PROVE  Durable'
<1>1. /\ act[w].op = "sql" /\ wal' # None /\ expected' = wal'
      /\ UNCHANGED <<row, dir, db, act, exposed>>
  BY CommitEffect
<1>2. ~InWindow /\ ~InWindow'
  BY <1>1, Alone DEF InWindow, At
<1>3. NothingLost'
  BY <1>1 DEF NothingLost, Visible
<1>. QED
  BY <1>1, <1>2, <1>3 DEF Durable

LEMMA DurableRename ==
  ASSUME Shape, Durable, NEW w \in Workers, Rename(w)
  PROVE  Durable'
<1>1. w \in Actors /\ Effect(w)
  BY RenameEffect DEF Actors
<1>2. CASE Quiet(w)
  BY <1>1, <1>2, DurableQuiet
<1>3. CASE /\ act[w].pc = "Rename" /\ act'[w].pc = "RemoveWal"
           /\ \A b \in Actors : act'[b].conn # "cur"
           /\ db' # None /\ expected' = db'
           /\ UNCHANGED <<row, dir, exposed>>
  <2>1. InWindow'
    BY <1>1, <1>3, WindowByEffect DEF Effect
  <2>2. \A b \in Actors \ {w} : act'[b].pc = act[b].pc
    BY <1>1 DEF Effect, Disturbed
  <2>. QED
    BY <1>3, <2>1, <2>2 DEF Durable, NothingLost
<1>. QED
  BY <1>2, <1>3, RenameEffect

LEMMA DurableRemoveWal ==
  ASSUME Shape, Durable, NEW w \in Workers, RemoveWal(w)
  PROVE  Durable'
<1>1. /\ w \in Actors /\ Effect(w)
      /\ UNCHANGED <<row, dir, db, expected>>
      /\ act[w].pc = "RemoveWal" /\ act'[w].pc = "Release" /\ act'[w].conn = "none"
      /\ \/ /\ wal' = None /\ exposed' = exposed
            /\ \A b \in Actors : act'[b].conn = "cur" =>
                 act[b].conn = "cur" /\ act'[b].own = wal
         \/ /\ wal' = wal /\ exposed' = (exposed \/ wal # None)
            /\ Others(w)
  BY RemoveWalEffect DEF Actors
<1>2. InWindow
  BY <1>1, WindowByEffect DEF Effect
<1>3. \A b \in Actors \ {w} : act'[b].pc = act[b].pc
  BY <1>1 DEF Effect, Disturbed
<1>4. row' = "active" => dir' /\ db' # None
        /\ \A b \in Actors : act'[b].pc \notin {"RemoveAll", "MarkWiped"}
  BY <1>1, <1>3 DEF Durable
<1>5. ~exposed' => ~exposed /\ wal' = None
  BY <1>1
<1>6. ~exposed' => \A b \in Actors : act'[b].conn = "cur" => act'[b].own = None
  BY <1>1, <1>2, <1>5 DEF Durable, Others
<1>7. row' = "active" /\ ~exposed' => db' = expected' /\ Visible' = db'
  BY <1>1, <1>2, <1>5 DEF Durable, Visible
<1>. QED
  BY <1>4, <1>5, <1>6, <1>7 DEF Durable, NothingLost

LEMMA DurableRemoveAll ==
  ASSUME Shape, Durable, NEW w \in Workers, RemoveAll(w)
  PROVE  Durable'
<1>1. w \in Actors /\ act[w].pc = "RemoveAll" /\ UNCHANGED row
      /\ \A b \in Actors : act'[b].conn # "cur"
  BY RemoveAllEffect DEF Actors
<1>2. row' # "active"
  BY <1>1 DEF Durable
<1>. QED
  BY <1>1, <1>2 DEF Durable, NothingLost

LEMMA DurableCrash ==
  ASSUME Shape, Durable, Crash
  PROVE  Durable'
<1>1. /\ act' = [a \in Actors |-> Idle]
      /\ exposed' = (exposed \/ (InWindow /\ wal # None))
      /\ UNCHANGED <<row, dir, db, wal, expected>>
  BY CrashEffect
<1>2. \A a \in Actors : act'[a].conn = "none" /\ act'[a].pc = "idle"
  BY <1>1 DEF Idle
<1>3. ~InWindow'
  BY <1>2 DEF InWindow, At
<1>4. ~exposed' => ~exposed /\ ~(InWindow /\ wal # None)
  BY <1>1
<1>5. NothingLost'
  BY <1>1, <1>4 DEF Durable, NothingLost, Visible
<1>. QED
  BY <1>1, <1>2, <1>3, <1>5 DEF Durable

\* Failures are counted, not forgotten.
LEMMA FaultsStay ==
  ASSUME TypeOK, [Next]_vars
  PROVE  faults' <= 1 => faults <= 1
<1>1. faults \in Nat
  BY Bounds DEF TypeOK
<1>. SUFFICES faults' \in {faults, faults + 1, faults + 2}
  BY <1>1
<1>2. ASSUME NEW w \in Workers, Arrive(w) PROVE faults' = faults
  BY <1>2 DEF Arrive, BeginSQL, BeginStats, BeginBackup, BeginRestore, BeginWipe, Begin, bounds
<1>3. ASSUME NEW a \in Actors, Step(a) PROVE faults' \in {faults, faults + 1, faults + 2}
  <2>1. CASE Open(a) \/ Mkdir(a) \/ Vacuum(a) \/ Close(a)
    BY <2>1 DEF Open, Mkdir, Vacuum, Close, bounds
  <2>2. CASE VacuumEnd(a)
    BY <2>2 DEF VacuumEnd, Fault
  <2>3. CASE a \in Workers /\ (Commit(a) \/ Finish(a) \/ Release(a))
    BY <2>3 DEF Commit, Finish, Release, bounds
  <2>4. CASE a \in Workers /\ (Copy(a) \/ Rename(a) \/ RemoveWal(a))
    BY <2>4 DEF Copy, Rename, RemoveWal, Fault
  <2>5. CASE a \in Workers /\ (RemoveAll(a) \/ MarkWiped(a))
    BY <2>5 DEF RemoveAll, MarkWiped, Fault
  <2>6. CASE a = Scheduler /\ (PruneList \/ PruneRemove)
    BY <2>6 DEF PruneList, PruneRemove, Fault, bounds
  <2>. QED
    BY <1>3, <2>1, <2>2, <2>3, <2>4, <2>5, <2>6 DEF Step
<1>4. CASE Tick \/ Delete \/ Crash \/ UNCHANGED vars
  BY <1>4 DEF Tick, Begin, Delete, Crash, bounds, vars
<1>. QED
  BY <1>2, <1>3, <1>4 DEF Next

LEMMA WrittenByEffect ==
  ASSUME BeingWritten, NEW a \in Actors, NoPartial(a), faults' <= 1 => faults <= 1,
         \A b \in Actors \ {a} : Disturbed(act[b], act'[b])
  PROVE  BeingWritten'
<1>. SUFFICES ASSUME crashes' = 0, faults' <= 1, NEW n \in Names, backups'[n] = Partial
              PROVE  \E b \in Actors : act'[b].name = n /\ act'[b].pc = "VacuumEnd"
  BY DEF BeingWritten
<1>1. PICK b \in Actors : act[b].name = n /\ act[b].pc = "VacuumEnd"
  BY DEF BeingWritten, NoPartial
<1>2. b # a
  BY <1>1 DEF NoPartial
<1>. QED
  BY <1>1, <1>2 DEF Disturbed

LEMMA WrittenVacuum ==
  ASSUME Shape, BeingWritten, NEW a \in Actors, Vacuum(a)
  PROVE  BeingWritten'
<1>1. \A b \in Actors \ {a} : Disturbed(act[b], act'[b])
  BY VacuumEffect DEF Effect
<1>2. CASE NoPartial(a)
  BY <1>1, <1>2, WrittenByEffect DEF Vacuum, bounds
<1>3. CASE /\ backups' = [backups EXCEPT ![act[a].name] = Partial]
           /\ act'[a].pc = "VacuumEnd" /\ act'[a].name = act[a].name
  <2>. SUFFICES ASSUME crashes' = 0, faults' <= 1, NEW n \in Names, backups'[n] = Partial
                PROVE  \E b \in Actors : act'[b].name = n /\ act'[b].pc = "VacuumEnd"
    BY DEF BeingWritten
  <2>1. CASE n = act[a].name
    BY <1>3, <2>1
  <2>2. CASE n # act[a].name
    <3>1. backups[n] = Partial /\ crashes = 0 /\ faults <= 1
      BY <1>3, <2>2, ShapeFits DEF Vacuum, bounds
    <3>2. PICK b \in Actors : act[b].name = n /\ act[b].pc = "VacuumEnd"
      BY <3>1 DEF BeingWritten
    <3>3. b # a
      BY <2>2, <3>2
    <3>. QED
      BY <1>1, <3>2, <3>3 DEF Disturbed
  <2>. QED
    BY <2>1, <2>2
<1>. QED
  BY <1>2, <1>3, VacuumEffect

LEMMA WrittenVacuumEnd ==
  ASSUME Shape, BeingWritten, NEW a \in Actors, VacuumEnd(a)
  PROVE  BeingWritten'
<1>. SUFFICES ASSUME crashes' = 0, faults' <= 1, NEW n \in Names, backups'[n] = Partial
              PROVE  \E b \in Actors : act'[b].name = n /\ act'[b].pc = "VacuumEnd"
  BY DEF BeingWritten
<1>0. faults \in Nat /\ faults' \in Nat /\ faults <= faults'
  BY Bounds, ShapeFits, TypeVacuumEnd DEF VacuumEnd, Fault, TypeOK
<1>1. crashes = 0 /\ faults <= 1 /\ backups[n] = Partial /\ n # act[a].name
      /\ \A b \in Actors \ {a} : Disturbed(act[b], act'[b])
  BY <1>0, VacuumEndEffect DEF Effect
<1>2. PICK b \in Actors : act[b].name = n /\ act[b].pc = "VacuumEnd"
  BY <1>1 DEF BeingWritten
<1>. QED
  BY <1>1, <1>2 DEF Disturbed

-----------------------------------------------------------------------------
(* Every step preserves the invariant.                                     *)

\* The steps of an actor that neither read nor change what the invariants
\* about files and backups say.
LEMMA IInvQuiet ==
  ASSUME IInv, NEW a \in Actors, TypeOK', Effect(a), NoPartial(a), Quiet(a),
         UNCHANGED <<readers, writers>>, faults' <= 1 => faults <= 1
  PROVE  IInv'
<1>1. \A b \in Actors \ {a} : Disturbed(act[b], act'[b])
  BY DEF Effect
<1>. QED
  BY <1>1, ShapeByEffect, LocksByEffect, DurableQuiet, WrittenByEffect DEF IInv

LEMMA IInvArrive ==
  ASSUME IInv, NEW w \in Workers, Arrive(w)
  PROVE  IInv'
<1>1. /\ w \in Actors /\ Shape' /\ Others(w)
      /\ act[w].pc = "idle" /\ act'[w].conn = "none"
      /\ act'[w].pc \in {"Open", "Mkdir", "Copy", "RemoveAll"}
      /\ act'[w].pc = "RemoveAll" => row = "deleted"
      /\ UNCHANGED <<row, dir, db, wal, backups, expected, exposed, crashes>>
  BY ShapeArrive DEF IInv, Actors
<1>2. \/ BeginSQL(w) /\ act'[w].op = "sql"
      \/ BeginBackup(w) /\ act'[w].op = "backup"
      \/ BeginRestore(w) /\ act'[w].op = "restore"
      \/ UNCHANGED <<readers, writers>> /\ act'[w].op \in {"stats", "wipe"}
  BY ShapeArrive DEF IInv
<1>3. \A v \in Workers \ {w} : act'[v].op = act[v].op
  BY <1>1 DEF Others, Actors
<1>4. LocksHeld'
  <2>1. LocksHeld
    BY DEF IInv
  <2>2. CASE (BeginSQL(w) /\ act'[w].op = "sql") \/ (BeginBackup(w) /\ act'[w].op = "backup")
    BY <1>3, <2>1, <2>2 DEF LocksHeld, L!Exclusion, BeginSQL, BeginBackup, L!TryReadLock
  <2>3. CASE BeginRestore(w) /\ act'[w].op = "restore"
    BY <1>3, <2>1, <2>3 DEF LocksHeld, L!Exclusion, BeginRestore, L!TryWriteLock
  <2>4. CASE UNCHANGED <<readers, writers>> /\ act'[w].op \in {"stats", "wipe"}
    BY <1>3, <2>1, <2>4 DEF LocksHeld, L!Exclusion
  <2>. QED
    BY <1>2, <2>2, <2>3, <2>4
<1>5. Quiet(w) /\ NoPartial(w)
  BY <1>1 DEF Quiet, NoPartial
<1>6. \A b \in Actors \ {w} : Disturbed(act[b], act'[b])
  BY <1>1, OthersDisturbed
<1>7. faults' <= 1 => faults <= 1
  BY FaultsStay DEF IInv, Shape, Next
<1>. QED
  BY <1>1, <1>4, <1>5, <1>6, <1>7, DurableQuiet, WrittenByEffect DEF IInv

LEMMA IInvStep ==
  ASSUME IInv, NEW a \in Actors, Step(a)
  PROVE  IInv'
<1>1. Shape /\ LocksHeld /\ Durable /\ BeingWritten /\ (faults' <= 1 => faults <= 1)
  BY FaultsStay DEF IInv, Shape, Next
<1>2. CASE Open(a)
  <2>1. \A b \in Actors \ {a} : Disturbed(act[b], act'[b])
    BY <1>1, <1>2, OpenEffect DEF Effect
  <2>. QED
    BY <1>1, <1>2, <2>1, OpenEffect, ShapeByEffect, LocksByEffect, DurableQuiet,
      DurableOpened, WrittenByEffect DEF IInv
<1>3. CASE Mkdir(a)
  BY <1>1, <1>3, MkdirEffect, IInvQuiet
<1>4. CASE Vacuum(a)
  BY <1>1, <1>4, VacuumEffect, ShapeByEffect, LocksByEffect, DurableQuiet, DurableOpened,
    WrittenVacuum DEF IInv
<1>5. CASE VacuumEnd(a)
  BY <1>1, <1>5, VacuumEndEffect, ShapeByEffect, LocksByEffect, DurableQuiet,
    WrittenVacuumEnd DEF IInv
<1>6. CASE Close(a)
  <2>1. \A b \in Actors \ {a} : Disturbed(act[b], act'[b])
    BY <1>1, <1>6, CloseEffect DEF Effect
  <2>. QED
    BY <1>1, <1>6, <2>1, CloseEffect, ShapeByEffect, LocksByEffect, DurableClose,
      WrittenByEffect DEF IInv
<1>7. CASE a \in Workers /\ Commit(a)
  <2>1. /\ TypeOK' /\ UNCHANGED <<act, backups, crashes, faults, readers, writers>>
    BY <1>1, <1>7, CommitEffect DEF Commit, bounds
  <2>2. Shape' /\ LocksHeld' /\ BeingWritten'
    BY <1>1, <2>1 DEF Shape, Phases, LocksHeld, L!Exclusion, BeingWritten
  <2>. QED
    BY <1>1, <1>7, <2>2, DurableCommit DEF IInv
<1>8. CASE a \in Workers /\ Finish(a)
  BY <1>1, <1>8, FinishEffect, IInvQuiet
<1>9. CASE a \in Workers /\ Release(a)
  <2>1. /\ TypeOK' /\ Effect(a) /\ NoPartial(a) /\ Quiet(a)
        /\ act'[a].op = "none"
        /\ \/ readers' = readers \ {a} /\ writers' = writers
           \/ writers' = writers \ {a} /\ readers' = readers
    BY <1>1, <1>9, ReleaseEffect
  <2>2. \A v \in Workers \ {a} : act'[v].op = act[v].op
    BY <2>1 DEF Quiet, Others, Actors
  <2>3. LocksHeld'
    BY <1>1, <2>1, <2>2 DEF LocksHeld, L!Exclusion
  <2>4. \A b \in Actors \ {a} : Disturbed(act[b], act'[b])
    BY <2>1 DEF Effect
  <2>. QED
    BY <1>1, <2>1, <2>3, <2>4, ShapeByEffect, DurableQuiet, WrittenByEffect DEF IInv
<1>10. CASE a \in Workers /\ Copy(a)
  BY <1>1, <1>10, CopyEffect, IInvQuiet
<1>11. CASE a \in Workers /\ Rename(a)
  <2>1. \A b \in Actors \ {a} : Disturbed(act[b], act'[b])
    BY <1>1, <1>11, RenameEffect DEF Effect
  <2>. QED
    BY <1>1, <1>11, <2>1, RenameEffect, ShapeByEffect, LocksByEffect, DurableRename,
      WrittenByEffect DEF IInv
<1>12. CASE a \in Workers /\ RemoveWal(a)
  <2>1. \A b \in Actors \ {a} : Disturbed(act[b], act'[b])
    BY <1>1, <1>12, RemoveWalEffect DEF Effect
  <2>. QED
    BY <1>1, <1>12, <2>1, RemoveWalEffect, ShapeByEffect, LocksByEffect, DurableRemoveWal,
      WrittenByEffect DEF IInv
<1>13. CASE a \in Workers /\ RemoveAll(a)
  <2>1. \A b \in Actors \ {a} : Disturbed(act[b], act'[b])
    BY <1>1, <1>13, RemoveAllEffect DEF Effect
  <2>. QED
    BY <1>1, <1>13, <2>1, RemoveAllEffect, ShapeByEffect, LocksByEffect, DurableRemoveAll,
      WrittenByEffect DEF IInv
<1>14. CASE a \in Workers /\ MarkWiped(a)
  BY <1>1, <1>14, MarkWipedEffect, IInvQuiet
<1>15. CASE a = Scheduler /\ (PruneList \/ PruneRemove)
  BY <1>1, <1>15, PruneEffect, IInvQuiet
<1>. QED
  BY <1>2, <1>3, <1>4, <1>5, <1>6, <1>7, <1>8, <1>9, <1>10, <1>11, <1>12, <1>13, <1>14,
    <1>15 DEF Step

LEMMA IInvNext == IInv /\ [Next]_vars => IInv'
<1>. SUFFICES ASSUME IInv, [Next]_vars PROVE IInv'
  OBVIOUS
<1>1. Shape /\ LocksHeld /\ Durable /\ BeingWritten /\ (faults' <= 1 => faults <= 1)
  BY FaultsStay DEF IInv, Shape
<1>2. CASE \E w \in Workers : Arrive(w)
  BY <1>2, IInvArrive
<1>3. CASE \E a \in Actors : Step(a)
  BY <1>3, IInvStep
<1>4. CASE Tick
  <2>1. /\ Scheduler \in Actors /\ Shape' /\ NoPartial(Scheduler) /\ Quiet(Scheduler)
        /\ UNCHANGED <<readers, writers>>
    BY <1>1, <1>4, TickEffect DEF Actors
  <2>2. \A b \in Actors \ {Scheduler} : Disturbed(act[b], act'[b])
    BY <2>1, OthersDisturbed DEF Quiet
  <2>3. \A w \in Workers : act'[w].op = act[w].op
    BY <2>1, DataAssumption DEF Quiet, Others, Actors
  <2>4. LocksHeld'
    BY <1>1, <2>1, <2>3 DEF LocksHeld, L!Exclusion
  <2>. QED
    BY <1>1, <2>1, <2>2, <2>4, DurableQuiet, WrittenByEffect DEF IInv
<1>5. CASE Delete
  <2>1. /\ Shape' /\ row' = "deleted"
        /\ UNCHANGED <<dir, db, wal, backups, readers, writers, act, expected, exposed,
                       crashes, faults>>
    BY <1>1, <1>5, DeleteEffect DEF Delete, bounds
  <2>2. InWindow' = InWindow
    BY <2>1 DEF InWindow, At
  <2>3. Durable'
    BY <1>1, <2>1, <2>2 DEF Durable, NothingLost
  <2>4. LocksHeld' /\ BeingWritten'
    BY <1>1, <2>1 DEF LocksHeld, L!Exclusion, BeingWritten
  <2>. QED
    BY <2>1, <2>3, <2>4 DEF IInv
<1>6. CASE Crash
  <2>1. /\ Shape' /\ act' = [a \in Actors |-> Idle] /\ crashes' # 0
        /\ readers' = {} /\ writers' = {}
    BY <1>1, <1>6, CrashEffect
  <2>2. \A w \in Workers : act'[w].op = "none"
    BY <2>1 DEF Idle, Actors
  <2>3. LocksHeld' /\ BeingWritten'
    BY <2>1, <2>2 DEF LocksHeld, L!Exclusion, BeingWritten
  <2>. QED
    BY <1>1, <1>6, <2>1, <2>3, DurableCrash DEF IInv
<1>7. CASE UNCHANGED vars
  <2>1. UNCHANGED <<row, dir, db, wal, backups, victims, readers, writers, act, commits,
                    expected, exposed, faults, crashes>>
    BY <1>7 DEF vars, files, locks, history, bounds
  <2>2. TypeOK' /\ Phases'
    BY <1>1, <2>1 DEF Shape, TypeOK, L!TypeOK, Phases
  <2>3. InWindow' = InWindow /\ Visible' = Visible
    BY <2>1 DEF InWindow, At, Visible
  <2>4. LocksHeld' /\ BeingWritten' /\ Durable'
    BY <1>1, <2>1, <2>3 DEF LocksHeld, L!Exclusion, BeingWritten, Durable, NothingLost
  <2>. QED
    BY <2>2, <2>4 DEF IInv, Shape
<1>. QED
  BY <1>2, <1>3, <1>4, <1>5, <1>6, <1>7 DEF Next

(* The inductive invariant of the data plane: types, the shape of the      *)
(* local states, who has the lock, and where the last commit is.           *)
THEOREM DataInvariant == Spec => []IInv
BY IInvInit, IInvNext, PTL DEF Spec

-----------------------------------------------------------------------------
(* Theorems.                                                               *)

(* The values of the variables, of any number of requests: what a restore  *)
(* puts in place is the content of a file that was there.                  *)
THEOREM TypeCorrect == Spec => []TypeOK
<1>1. IInv => TypeOK
  BY DEF IInv, Shape
<1>. QED
  BY <1>1, DataInvariant, PTL

(* No SQL request and no manual backup has the database open while a       *)
(* restore replaces its files, however many there are.                     *)
THEOREM RestoreExclusiveAlways == Spec => []RestoreExclusive
<1>1. IInv => RestoreExclusive
  <2>. SUFFICES ASSUME IInv, NEW v \in Workers, act[v].pc \in {"Copy", "Rename", "RemoveWal"},
                       NEW w \in Workers, act[w].op \in {"sql", "backup"}
                PROVE  act[w].conn = "none"
    BY DEF RestoreExclusive
  <2>1. v \in Actors /\ act[v].op = "restore"
    BY DEF IInv, Shape, Phases, Fits, Actors
  <2>. QED
    BY <2>1, Alone DEF IInv
<1>. QED
  BY <1>1, DataInvariant, PTL

(* What a new connection to an active project sees is the last commit or   *)
(* restore, after any number of failures and crashes, unless a restore was *)
(* exposed.                                                                *)
THEOREM NothingLostAlways == Spec => []NothingLost
<1>1. IInv => NothingLost
  BY DEF IInv, Durable
<1>. QED
  BY <1>1, DataInvariant, PTL

(* Without a crash, and with one failed call at most, every unfinished     *)
(* backup is being written: what leaves one is a crash, or a VACUUM that   *)
(* fails and a removal that fails too.                                     *)
THEOREM NoAbandonedPartialAlways == Spec => []NoAbandonedPartial
<1>1. IInv => NoAbandonedPartial
  BY DEF IInv, BeingWritten, NoAbandonedPartial
<1>. QED
  BY <1>1, DataInvariant, PTL

-----------------------------------------------------------------------------
(* Retention.                                                              *)

\* The order of the natural numbers, to name the last of the removed files.
Before == {p \in Nat \X Nat : p[1] < p[2]}

LEMMA BeforeIsLess == OpToRel(<,Nat) = Before
BY Zenon DEF OpToRel, Before

LEMMA BeforeWellFounded == IsWellFoundedOn(Before, Nat)
BY BeforeIsLess, NatLessThanWellFounded

LEMMA Least ==
  ASSUME NEW T \in SUBSET Nat, T # {}
  PROVE  \E x \in T : \A y \in T : x <= y
<1>1. PICK x \in T : \A y \in T : <<y, x>> \notin Before
  BY BeforeWellFounded, WFMin
<1>2. ASSUME NEW y \in T
      PROVE  x <= y
  <2>1. x \in Nat /\ y \in Nat /\ <<y, x>> \notin Before
    BY <1>1
  <2>2. ~(y < x)
    BY <2>1 DEF Before
  <2>. QED
    BY <2>1, <2>2
<1>. QED
  BY <1>1, <1>2

(* If anything is to be removed, at least keep files are not.              *)
LEMMA OldestKeeps ==
  ASSUME NEW names \in SUBSET Nat, IsFiniteSet(names), NEW keep \in Nat,
         Oldest(names, keep) # {}
  PROVE  Cardinality(names \ Oldest(names, keep)) >= keep
<1>. DEFINE Later(n) == {m \in names : m > n}
<1>1. \A n : IsFiniteSet(Later(n)) /\ Cardinality(Later(n)) \in Nat
  BY FS_Subset, FS_CardinalityType
<1>. DEFINE counts == {Cardinality(Later(n)) : n \in Oldest(names, keep)}
<1>2. PICK c \in counts : \A d \in counts : c <= d
  <2>1. counts \in SUBSET Nat /\ counts # {}
    BY <1>1
  <2>. HIDE DEF counts
  <2>. QED
    BY <2>1, Least
<1>3. PICK n \in Oldest(names, keep) : c = Cardinality(Later(n))
  BY <1>2
<1>4. n \in names /\ Cardinality(Later(n)) >= keep
  BY <1>3 DEF Oldest
<1>5. Later(n) \subseteq names \ Oldest(names, keep)
  <2>. SUFFICES ASSUME NEW m \in Later(n), m \in Oldest(names, keep) PROVE FALSE
    OBVIOUS
  <2>1. m \in names /\ m > n /\ n \in Nat /\ m \in Nat
    BY <1>4
  <2>2. Later(m) \subseteq Later(n) /\ m \in Later(n) /\ m \notin Later(m)
    <3>1. \A k \in names : k \in Nat /\ (k > m => k > n) /\ ~(m > m)
      BY <2>1
    <3>. QED
      BY <2>1, <3>1
  <2>3. Cardinality(Later(m)) < Cardinality(Later(n))
    <3>. HIDE DEF Later
    <3>1. Cardinality(Later(m)) <= Cardinality(Later(n)) /\ Later(m) # Later(n)
      BY <1>1, <2>2, FS_Subset
    <3>2. Cardinality(Later(m)) # Cardinality(Later(n))
      BY <1>1, <2>2, <3>1, FS_Subset
    <3>. QED
      BY <1>1, <3>1, <3>2
  <2>4. Cardinality(Later(m)) \in counts
    OBVIOUS
  <2>5. c <= Cardinality(Later(m))
    <3>. HIDE DEF counts
    <3>. QED
      BY <1>2, <2>4
  <2>. HIDE DEF Later, counts
  <2>. QED
    BY <1>1, <1>3, <2>3, <2>5
<1>. HIDE DEF Later
<1>6. IsFiniteSet(names \ Oldest(names, keep))
  BY FS_Subset
<1>7. /\ Cardinality(Later(n)) <= Cardinality(names \ Oldest(names, keep))
      /\ Cardinality(names \ Oldest(names, keep)) \in Nat
  BY <1>5, <1>6, FS_Subset, FS_CardinalityType
<1>. QED
  BY <1>1, <1>4, <1>7

Existing == {n \in Names : backups[n] # None}

\* While files of an active project are being removed, enough of them stay.
Kept ==
  row = "active" /\ faults = 0 /\ victims # {} => Cardinality(Existing \ victims) >= MaxGen

\* No backup of an active project goes away.
Grows ==
  row' = "active" /\ faults' = 0 =>
    /\ row = "active" /\ faults = 0 /\ victims' = victims
    /\ \A n \in Names : backups[n] # None => backups'[n] # None

LEMMA KeptByGrows ==
  ASSUME Kept, Grows
  PROVE  Kept'
<1>. SUFFICES ASSUME row' = "active", faults' = 0, victims' # {}
              PROVE  Cardinality(Existing' \ victims') >= MaxGen
  BY DEF Kept
<1>1. Cardinality(Existing \ victims) >= MaxGen
  BY DEF Kept, Grows
<1>2. Existing \ victims \subseteq Existing' \ victims'
  BY DEF Grows, Existing
<1>3. IsFiniteSet(Existing \ victims) /\ IsFiniteSet(Existing' \ victims')
  BY DataAssumption, FS_Subset DEF Existing
<1>4. Cardinality(Existing \ victims) \in Nat /\ Cardinality(Existing' \ victims') \in Nat
  BY <1>3, FS_CardinalityType
<1>5. Cardinality(Existing \ victims) <= Cardinality(Existing' \ victims')
  BY <1>2, <1>3, FS_Subset
<1>. QED
  BY <1>1, <1>4, <1>5, DataAssumption

LEMMA FaultNotZero == TypeOK /\ Fault => faults' # 0
BY Bounds DEF Fault, TypeOK

LEMMA GrowsStep ==
  ASSUME IInv, NEW a \in Actors, Step(a)
  PROVE  Grows \/ PruneList \/ PruneRemove
<1>1. /\ Shape /\ TypeOK /\ Durable
      /\ backups \in [Names -> Contents \cup {None, Partial}]
      /\ None # Partial
  BY Distinct DEF IInv, Shape, TypeOK
<1>2. CASE Open(a) \/ Mkdir(a) \/ Close(a)
  BY <1>2 DEF Grows, Open, Mkdir, Close, bounds
<1>3. CASE Vacuum(a)
  BY <1>1, <1>3 DEF Grows, Vacuum, bounds
<1>4. CASE VacuumEnd(a)
  <2>1. act[a].snap # None
    BY <1>1, <1>4, ShapeFits DEF VacuumEnd, At, Fits
  <2>2. Accident /\ faults' = faults + 2 => faults' # 0
    BY <1>1, Bounds DEF TypeOK
  <2>. QED
    BY <1>1, <1>4, <2>1, <2>2, FaultNotZero DEF Grows, VacuumEnd
<1>5. CASE a \in Workers /\ (Commit(a) \/ Finish(a) \/ Release(a) \/ Copy(a))
  BY <1>1, <1>5, FaultNotZero DEF Grows, Commit, Finish, Release, Copy, files, bounds
<1>6. CASE a \in Workers /\ (Rename(a) \/ RemoveWal(a))
  BY <1>1, <1>6, FaultNotZero DEF Grows, Rename, RemoveWal
<1>7. CASE a \in Workers /\ RemoveAll(a)
  <2>1. row' # "active"
    BY <1>1, <1>7, RemoveAllEffect DEF Durable
  <2>. QED
    BY <2>1 DEF Grows
<1>8. CASE a \in Workers /\ MarkWiped(a)
  BY <1>1, <1>8, FaultNotZero DEF Grows, MarkWiped, files
<1>. QED
  BY <1>2, <1>3, <1>4, <1>5, <1>6, <1>7, <1>8 DEF Step

LEMMA KeptList ==
  ASSUME IInv, PruneList
  PROVE  Kept'
<1>1. /\ victims' = Oldest(Existing, MaxGen) /\ Existing' = Existing
      /\ Existing \in SUBSET Nat /\ IsFiniteSet(Existing) /\ MaxGen \in Nat
  BY DataAssumption, FS_Subset DEF PruneList, Existing, files
<1>. QED
  BY <1>1, OldestKeeps DEF Kept

LEMMA KeptRemove ==
  ASSUME IInv, Kept, PruneRemove
  PROVE  Kept' /\ RetentionStep
<1>1. /\ backups \in [Names -> Contents \cup {None, Partial}] /\ victims \subseteq Names
      /\ row' = row /\ TypeOK
  BY DEF IInv, Shape, TypeOK, PruneRemove
<1>2. CASE \E n \in victims : /\ backups' = [backups EXCEPT ![n] = None]
                              /\ victims' = victims \ {n}
                              /\ UNCHANGED faults
  <2>1. Existing' \ victims' = Existing \ victims
    BY <1>1, <1>2 DEF Existing
  <2>2. victims # {}
    BY <1>2
  <2>3. Kept'
    BY <1>1, <1>2, <2>1, <2>2 DEF Kept
  <2>4. row = "active" /\ faults = 0 =>
          Cardinality({n \in Names : backups'[n] # None}) >= MaxGen
    <3>. SUFFICES ASSUME row = "active", faults = 0
                  PROVE  Cardinality({n \in Names : backups'[n] # None}) >= MaxGen
      OBVIOUS
    <3>1. Cardinality(Existing \ victims) >= MaxGen
      BY <2>2 DEF Kept
    <3>2. Existing \ victims \subseteq Existing' /\ Existing' \subseteq Names
      BY <2>1 DEF Existing
    <3>3. IsFiniteSet(Existing') /\ IsFiniteSet(Existing \ victims)
      BY <3>2, DataAssumption, FS_Subset
    <3>4. /\ Cardinality(Existing') \in Nat /\ Cardinality(Existing \ victims) \in Nat
          /\ Cardinality(Existing \ victims) <= Cardinality(Existing')
      BY <3>2, <3>3, FS_Subset, FS_CardinalityType
    <3>5. Cardinality(Existing') >= MaxGen
      BY <3>1, <3>4, DataAssumption
    <3>. QED
      BY <3>5 DEF Existing
  <2>. QED
    BY <2>3, <2>4 DEF RetentionStep
<1>3. CASE victims' = {} /\ UNCHANGED backups
  BY <1>3 DEF Kept, RetentionStep
<1>. QED
  BY <1>2, <1>3 DEF PruneRemove

LEMMA KeptNext ==
  ASSUME IInv, Kept, [Next]_vars
  PROVE  Kept' /\ (PruneRemove => RetentionStep)
<1>1. PruneRemove => Kept' /\ RetentionStep
  BY KeptRemove
<1>2. Kept'
  <2>1. CASE \E w \in Workers : Arrive(w)
    <3>1. PICK w \in Workers : Arrive(w)
      BY <2>1
    <3>2. UNCHANGED <<row, backups, victims, faults>>
      BY <3>1, ShapeArrive DEF IInv
    <3>. QED
      BY <3>2, KeptByGrows DEF Grows
  <2>2. CASE \E a \in Actors : Step(a)
    BY <1>1, <2>2, GrowsStep, KeptByGrows, KeptList
  <2>3. CASE Tick
    BY <2>3, KeptByGrows DEF Grows, Tick, Begin, files, bounds
  <2>4. CASE Delete
    BY <2>4 DEF Kept, Delete
  <2>5. CASE Crash
    BY <2>5 DEF Kept, Crash
  <2>6. CASE UNCHANGED vars
    BY <2>6, KeptByGrows DEF Grows, vars, files, bounds
  <2>. QED
    BY <2>1, <2>2, <2>3, <2>4, <2>5, <2>6 DEF Next
<1>. QED
  BY <1>1, <1>2

(* Pruning leaves an active project MaxGen backups, for any MaxGen and any *)
(* number of files, whatever other backups, restores and reads do.         *)
THEOREM RetentionFloorAlways == Spec => RetentionFloor
<1>1. Init => Kept
  BY DEF Init, Kept
<1>2. IInv /\ Kept /\ [Next]_vars => Kept' /\ RetentionStep
  <2>. SUFFICES ASSUME IInv, Kept, [Next]_vars PROVE Kept' /\ RetentionStep
    OBVIOUS
  <2>1. ~PruneRemove => RetentionStep
    BY DEF RetentionStep
  <2>. QED
    BY <2>1, KeptNext
<1>3. RetentionStep => [RetentionStep]_vars
  OBVIOUS
<1>. QED
  BY <1>1, <1>2, <1>3, DataInvariant, PTL DEF Spec, RetentionFloor
=============================================================================
