------------------------- MODULE ProjectDataRefinement -------------------------
(***************************************************************************)
(* Proof that ProjectData implements BackedUpDatabase, and what follows    *)
(* for the files of a project.                                             *)
(***************************************************************************)
EXTENDS ProjectDataProofs

-----------------------------------------------------------------------------
(* The names of backups.                                                   *)

\* Everyone writes a backup of his own, in a file that was not there before.
Named ==
  /\ \A a, b \in Actors : a # b /\ act[a].name = act[b].name => act[a].name = None
  /\ \A a \in Actors :
       /\ act[a].pc \in {"Mkdir", "Vacuum", "VacuumEnd"} => act[a].op \in {"backup", "auto"}
       /\ act[a].pc \in {"Vacuum", "VacuumEnd"} => act[a].name \in Names
       /\ act[a].pc = "Vacuum" => backups[act[a].name] = None
       /\ act[a].pc = "VacuumEnd" => backups[act[a].name] \in {None, Partial}

\* What the others are doing, and with which backup, stays.
OthersSame(a) ==
  \A b \in Actors \ {a} : /\ act'[b].op = act[b].op /\ act'[b].pc = act[b].pc
                          /\ act'[b].name = act[b].name /\ act'[b].snap = act[b].snap

\* a does not begin or end a copy; it may have given up what it held.
Moved(a) ==
  /\ OthersSame(a)
  /\ act'[a].name \in {act[a].name, None}
  /\ act'[a].pc \notin {"Vacuum", "VacuumEnd"}
  /\ act'[a].pc = "Mkdir" => act'[a].op \in {"backup", "auto"}
  /\ \/ act'[a].op = act[a].op /\ act'[a].snap = act[a].snap
     \/ act'[a].snap = None

LEMMA SameOthers ==
  ASSUME NEW a \in Actors, Effect(a) \/ Others(a)
  PROVE  OthersSame(a)
BY DEF Effect, Others, OthersSame, Disturbed

LEMMA NamedInit == Init => Named
BY DEF Init, Named, Idle

LEMMA NamedMoved ==
  ASSUME Named, NEW a \in Actors, Moved(a),
         \A n \in Names : backups'[n] \in {backups[n], None}
  PROVE  Named'
<1>1. ASSUME NEW b \in Actors, NEW c \in Actors, b # c, act'[b].name = act'[c].name
      PROVE  act'[b].name = None
  BY <1>1 DEF Named, Moved, OthersSame
<1>2. ASSUME NEW b \in Actors
      PROVE  /\ act'[b].pc \in {"Mkdir", "Vacuum", "VacuumEnd"} =>
                  act'[b].op \in {"backup", "auto"}
             /\ act'[b].pc \in {"Vacuum", "VacuumEnd"} => act'[b].name \in Names
             /\ act'[b].pc = "Vacuum" => backups'[act'[b].name] = None
             /\ act'[b].pc = "VacuumEnd" => backups'[act'[b].name] \in {None, Partial}
  <2>1. CASE b = a
    BY <2>1 DEF Moved
  <2>2. CASE b # a
    BY <2>2 DEF Named, Moved, OthersSame
  <2>. QED
    BY <2>1, <2>2
<1>. QED
  BY <1>1, <1>2 DEF Named


-----------------------------------------------------------------------------
(* What each step does with names and with what is held.                   *)

LEMMA BeginHolds ==
  ASSUME Shape, NEW a \in Actors, NEW op \in Ops, NEW pc \in PCs, Begin(a, op, pc),
         pc \notin {"Vacuum", "VacuumEnd"}, pc = "Mkdir" => op \in {"backup", "auto"}
  PROVE  Moved(a) /\ UNCHANGED <<backups, commits, expected>>
<1>1. act[a] \in Locals /\ act \in [Actors -> Locals] /\ Fits(act[a]) /\ act[a].pc = "idle"
  BY ShapeFits DEF Begin, At
<1>2. act[a].name = None /\ act[a].snap = None
  BY <1>1 DEF Fits
<1>3. /\ act'[a].name = act[a].name /\ act'[a].snap = act[a].snap
      /\ act'[a].op = op /\ act'[a].pc = pc /\ Others(a)
  BY <1>1 DEF Begin, Others, Locals
<1>4. UNCHANGED <<backups, commits, expected>>
  BY DEF Begin, files, history
<1>. QED
  BY <1>2, <1>3, <1>4, SameOthers DEF Moved

LEMMA ArriveHolds ==
  ASSUME Shape, NEW w \in Workers, Arrive(w)
  PROVE  Moved(w) /\ UNCHANGED <<backups, commits, expected>>
<1>1. /\ w \in Actors /\ {"sql", "stats", "backup", "restore", "wipe"} \subseteq Ops
      /\ {"Open", "Mkdir", "Copy", "RemoveAll"} \subseteq PCs
  BY DEF Actors, Ops, PCs
<1>2. CASE BeginSQL(w)
  BY <1>1, <1>2, BeginHolds DEF BeginSQL
<1>3. CASE BeginStats(w)
  BY <1>1, <1>3, BeginHolds DEF BeginStats
<1>4. CASE BeginBackup(w)
  BY <1>1, <1>4, BeginHolds DEF BeginBackup
<1>5. CASE BeginRestore(w)
  BY <1>1, <1>5, BeginHolds DEF BeginRestore
<1>6. CASE BeginWipe(w)
  BY <1>1, <1>6, BeginHolds DEF BeginWipe
<1>. QED
  BY <1>2, <1>3, <1>4, <1>5, <1>6 DEF Arrive

LEMMA OpenHolds ==
  ASSUME Shape, NEW a \in Actors, Open(a)
  PROVE  Moved(a) /\ UNCHANGED <<backups, commits, expected>>
<1>1. TypeOK /\ act \in [Actors -> Locals]
  BY ShapeFits
<1>2. UNCHANGED <<backups, commits, expected>>
  BY DEF Open, Connect, history
<1>. DEFINE r == [act[a] EXCEPT !.pc = IF act[a].op = "sql" THEN "Run" ELSE "Close"]
<1>3. CASE Connect(a, r)
  <2>1. r \in Locals /\ r.op = act[a].op /\ r.name = act[a].name /\ r.snap = act[a].snap
        /\ r.pc \in {"Run", "Close"}
    BY <1>1, ConnectLocals, ShapeFits DEF Locals
  <2>. HIDE DEF r
  <2>2. /\ Others(a) /\ act'[a].op = act[a].op /\ act'[a].pc \in {"Run", "Close"}
        /\ act'[a].name = act[a].name /\ act'[a].snap = act[a].snap
    BY <1>1, <1>3, <2>1, ConnectMoves
  <2>. QED
    BY <1>2, <2>2, SameOthers DEF Moved
<1>4. CASE Goto(a, "Close")
  BY <1>1, <1>2, <1>4, GotoMoves, SameOthers DEF Moved, Keeps, PCs
<1>. QED
  BY <1>3, <1>4 DEF Open

LEMMA CloseHolds ==
  ASSUME Shape, NEW a \in Actors, Close(a)
  PROVE  Moved(a) /\ UNCHANGED <<backups, commits, expected>>
<1>1. TypeOK /\ act \in [Actors -> Locals] /\ act[a] \in Locals
  BY ShapeFits
<1>2. act'[a] = Closed(a) /\ Others(a)
  BY <1>1, ClosedLocal, Move DEF Close
<1>. DEFINE left == [act[a] EXCEPT !.conn = "none", !.own = None, !.snap = None]
<1>3. left \in Locals /\ left.snap = None /\ left.name = act[a].name
  BY <1>1 DEF Locals
<1>4. \A pc \in {"Release", "PruneList"} :
        LET l == [left EXCEPT !.pc = pc] IN
        l.snap = None /\ l.name = act[a].name /\ l.pc = pc
  BY <1>3 DEF Locals
<1>5. \/ Closed(a) = [left EXCEPT !.pc = "Release"]
      \/ Closed(a) = [left EXCEPT !.pc = "PruneList"]
      \/ Closed(a) = Idle
  BY DEF Closed
<1>. HIDE DEF left
<1>6. Idle.snap = None /\ Idle.name = None /\ Idle.pc = "idle"
  BY DEF Idle
<1>7. /\ act'[a].snap = None /\ act'[a].name \in {act[a].name, None}
      /\ act'[a].pc \in {"Release", "PruneList", "idle"}
  BY <1>2, <1>4, <1>5, <1>6
<1>8. UNCHANGED <<backups, commits, expected>>
  BY DEF Close, history
<1>. QED
  BY <1>2, <1>7, <1>8, SameOthers DEF Moved

LEMMA ReturnHolds ==
  ASSUME Shape, NEW a \in Actors, Return(a)
  PROVE  Moved(a)
BY ShapeFits, ReturnMoves, SameOthers DEF Moved, Idle

LEMMA GotoHolds ==
  ASSUME Shape, NEW a \in Actors, NEW pc \in PCs \ {"Mkdir", "Vacuum", "VacuumEnd"},
         Goto(a, pc)
  PROVE  Moved(a)
BY ShapeFits, GotoMoves, SameOthers DEF Moved, Keeps

\* The steps of requests that move no content, and those of the pruning.
LEMMA RequestHolds ==
  ASSUME Shape, NEW w \in Workers, Finish(w) \/ Release(w) \/ MarkWiped(w)
  PROVE  Moved(w) /\ UNCHANGED <<backups, commits, expected>>
<1>1. w \in Actors /\ "Close" \in PCs
  BY DEF Actors, PCs
<1>2. Moved(w)
  BY <1>1, GotoHolds, ReturnHolds DEF Finish, Release, MarkWiped
<1>. QED
  BY <1>2 DEF Finish, Release, MarkWiped, files, history

LEMMA PruneHolds ==
  ASSUME Shape, PruneList \/ PruneRemove
  PROVE  /\ UNCHANGED <<commits, expected>>
         /\ \/ Moved(Scheduler) /\ UNCHANGED backups
            \/ /\ UNCHANGED act
               /\ \E n \in Names : backups' = [backups EXCEPT ![n] = None]
<1>1. Scheduler \in Actors /\ "PruneRemove" \in PCs /\ victims \subseteq Names
  BY ShapeFits DEF Actors, PCs, TypeOK
<1>2. UNCHANGED <<commits, expected>>
  BY DEF PruneList, PruneRemove, history
<1>3. CASE PruneList
  BY <1>1, <1>2, <1>3, GotoHolds DEF PruneList, files
<1>4. CASE PruneRemove
  BY <1>1, <1>2, <1>4, ReturnHolds DEF PruneRemove
<1>. QED
  BY <1>3, <1>4

LEMMA RemoveWalHolds ==
  ASSUME Shape, NEW w \in Workers, RemoveWal(w)
  PROVE  Moved(w) /\ UNCHANGED <<backups, commits, expected>>
<1>1. w \in Actors /\ act \in [Actors -> Locals] /\ Effect(w) /\ act'[w].pc = "Release"
  BY ShapeFits, RemoveWalEffect DEF Actors
<1>2. act'[w].op = act[w].op /\ act'[w].name = act[w].name /\ act'[w].snap = act[w].snap
  BY <1>1 DEF RemoveWal, Goto, Locals
<1>3. UNCHANGED <<backups, commits, expected>>
  BY DEF RemoveWal
<1>. QED
  BY <1>1, <1>2, <1>3, SameOthers DEF Moved

-----------------------------------------------------------------------------
(* The steps that copy or restore.                                         *)

LEMMA MkdirHolds ==
  ASSUME Shape, NEW a \in Actors, Mkdir(a)
  PROVE  /\ UNCHANGED <<backups, commits, expected>> /\ act[a].pc = "Mkdir"
         /\ OthersSame(a) /\ act'[a].op = act[a].op /\ act'[a].snap = act[a].snap
         /\ \/ Moved(a)
            \/ act'[a].pc = "Vacuum" /\ act'[a].name \in FreeNames
<1>1. /\ act \in [Actors -> Locals] /\ act[a].pc = "Mkdir"
      /\ UNCHANGED <<backups, commits, expected>>
      /\ {"Vacuum", "Close"} \subseteq PCs
  BY ShapeFits DEF Mkdir, At, history, PCs
<1>2. CASE \E n \in FreeNames : act' = [act EXCEPT ![a].pc = "Vacuum", ![a].name = n]
  <2>1. PICK n \in FreeNames : act' = [act EXCEPT ![a].pc = "Vacuum", ![a].name = n]
    BY <1>2
  <2>2. n \in Names \cup {None}
    BY DEF FreeNames
  <2>3. /\ Others(a) /\ Keeps(a) /\ act'[a].pc = "Vacuum" /\ act'[a].name = n
        /\ act'[a].snap = act[a].snap
    BY <1>1, <2>1, <2>2, NameMoves
  <2>. QED
    BY <1>1, <2>3, SameOthers DEF Keeps
<1>3. CASE Goto(a, "Close")
  BY <1>1, <1>3, GotoMoves, SameOthers DEF Keeps, Moved
<1>. QED
  BY <1>2, <1>3 DEF Mkdir

LEMMA VacuumHolds ==
  ASSUME Shape, NEW a \in Actors, Vacuum(a)
  PROVE  /\ UNCHANGED <<commits, expected>> /\ act[a].pc = "Vacuum"
         /\ OthersSame(a) /\ act'[a].op = act[a].op
         /\ \/ Moved(a) /\ ~dir /\ UNCHANGED backups
            \/ /\ act'[a].pc = "VacuumEnd" /\ act'[a].name = act[a].name
               /\ act'[a].snap = (IF Visible = None THEN 0 ELSE Visible)
               /\ exposed' = (exposed \/ (InWindow /\ wal # None))
               /\ backups' = [backups EXCEPT ![act[a].name] = Partial]
<1>1. TypeOK /\ act \in [Actors -> Locals] /\ act[a].pc = "Vacuum"
  BY ShapeFits DEF Vacuum, At
<1>2. UNCHANGED <<commits, expected>>
  BY DEF Vacuum, Connect, history
<1>. DEFINE r == [act[a] EXCEPT !.pc = "VacuumEnd",
                                !.snap = IF Visible = None THEN 0 ELSE Visible]
<1>3. CASE Connect(a, r) /\ backups' = [backups EXCEPT ![act[a].name] = Partial]
  <2>1. /\ r \in Locals /\ r.op = act[a].op /\ r.name = act[a].name /\ r.pc = "VacuumEnd"
        /\ r.snap = (IF Visible = None THEN 0 ELSE Visible)
    BY <1>1, ConnectLocals, ShapeFits DEF Locals
  <2>. HIDE DEF r
  <2>2. /\ Others(a) /\ act'[a].op = act[a].op /\ act'[a].pc = "VacuumEnd"
        /\ act'[a].name = act[a].name
        /\ act'[a].snap = (IF Visible = None THEN 0 ELSE Visible)
    BY <1>1, <1>3, <2>1, ConnectMoves
  <2>3. exposed' = (exposed \/ (InWindow /\ wal # None))
    BY <1>3 DEF Connect
  <2>. QED
    BY <1>1, <1>2, <1>3, <2>2, <2>3, SameOthers
<1>4. CASE /\ ~dir
           /\ act' = [act EXCEPT ![a].pc = "Close", ![a].name = None]
           /\ UNCHANGED <<db, backups, history>>
  <2>1. /\ Others(a) /\ Keeps(a) /\ act'[a].pc = "Close" /\ act'[a].name = None
        /\ act'[a].snap = act[a].snap
    BY <1>1, <1>4, NameMoves DEF PCs
  <2>. QED
    BY <1>1, <1>2, <1>4, <2>1, SameOthers DEF Keeps, Moved
<1>. QED
  BY <1>3, <1>4 DEF Vacuum

LEMMA VacuumEndHolds ==
  ASSUME Shape, NEW a \in Actors, VacuumEnd(a)
  PROVE  /\ UNCHANGED <<commits, expected>> /\ act[a].pc = "VacuumEnd" /\ Moved(a)
         /\ act[a].snap # None /\ act'[a].op = act[a].op
         /\ \/ /\ backups' = [backups EXCEPT ![act[a].name] = IF @ = None THEN None
                                                              ELSE act[a].snap]
               /\ act'[a].snap = None
            \/ /\ backups' \in {[backups EXCEPT ![act[a].name] = None], backups}
               /\ act'[a].snap = act[a].snap
<1>1. /\ act \in [Actors -> Locals] /\ act[a].pc = "VacuumEnd" /\ act[a].snap # None
      /\ "Close" \in PCs /\ None \in Names \cup {None}
      /\ UNCHANGED <<commits, expected>>
  BY ShapeFits DEF VacuumEnd, At, Fits, PCs, history
<1>2. ASSUME act' = [act EXCEPT ![a].pc = "Close", ![a].snap = None]
      PROVE  Moved(a) /\ act'[a].op = act[a].op /\ act'[a].snap = None
  <2>1. /\ Others(a) /\ Keeps(a) /\ act'[a].pc = "Close" /\ act'[a].snap = None
        /\ act'[a].name = act[a].name
    BY <1>1, <1>2, SnapMoves
  <2>. QED
    BY <2>1, SameOthers DEF Moved, Keeps
<1>3. ASSUME act' = [act EXCEPT ![a].pc = "Close", ![a].name = None]
      PROVE  Moved(a) /\ act'[a].op = act[a].op /\ act'[a].snap = act[a].snap
  <2>1. /\ Others(a) /\ Keeps(a) /\ act'[a].pc = "Close" /\ act'[a].name = None
        /\ act'[a].snap = act[a].snap
    BY <1>1, <1>3, NameMoves DEF PCs
  <2>. QED
    BY <2>1, SameOthers DEF Moved, Keeps
<1>4. CASE /\ backups' = [backups EXCEPT ![act[a].name] = IF @ = None THEN None
                                                          ELSE act[a].snap]
           /\ act' = [act EXCEPT ![a].pc = "Close", ![a].snap = None]
  BY <1>1, <1>2, <1>4
<1>5. CASE /\ backups' \in {[backups EXCEPT ![act[a].name] = None], backups}
           /\ act' = [act EXCEPT ![a].pc = "Close", ![a].name = None]
  BY <1>1, <1>3, <1>5
<1>. QED
  BY <1>4, <1>5 DEF VacuumEnd

LEMMA CopyHolds ==
  ASSUME Shape, NEW w \in Workers, Copy(w)
  PROVE  /\ UNCHANGED <<backups, commits, expected>>
         /\ Moved(w) \/ act'[w].pc = "Rename"
         /\ OthersSame(w) /\ act'[w].op = act[w].op /\ act[w].op = "restore"
         /\ act'[w].name = act[w].name
         /\ \/ act'[w].snap = act[w].snap
            \/ \E n \in Names : /\ backups[n] # None
                                /\ act'[w].snap = IF backups[n] = Partial THEN Torn
                                                  ELSE backups[n]
<1>1. /\ w \in Actors /\ act \in [Actors -> Locals] /\ act[w].op = "restore"
      /\ backups \in [Names -> Contents \cup {None, Partial}]
      /\ {"Rename", "Release"} \subseteq PCs
      /\ UNCHANGED <<backups, commits, expected>>
  BY ShapeFits DEF Copy, At, Actors, Fits, PCs, files, history
<1>2. ASSUME NEW n \in Names, backups[n] # None,
             act' = [act EXCEPT ![w].pc = "Rename",
                       ![w].snap = IF backups[n] = Partial THEN Torn ELSE backups[n]]
      PROVE  /\ Others(w) /\ Keeps(w) /\ act'[w].pc = "Rename" /\ act'[w].name = act[w].name
             /\ act'[w].snap = IF backups[n] = Partial THEN Torn ELSE backups[n]
  <2>. DEFINE c == IF backups[n] = Partial THEN Torn ELSE backups[n]
  <2>1. c \in Contents \cup {None} /\ act' = [act EXCEPT ![w].pc = "Rename", ![w].snap = c]
    BY <1>1, <1>2 DEF Contents
  <2>. HIDE DEF c
  <2>2. /\ Others(w) /\ Keeps(w) /\ act'[w].pc = "Rename" /\ act'[w].name = act[w].name
        /\ act'[w].snap = c
    BY <1>1, <2>1, SnapMoves
  <2>. QED
    BY <2>2 DEF c
<1>3. CASE Goto(w, "Release")
  <2>1. /\ Others(w) /\ Keeps(w) /\ act'[w].pc = "Release" /\ act'[w].name = act[w].name
        /\ act'[w].snap = act[w].snap
    BY <1>1, <1>3, GotoMoves
  <2>. QED
    BY <1>1, <2>1, SameOthers DEF Keeps, Moved
<1>4. CASE \E n \in Names :
             /\ backups[n] # None
             /\ act' = [act EXCEPT ![w].pc = "Rename",
                          ![w].snap = IF backups[n] = Partial THEN Torn ELSE backups[n]]
  BY <1>1, <1>2, <1>4, SameOthers DEF Keeps
<1>. QED
  BY <1>3, <1>4 DEF Copy

LEMMA RenameHolds ==
  ASSUME Shape, NEW w \in Workers, Rename(w)
  PROVE  /\ UNCHANGED <<backups, commits>> /\ Moved(w)
         /\ \/ UNCHANGED expected
            \/ /\ expected' = act[w].snap /\ act[w].snap # None /\ act'[w].snap = None
               /\ act[w].op = "restore"
<1>1. /\ w \in Actors /\ act \in [Actors -> Locals] /\ act[w] \in Locals
      /\ act[w].op = "restore" /\ act[w].conn = "none" /\ act[w].snap # None
      /\ {"RemoveWal", "Release"} \subseteq PCs
      /\ UNCHANGED <<backups, commits>>
  BY ShapeFits DEF Rename, At, Actors, Fits, PCs
<1>2. CASE /\ expected' = act[w].snap
           /\ act' = [Detached EXCEPT ![w].pc = "RemoveWal", ![w].snap = None]
  <2>1. OthersSame(w)
    BY RenameEffect, SameOthers, <1>1
  <2>2. Detached[w] = act[w] /\ Detached \in [Actors -> Locals]
    BY <1>1, DetachedLocals
  <2>3. act'[w].pc = "RemoveWal" /\ act'[w].snap = None /\ act'[w].name = act[w].name
    BY <1>1, <1>2, <2>2 DEF Locals
  <2>. QED
    BY <1>1, <1>2, <2>1, <2>3 DEF Moved
<1>3. CASE Goto(w, "Release") /\ UNCHANGED expected
  BY <1>1, <1>3, GotoHolds
<1>. QED
  BY <1>2, <1>3 DEF Rename

LEMMA RemoveAllHolds ==
  ASSUME Shape, NEW w \in Workers, RemoveAll(w)
  PROVE  /\ Moved(w) /\ UNCHANGED <<commits, expected>>
         /\ \A n \in Names : backups'[n] \in {backups[n], None}
<1>1. /\ w \in Actors /\ act \in [Actors -> Locals] /\ act[w] \in Locals
      /\ act[w].conn = "none" /\ "MarkWiped" \in PCs
  BY ShapeFits DEF RemoveAll, At, Actors, Fits, PCs
<1>2. Detached[w] = act[w] /\ Detached \in [Actors -> Locals]
  BY <1>1, DetachedLocals
<1>3. OthersSame(w)
  BY <1>1, RemoveAllEffect, SameOthers
<1>4. CASE act' = [Detached EXCEPT ![w].pc = "MarkWiped"]
  <2>1. /\ act'[w].pc = "MarkWiped" /\ act'[w].name = act[w].name
        /\ act'[w].op = act[w].op /\ act'[w].snap = act[w].snap
    BY <1>1, <1>2, <1>4 DEF Locals
  <2>. QED
    BY <1>3, <2>1 DEF Moved, RemoveAll, history
<1>5. CASE act' = [Detached EXCEPT ![w] = Idle]
  <2>1. act'[w] = Idle
    BY <1>1, <1>2, <1>5
  <2>. QED
    BY <1>3, <2>1 DEF Moved, RemoveAll, history, Idle
<1>. QED
  BY <1>4, <1>5 DEF RemoveAll

LEMMA TickHolds ==
  ASSUME Shape, Tick
  PROVE  Moved(Scheduler) /\ UNCHANGED <<backups, commits, expected>>
BY BeginHolds DEF Tick, Actors, Ops, PCs

-----------------------------------------------------------------------------
(* Named is an invariant.                                                  *)

LEMMA NamedVacuum ==
  ASSUME Named, NEW a \in Actors, act[a].pc = "Vacuum", OthersSame(a),
         act'[a].op = act[a].op, act'[a].pc = "VacuumEnd", act'[a].name = act[a].name,
         backups \in [Names -> Contents \cup {None, Partial}],
         backups' = [backups EXCEPT ![act[a].name] = Partial]
  PROVE  Named'
<1>1. act[a].name \in Names /\ None \notin Names
  BY Distinct DEF Named
<1>2. ASSUME NEW b \in Actors, b # a
      PROVE  act'[b].pc \in {"Vacuum", "VacuumEnd"} => backups'[act'[b].name] = backups[act[b].name]
  BY <1>1, <1>2 DEF Named, OthersSame
<1>3. backups'[act'[a].name] = Partial
  BY <1>1
<1>. QED
  BY <1>1, <1>2, <1>3 DEF Named, OthersSame

LEMMA NamedMkdir ==
  ASSUME Named, NEW a \in Actors, act[a].pc = "Mkdir", OthersSame(a),
         act'[a].op = act[a].op, act'[a].pc = "Vacuum", act'[a].name \in FreeNames,
         UNCHANGED backups
  PROVE  Named'
<1>1. /\ act'[a].name \in Names /\ backups[act'[a].name] = None
      /\ \A b \in Actors : act[b].name # act'[a].name
  BY DEF FreeNames
<1>. QED
  BY <1>1 DEF Named, OthersSame

\* A finished backup, in whose file the others do not write.
LEMMA NamedVacuumEnd ==
  ASSUME Shape, Named, NEW a \in Actors, VacuumEnd(a)
  PROVE  Named'
<1>1. /\ act[a].pc = "VacuumEnd" /\ Moved(a) /\ act[a].name \in Names /\ None \notin Names
      /\ \A n \in Names : n # act[a].name => backups'[n] = backups[n]
  BY VacuumEndHolds, Distinct, ShapeFits DEF Named
<1>2. ASSUME NEW b \in Actors, act'[b].pc \in {"Vacuum", "VacuumEnd"}
      PROVE  /\ b # a /\ act[b].pc = act'[b].pc /\ act'[b].name = act[b].name
             /\ act[b].name \in Names /\ backups'[act[b].name] = backups[act[b].name]
  <2>1. b # a /\ act[b].pc = act'[b].pc /\ act'[b].name = act[b].name
    BY <1>1, <1>2 DEF Moved, OthersSame
  <2>2. act[b].name \in Names /\ act[b].name # act[a].name
    BY <1>1, <1>2, <2>1 DEF Named
  <2>. QED
    BY <1>1, <2>1, <2>2
<1>3. \A b, c \in Actors : b # c /\ act'[b].name = act'[c].name => act'[b].name = None
  BY <1>1 DEF Named, Moved, OthersSame
<1>4. \A b \in Actors : act'[b].pc = "Mkdir" => act'[b].op \in {"backup", "auto"}
  BY <1>1 DEF Named, Moved, OthersSame
<1>5. \A b \in Actors : act'[b].pc \in {"Vacuum", "VacuumEnd"} => act'[b].op \in {"backup", "auto"}
  BY <1>1, <1>2 DEF Named, Moved, OthersSame
<1>. QED
  BY <1>2, <1>3, <1>4, <1>5 DEF Named

LEMMA NamedCopy ==
  ASSUME Named, NEW a \in Actors, OthersSame(a), act'[a].pc = "Rename",
         act'[a].name = act[a].name, UNCHANGED backups
  PROVE  Named'
BY DEF Named, OthersSame

LEMMA NamedStep ==
  ASSUME Shape, Named, NEW a \in Actors, Step(a)
  PROVE  Named'
<1>1. backups \in [Names -> Contents \cup {None, Partial}]
  BY ShapeFits
<1>2. CASE Open(a) \/ Close(a)
  BY <1>2, OpenHolds, CloseHolds, NamedMoved
<1>3. CASE Mkdir(a)
  BY <1>3, MkdirHolds, NamedMkdir, NamedMoved
<1>4. CASE Vacuum(a)
  BY <1>1, <1>4, VacuumHolds, NamedVacuum, NamedMoved
<1>5. CASE VacuumEnd(a)
  BY <1>5, NamedVacuumEnd
<1>6. CASE a \in Workers /\ Commit(a)
  BY <1>6 DEF Commit, Named
<1>7. CASE a \in Workers /\ (Finish(a) \/ Release(a) \/ MarkWiped(a))
  BY <1>7, RequestHolds, NamedMoved
<1>8. CASE a \in Workers /\ Copy(a)
  BY <1>8, CopyHolds, NamedCopy, NamedMoved
<1>9. CASE a \in Workers /\ (Rename(a) \/ RemoveWal(a))
  BY <1>9, RenameHolds, RemoveWalHolds, NamedMoved
<1>10. CASE a \in Workers /\ RemoveAll(a)
  BY <1>1, <1>10, RemoveAllHolds, NamedMoved
<1>11. CASE a = Scheduler /\ (PruneList \/ PruneRemove)
  <2>1. CASE Moved(a) /\ UNCHANGED backups
    BY <2>1, NamedMoved
  <2>2. CASE UNCHANGED act /\ \E n \in Names : backups' = [backups EXCEPT ![n] = None]
    BY <1>1, <2>2 DEF Named
  <2>. QED
    BY <1>11, <2>1, <2>2, PruneHolds
<1>. QED
  BY <1>2, <1>3, <1>4, <1>5, <1>6, <1>7, <1>8, <1>9, <1>10, <1>11 DEF Step

LEMMA NamedNext ==
  ASSUME Shape, Named, [Next]_vars
  PROVE  Named'
<1>1. CASE \E w \in Workers : Arrive(w)
  BY <1>1, ArriveHolds, NamedMoved DEF Actors
<1>2. CASE Tick
  BY <1>2, TickHolds, NamedMoved DEF Actors
<1>3. CASE Delete
  BY <1>3 DEF Delete, files, Named
<1>4. CASE Crash
  BY <1>4 DEF Crash, Idle, Named
<1>5. CASE UNCHANGED vars
  BY <1>5 DEF vars, files, Named
<1>. QED
  BY <1>1, <1>2, <1>3, <1>4, <1>5, NamedStep DEF Next

(* Concurrent backups never write one file, and none writes over another.  *)
THEOREM NamedAlways == Spec => []Named
<1>1. IInv /\ Named /\ [Next]_vars => Named'
  BY NamedNext DEF IInv
<1>. QED
  BY NamedInit, <1>1, DataInvariant, PTL DEF Spec

-----------------------------------------------------------------------------
(* The refinement.                                                         *)

\* The states of which BackedUpDatabase says something.
Live == row = "active" /\ ~exposed

LEMMA LiveValue ==
  ASSUME IInv
  PROVE  /\ Live => /\ Value = expected /\ Value \in Contents /\ Value # None
                    /\ dir /\ Visible # None
                    /\ \A a \in Actors : act[a].pc \notin {"RemoveAll", "MarkWiped"}
                    /\ InWindow /\ wal = None => Visible = expected
         /\ ~Live => Value = None
<1>1. Durable /\ TypeOK /\ None \notin Contents
  BY Distinct DEF IInv, Shape
<1>2. expected \in Contents
  BY <1>1 DEF TypeOK
<1>3. Live => Value = expected
  BY <1>1 DEF Live, Value, Durable, NothingLost
<1>4. Live => dir /\ Visible # None
              /\ \A a \in Actors : act[a].pc \notin {"RemoveAll", "MarkWiped"}
  BY <1>1 DEF Live, Durable, Visible
<1>5. Live /\ InWindow /\ wal = None => Visible = expected
  BY <1>1 DEF Live, Durable, Visible
<1>6. ~Live => Value = None
  BY DEF Live, Value
<1>. QED
  BY <1>1, <1>2, <1>3, <1>4, <1>5, <1>6

\* What is exposed or deleted stays so.
LEMMA LiveBefore ==
  ASSUME Shape, [Next]_vars, Live'
  PROVE  Live
<1>. DEFINE Later == /\ row' = "active" => row = "active"
                    /\ \/ exposed' = exposed
                       \/ \E x \in BOOLEAN : exposed' = (exposed \/ x)
<1>1. ASSUME NEW w \in Workers, Arrive(w)
      PROVE  Later
  BY <1>1 DEF Arrive, BeginSQL, BeginStats, BeginBackup, BeginRestore, BeginWipe, Begin, history
<1>2. ASSUME NEW a \in Actors, Step(a)
      PROVE  Later
  <2>1. CASE Open(a)
    BY <2>1 DEF Open, Connect, history
  <2>2. CASE Vacuum(a)
    BY <2>2 DEF Vacuum, Connect, history
  <2>3. CASE Mkdir(a) \/ VacuumEnd(a) \/ Close(a)
    BY <2>3 DEF Mkdir, VacuumEnd, Close, history
  <2>4. CASE Commit(a) \/ Finish(a) \/ Release(a) \/ Copy(a)
    BY <2>4 DEF Commit, Finish, Release, Copy, history
  <2>5. CASE Rename(a)
    BY <2>5 DEF Rename
  <2>6. CASE RemoveWal(a)
    BY <2>6 DEF RemoveWal
  <2>7. CASE RemoveAll(a) \/ MarkWiped(a)
    BY <2>7 DEF RemoveAll, MarkWiped, history
  <2>8. CASE PruneList \/ PruneRemove
    BY <2>8 DEF PruneList, PruneRemove, history
  <2>. QED
    BY <1>2, <2>1, <2>2, <2>3, <2>4, <2>5, <2>6, <2>7, <2>8 DEF Step
<1>3. ASSUME Tick PROVE Later
  BY <1>3 DEF Tick, Begin, history
<1>4. ASSUME Delete PROVE Later
  BY <1>4 DEF Delete, history
<1>5. ASSUME Crash PROVE Later
  BY <1>5 DEF Crash
<1>6. ASSUME UNCHANGED vars PROVE Later
  BY <1>6 DEF vars, history
<1>7. Later
  BY <1>1, <1>2, <1>3, <1>4, <1>5, <1>6 DEF Next
<1>8. exposed \in BOOLEAN
  BY DEF Shape, TypeOK
<1>. QED
  BY <1>7, <1>8 DEF Live

\* What a step of a changes of what is held.
LEMMA HeldMoves ==
  ASSUME NEW a \in Actors, OthersSame(a)
  PROVE  /\ act'[a].op = act[a].op /\ act'[a].snap = act[a].snap => UNCHANGED <<Copied, Fetched>>
         /\ act'[a].snap = None => /\ Copied' = [Copied EXCEPT ![a] = None]
                                   /\ Fetched' = [Fetched EXCEPT ![a] = None]
         /\ act'[a].op # "restore" /\ act'[a].op = act[a].op =>
              Copied' = [Copied EXCEPT ![a] = act'[a].snap] /\ UNCHANGED Fetched
         /\ act'[a].op = "restore" /\ act'[a].op = act[a].op =>
              Fetched' = [Fetched EXCEPT ![a] = act'[a].snap] /\ UNCHANGED Copied
<1>1. \A b \in Actors : /\ Copied[b] = IF act[b].op = "restore" THEN None ELSE act[b].snap
                        /\ Fetched[b] = IF act[b].op = "restore" THEN act[b].snap ELSE None
  BY DEF Copied, Fetched
<1>2. \A b \in Actors : /\ Copied'[b] = IF act'[b].op = "restore" THEN None ELSE act'[b].snap
                        /\ Fetched'[b] = IF act'[b].op = "restore" THEN act'[b].snap ELSE None
  BY DEF Copied, Fetched
<1>3. /\ Copied = [b \in Actors |-> Copied[b]] /\ Copied' = [b \in Actors |-> Copied'[b]]
      /\ Fetched = [b \in Actors |-> Fetched[b]] /\ Fetched' = [b \in Actors |-> Fetched'[b]]
  BY DEF Copied, Fetched
<1>4. \A b \in Actors \ {a} : Copied'[b] = Copied[b] /\ Fetched'[b] = Fetched[b]
  BY <1>1, <1>2 DEF OthersSame
<1>. QED
  BY <1>1, <1>2, <1>3, <1>4

StoreStep == Store!Next \/ UNCHANGED Store!vars

\* A step of a that is none of the store, unless it gives up what a holds.
LEMMA StoreMoved ==
  ASSUME Value # None, Value' = Value, NEW a \in Actors, Moved(a),
         UNCHANGED <<backups, commits>>
  PROVE  StoreStep
<1>1. CASE act'[a].op = act[a].op /\ act'[a].snap = act[a].snap
  BY <1>1, HeldMoves DEF Moved, StoreStep, Store!vars
<1>2. CASE act'[a].snap = None
  <2>1. Store!GiveUp(a)
    BY <1>2, HeldMoves DEF Moved, Store!GiveUp
  <2>. QED
    BY <2>1 DEF StoreStep, Store!Next
<1>. QED
  BY <1>1, <1>2 DEF Moved

LEMMA LiveValueAfter ==
  ASSUME IInv'
  PROVE  Live' => Value' = expected'
<1>1. Durable'
  BY DEF IInv
<1>. QED
  BY <1>1 DEF Live, Value, Durable, NothingLost

\* Nothing connects to a stale -wal, so that the backup is of the new file.
LEMMA StoreVacuum ==
  ASSUME IInv, Named, Live, Live', Value' = expected', NEW a \in Actors, Vacuum(a)
  PROVE  StoreStep
<1>1. /\ Shape /\ Value # None /\ Value = expected /\ dir /\ Visible # None
      /\ act[a].pc = "Vacuum" /\ act'[a].op = act[a].op /\ OthersSame(a)
      /\ UNCHANGED <<commits, expected>>
  BY LiveValue, VacuumHolds DEF IInv
<1>2. /\ act[a].name \in Names /\ backups[act[a].name] = None
      /\ act[a].op # "restore"
  BY <1>1 DEF Named
<1>3. /\ act'[a].snap = Visible
      /\ exposed' = (exposed \/ (InWindow /\ wal # None))
      /\ backups' = [backups EXCEPT ![act[a].name] = Partial]
  BY <1>1, VacuumHolds
<1>4. Visible = Value
  BY <1>1, <1>3 DEF Live, Value, Visible
<1>5. Copied' = [Copied EXCEPT ![a] = Value] /\ UNCHANGED Fetched
  BY <1>1, <1>2, <1>3, <1>4, HeldMoves
<1>6. Store!Snapshot(a, act[a].name)
  BY <1>1, <1>2, <1>3, <1>5 DEF Store!Snapshot
<1>. QED
  BY <1>2, <1>6 DEF StoreStep, Store!Next

LEMMA StoreVacuumEnd ==
  ASSUME IInv, Named, Live, Live', Value' = expected', NEW a \in Actors, VacuumEnd(a)
  PROVE  StoreStep
<1>1. /\ Shape /\ Value # None /\ Value = expected
      /\ act[a].pc = "VacuumEnd" /\ act'[a].op = act[a].op /\ Moved(a)
      /\ act[a].snap # None /\ UNCHANGED <<commits, expected>>
  BY LiveValue, VacuumEndHolds DEF IInv
<1>. DEFINE n == act[a].name
<1>2. /\ n \in Names /\ backups[n] \in {None, Partial} /\ act[a].op # "restore"
      /\ backups \in [Names -> Contents \cup {None, Partial}] /\ None # Partial
  BY <1>1, ShapeFits, Distinct DEF Named
<1>3. CASE backups' = [backups EXCEPT ![n] = IF @ = None THEN None ELSE act[a].snap]
           /\ act'[a].snap = None
  <2>1. CASE backups[n] = None
    <3>1. UNCHANGED backups
      BY <1>2, <1>3, <2>1
    <3>. QED
      BY <1>1, <3>1, StoreMoved
  <2>2. CASE backups[n] = Partial
    <3>1. Copied[a] = act[a].snap
      BY <1>2 DEF Copied
    <3>2. backups' = [backups EXCEPT ![n] = Copied[a]]
      BY <1>2, <1>3, <2>2, <3>1
    <3>3. Copied' = [Copied EXCEPT ![a] = None] /\ UNCHANGED Fetched
      BY <1>1, <1>2, <1>3, HeldMoves DEF Moved
    <3>4. Store!Save(a, n)
      BY <1>1, <2>2, <3>1, <3>2, <3>3 DEF Store!Save
    <3>. QED
      BY <1>2, <3>4 DEF StoreStep, Store!Next
  <2>. QED
    BY <1>2, <2>1, <2>2
<1>4. CASE backups' \in {[backups EXCEPT ![n] = None], backups} /\ act'[a].snap = act[a].snap
  <2>1. UNCHANGED <<Copied, Fetched>>
    BY <1>1, <1>4, HeldMoves DEF Moved
  <2>2. CASE backups' = [backups EXCEPT ![n] = None]
    <3>1. Store!Remove(n)
      BY <1>1, <2>1, <2>2 DEF Store!Remove
    <3>. QED
      BY <1>2, <3>1 DEF StoreStep, Store!Next
  <2>3. CASE backups' = backups
    BY <1>1, <2>1, <2>3 DEF StoreStep, Store!vars
  <2>. QED
    BY <1>4, <2>2, <2>3
<1>. QED
  BY <1>3, <1>4, VacuumEndHolds, <1>1

\* The file that a commit goes to is the one that is read.
LEMMA StoreCommit ==
  ASSUME IInv, Live, Live', Value' = expected', NEW w \in Workers, Commit(w)
  PROVE  StoreStep
<1>1. Shape /\ LocksHeld /\ Value # None
  BY LiveValue DEF IInv
<1>2. /\ act[w].pc = "Run" /\ Visible \in Nat /\ commits' = commits + 1
      /\ expected' = commits + 1 /\ UNCHANGED <<backups, act>>
  BY DEF Commit, At
<1>3. act[w].op = "sql" /\ w \in Actors
  BY <1>1, <1>2, ShapeFits DEF Fits, Actors
<1>4. ~InWindow
  BY <1>1, <1>3, Alone
<1>5. Value \notin {None, Torn}
  BY <1>2, <1>4, DataAssumption DEF Value, Live
<1>6. UNCHANGED <<Copied, Fetched>>
  BY <1>2 DEF Copied, Fetched
<1>7. Store!Commit
  BY <1>2, <1>5, <1>6 DEF Store!Commit
<1>. QED
  BY <1>7 DEF StoreStep, Store!Next

LEMMA StoreCopy ==
  ASSUME IInv, Live, Live', Value' = expected', NEW w \in Workers, Copy(w)
  PROVE  StoreStep
<1>1. /\ Value # None /\ Value = expected /\ w \in Actors
      /\ act'[w].op = act[w].op /\ act[w].op = "restore" /\ OthersSame(w)
      /\ UNCHANGED <<backups, commits, expected>>
  BY LiveValue, CopyHolds DEF IInv, Actors
<1>2. CASE act'[w].snap = act[w].snap
  BY <1>1, <1>2, HeldMoves DEF StoreStep, Store!vars
<1>3. ASSUME NEW n \in Names, backups[n] # None,
             act'[w].snap = IF backups[n] = Partial THEN Torn ELSE backups[n]
      PROVE  StoreStep
  <2>1. /\ Fetched' = [Fetched EXCEPT ![w] = IF backups[n] = Partial THEN Torn ELSE backups[n]]
        /\ UNCHANGED Copied
    BY <1>1, <1>3, HeldMoves
  <2>2. Store!Fetch(w, n)
    BY <1>1, <1>3, <2>1 DEF Store!Fetch
  <2>. QED
    BY <1>1, <2>2 DEF StoreStep, Store!Next
<1>. QED
  BY <1>2, <1>3, CopyHolds DEF IInv

LEMMA StoreRename ==
  ASSUME IInv, Live, Live', Value' = expected', NEW w \in Workers, Rename(w)
  PROVE  StoreStep
<1>1. /\ Value # None /\ Value = expected /\ w \in Actors /\ Moved(w)
      /\ UNCHANGED <<backups, commits>>
  BY LiveValue, RenameHolds DEF IInv, Actors
<1>2. CASE UNCHANGED expected
  BY <1>1, <1>2, StoreMoved
<1>3. CASE /\ expected' = act[w].snap /\ act[w].snap # None /\ act'[w].snap = None
           /\ act[w].op = "restore"
  <2>1. Fetched[w] = act[w].snap /\ Copied[w] = None
    BY <1>1, <1>3 DEF Fetched, Copied
  <2>2. Copied' = [Copied EXCEPT ![w] = None] /\ Fetched' = [Fetched EXCEPT ![w] = None]
    BY <1>1, <1>3, HeldMoves DEF Moved
  <2>3. UNCHANGED Copied
    BY <2>1, <2>2 DEF Copied
  <2>4. Store!Restore(w)
    BY <1>1, <1>3, <2>1, <2>2, <2>3 DEF Store!Restore
  <2>. QED
    BY <1>1, <2>4 DEF StoreStep, Store!Next
<1>. QED
  BY <1>2, <1>3, RenameHolds DEF IInv

LEMMA StorePrune ==
  ASSUME IInv, Live, Live', Value' = expected', PruneList \/ PruneRemove
  PROVE  StoreStep
<1>1. /\ Value # None /\ Value = expected /\ Scheduler \in Actors
      /\ UNCHANGED <<commits, expected>>
  BY LiveValue, PruneHolds DEF IInv, Actors
<1>2. CASE Moved(Scheduler) /\ UNCHANGED backups
  BY <1>1, <1>2, StoreMoved
<1>3. CASE UNCHANGED act /\ \E n \in Names : backups' = [backups EXCEPT ![n] = None]
  <2>1. PICK n \in Names : backups' = [backups EXCEPT ![n] = None]
    BY <1>3
  <2>2. UNCHANGED <<Copied, Fetched>>
    BY <1>3 DEF Copied, Fetched
  <2>3. Store!Remove(n)
    BY <1>1, <2>1, <2>2 DEF Store!Remove
  <2>. QED
    BY <2>3 DEF StoreStep, Store!Next
<1>. QED
  BY <1>2, <1>3, PruneHolds DEF IInv

LEMMA StoreActor ==
  ASSUME IInv, Named, Live, Live', Value' = expected', NEW a \in Actors, Step(a)
  PROVE  StoreStep
<1>1. /\ Shape /\ Value # None /\ Value = expected /\ act[a].pc # "RemoveAll"
  BY LiveValue DEF IInv
<1>2. CASE Open(a) \/ Close(a)
  BY <1>1, <1>2, OpenHolds, CloseHolds, StoreMoved
<1>3. CASE Mkdir(a)
  <2>1. UNCHANGED <<Copied, Fetched>>
    BY <1>1, <1>3, MkdirHolds, HeldMoves
  <2>. QED
    BY <1>1, <1>3, <2>1, MkdirHolds DEF StoreStep, Store!vars
<1>4. CASE Vacuum(a) \/ VacuumEnd(a)
  BY <1>4, StoreVacuum, StoreVacuumEnd
<1>5. CASE a \in Workers /\ (Finish(a) \/ Release(a) \/ MarkWiped(a))
  BY <1>1, <1>5, RequestHolds, StoreMoved
<1>6. CASE a \in Workers /\ (Commit(a) \/ Copy(a) \/ Rename(a))
  BY <1>6, StoreCommit, StoreCopy, StoreRename
<1>7. CASE a \in Workers /\ RemoveWal(a)
  BY <1>1, <1>7, RemoveWalHolds, StoreMoved
<1>8. CASE RemoveAll(a)
  BY <1>1, <1>8 DEF RemoveAll, At
<1>9. CASE a = Scheduler /\ (PruneList \/ PruneRemove)
  BY <1>9, StorePrune
<1>. QED
  BY <1>2, <1>3, <1>4, <1>5, <1>6, <1>7, <1>8, <1>9 DEF Step

LEMMA StoreCrash ==
  ASSUME IInv, Live, Live', Value' = expected', Crash
  PROVE  StoreStep
<1>1. Value # None /\ Value' = Value /\ UNCHANGED <<backups, commits>>
  BY LiveValue DEF Crash, files
<1>2. Copied' = [a \in Actors |-> None] /\ Fetched' = [a \in Actors |-> None]
  BY DEF Crash, Idle, Copied, Fetched
<1>3. Store!Crash
  BY <1>1, <1>2 DEF Store!Crash
<1>. QED
  BY <1>3 DEF StoreStep, Store!Next

LEMMA StoreNext ==
  ASSUME IInv, IInv', Named, [Next]_vars
  PROVE  StoreStep
<1>1. CASE ~Live'
  <2>1. Store!End
    BY <1>1 DEF Store!End, Live, Value
  <2>. QED
    BY <2>1 DEF StoreStep, Store!Next
<1>2. CASE Live'
  <2>1. Live /\ Value' = expected'
    BY <1>2, LiveBefore, LiveValueAfter DEF IInv
  <2>2. Shape /\ Value # None /\ Value = expected
    BY <2>1, LiveValue DEF IInv
  <2>3. CASE \E w \in Workers : Arrive(w)
    BY <2>1, <2>2, <2>3, ArriveHolds, StoreMoved DEF Actors
  <2>4. CASE \E a \in Actors : Step(a)
    BY <1>2, <2>1, <2>4, StoreActor
  <2>5. CASE Tick
    BY <2>1, <2>2, <2>5, TickHolds, StoreMoved DEF Actors
  <2>6. CASE Delete
    BY <1>2, <2>6 DEF Delete, Live
  <2>7. CASE Crash
    BY <1>2, <2>1, <2>7, StoreCrash
  <2>8. CASE UNCHANGED vars
    BY <2>1, <2>2, <2>8 DEF vars, files, history, StoreStep, Store!vars, Copied, Fetched
  <2>. QED
    BY <2>3, <2>4, <2>5, <2>6, <2>7, <2>8 DEF Next
<1>. QED
  BY <1>1, <1>2

LEMMA StoreInit == Init => Store!Init
<1>. SUFFICES ASSUME Init PROVE Store!Init
  OBVIOUS
<1>1. \A a \in Actors : act[a].op = "none" /\ act[a].pc = "idle" /\ act[a].snap = None
  BY DEF Init, Idle
<1>2. Value = 0
  BY <1>1 DEF Init, Value, InWindow, At, Visible
<1>3. Copied = [a \in Actors |-> None] /\ Fetched = [a \in Actors |-> None]
  BY <1>1 DEF Copied, Fetched
<1>. QED
  BY <1>2, <1>3 DEF Init, Store!Init

(* The project implements BackedUpDatabase: its commits and restores take  *)
(* effect in one step, and a backup is one state of the database.          *)
THEOREM Implementation == Spec => ImplementsBackedUpDatabase
<1>1. IInv /\ IInv' /\ Named /\ [Next]_vars => [Store!Next]_(Store!vars)
  BY StoreNext DEF StoreStep
<1>. QED
  BY StoreInit, <1>1, DataInvariant, NamedAlways, PTL
     DEF Spec, ImplementsBackedUpDatabase, Store!Spec

StoreProofs == INSTANCE BackedUpDatabaseProofs
  WITH value <- Value, latest <- commits, saved <- backups, copied <- Copied, fetched <- Fetched

(* While a project is active and none of its restores was exposed, what is *)
(* read of it, what is in its backups and what is being restored are       *)
(* states that were committed, or the copy of a backup that was not        *)
(* finished. Nothing is said of it once a restore was cut short or joined  *)
(* by a reader: restore_crash shows the mixture that it can be then.       *)
THEOREM CommittedAlways == Spec => []Store!OnlyCommitted
<1>1. Store!Init <=> StoreProofs!Init
  BY DEF Store!Init, StoreProofs!Init
<1>2. [Store!Next]_(Store!vars) => [StoreProofs!Next]_(StoreProofs!vars)
  BY DEF Store!Next, StoreProofs!Next, Store!vars, StoreProofs!vars, Store!Commit,
    StoreProofs!Commit, Store!Crash, StoreProofs!Crash, Store!End, StoreProofs!End,
    Store!Remove, StoreProofs!Remove, Store!Restore, StoreProofs!Restore, Store!GiveUp,
    StoreProofs!GiveUp, Store!Snapshot, StoreProofs!Snapshot, Store!Save, StoreProofs!Save,
    Store!Fetch, StoreProofs!Fetch
<1>3. StoreProofs!OnlyCommitted <=> Store!OnlyCommitted
  BY DEF Store!OnlyCommitted, StoreProofs!OnlyCommitted, Store!Known, StoreProofs!Known
<1>4. StoreProofs!Spec => []StoreProofs!OnlyCommitted
  BY StoreProofs!OnlyCommittedAlways
<1>. QED
  BY <1>1, <1>2, <1>3, <1>4, Implementation, PTL
     DEF ImplementsBackedUpDatabase, Store!Spec, StoreProofs!Spec
=============================================================================
