---------------------------- MODULE MigrationProofs ----------------------------
(***************************************************************************)
(* Migrations are in effect as recorded, but for a down file run once more *)
(* by a caller that another one has overtaken; an Up misses none and a     *)
(* Down takes down the last, for any number of callers, versions, errors   *)
(* and crashes; and the order of versions is a total one when their        *)
(* numbers fit.                                                            *)
(***************************************************************************)
EXTENDS Migration, FiniteSetTheorems, SequenceTheorems, WellFoundedInduction, TLAPS

Steps == {"idle", "isMigrationApplied", "getFinal", "ReadFile", "Exec", "Record", "Commit"}

(* The write transaction belongs to the caller that is in it.              *)
Held ==
  /\ \A c \in Callers : pc[c] \in {"Record", "Commit"} <=> writer = c
  /\ writer = NoCaller => tx = db

(* What the transaction has done so far.                                   *)
PendingOf(c) ==
  /\ pc[c] = "Record" => tx.rows = db.rows /\ tx.schema = Ran(db.schema, c)
  /\ pc[c] = "Commit" =>
       /\ tx.schema = Ran(db.schema, c)
       /\ \/ /\ call[c] = "up"
             /\ db.rows[version[c]] = NotApplied
             /\ \E t \in Nat : tx.rows = [db.rows EXCEPT ![version[c]] = t]
          \/ /\ call[c] = "down"
             /\ tx.rows = [db.rows EXCEPT ![version[c]] = NotApplied]
Pending == \A c \in Callers : PendingOf(c)

IInv == TypeOK /\ Held /\ Pending /\ InEffectAsRecorded

-----------------------------------------------------------------------------
(* The order of versions. *)

(* Among versions whose numbers fit, Before is a strict total order:       *)
(* sort.Slice has one result, whatever order the map was read in.          *)
THEOREM BeforeIsTotalOrder ==
  ASSUME NEW S \in SUBSET Versions, \A v \in S : Number[v] # TooLarge
  PROVE  /\ \A v \in S : ~Before(v, v)
         /\ \A u, v \in S : u # v => Before(u, v) \/ Before(v, u)
         /\ \A u, v, w \in S : Before(u, v) /\ Before(v, w) => Before(u, w)
<1> USE MigrationAssumption DEF MigrationAssumption, Before, Numbered
<1>1. \A v \in S : v \in Int /\ v \in Versions /\ (Number[v] \in Nat <=> Number[v] # NoDigits)
  OBVIOUS
<1>2. \A v \in S : ~Before(v, v)
  BY <1>1
<1>3. \A u, v \in S : u # v => Before(u, v) \/ Before(v, u)
  BY <1>1
<1>4. ASSUME NEW u \in S, NEW v \in S, NEW w \in S,
             Before(u, v), Before(v, w)
      PROVE  Before(u, w)
  <2>1. CASE Number[u] # NoDigits /\ Number[v] # NoDigits /\ Number[w] # NoDigits
    BY <1>1, <1>4, <2>1
  <2>2. CASE Number[u] = NoDigits
    BY <1>1, <1>4, <2>2
  <2>3. CASE Number[v] = NoDigits
    BY <1>1, <1>4, <2>3
  <2>4. CASE Number[w] = NoDigits
    BY <1>1, <1>4, <2>4
  <2> QED BY <2>1, <2>2, <2>3, <2>4
<1> QED BY <1>2, <1>3, <1>4

LessThan == {p \in Nat \X Nat : p[1] < p[2]}

LEMMA LeastOf ==
  ASSUME NEW T \in SUBSET Nat, T # {}
  PROVE  \E x \in T : \A y \in T : x <= y
<1>1. OpToRel(<, Nat) = LessThan
  BY Zenon DEF OpToRel, LessThan
<1>2. IsWellFoundedOn(LessThan, Nat)
  BY <1>1, NatLessThanWellFounded
<1>3. PICK x \in T : \A y \in T : <<y, x>> \notin LessThan
  BY <1>2, WFMin
<1>4. ASSUME NEW y \in T PROVE x <= y
  <2>1. x \in Nat /\ y \in Nat /\ <<y, x>> \notin LessThan
    BY <1>3
  <2> QED BY <2>1 DEF LessThan
<1> QED BY <1>3, <1>4

(* Sorting compares neighbours, but orders all.                            *)
LEMMA SortedIsOrdered ==
  ASSUME NEW S \in SUBSET Versions, \A v \in S : Number[v] # TooLarge,
         NEW list \in SortedLists(S)
  PROVE  /\ \A i \in 1..Len(list) : list[i] \in S
         /\ \A i, j \in 1..Len(list) : i < j => Before(list[i], list[j])
<1> DEFINE n == Cardinality(S)
<1>1. IsFiniteSet(S) /\ n \in Nat
  BY MigrationAssumption, FS_Subset, FS_CardinalityType DEF MigrationAssumption
<1>2. list \in [1..n -> S] /\ \A i, j \in 1..n : i # j => list[i] # list[j]
  BY DEF SortedLists, SetToSeqs
<1>3. Len(list) = n
  BY <1>1, <1>2
<1>4. \A i \in 2..n : ~Before(list[i], list[i - 1])
  BY <1>3 DEF SortedLists
<1> HIDE DEF n
<1>5. ASSUME NEW i \in 2..n PROVE Before(list[i - 1], list[i])
  <2>1. i \in 1..n /\ i - 1 \in 1..n /\ i # i - 1
    BY <1>1
  <2>2. list[i] \in S /\ list[i - 1] \in S /\ list[i] # list[i - 1]
    BY <1>2, <2>1
  <2> QED BY <1>4, <2>2, BeforeIsTotalOrder
<1>6. ASSUME NEW i \in 1..n, NEW j \in 1..n, i < j, ~Before(list[i], list[j]) PROVE FALSE
  <2> DEFINE T == {k \in 1..n : i < k /\ ~Before(list[i], list[k])}
  <2>1. T \in SUBSET Nat /\ j \in T
    BY <1>6
  <2>2. PICK m \in T : \A k \in T : m <= k
    BY <2>1, LeastOf
  <2>3. m \in 2..n /\ m - 1 \in 1..n /\ m - 1 >= i
    BY <1>1, <2>2
  <2>4. m - 1 \notin T
    BY <1>1, <2>2
  <2>5. m - 1 = i \/ Before(list[i], list[m - 1])
    BY <1>1, <2>3, <2>4
  <2>6. Before(list[m - 1], list[m])
    BY <1>5, <2>3
  <2>7. list[i] \in S /\ list[m - 1] \in S /\ list[m] \in S
    BY <1>1, <1>2, <2>2, <2>3
  <2>8. Before(list[i], list[m])
    BY <2>5, <2>6, <2>7, BeforeIsTotalOrder
  <2> QED BY <2>2, <2>8
<1> QED BY <1>2, <1>3, <1>6

-----------------------------------------------------------------------------
(* Types. *)

LEMMA ListTypes == ASSUME NEW d \in Disks PROVE SortedLists(VersionsOf(d)) \subseteq Seq(Versions)
<1>1. VersionsOf(d) \subseteq Versions
  BY MigrationAssumption DEF MigrationAssumption, VersionsOf
<1>2. IsFiniteSet(VersionsOf(d))
  BY <1>1, MigrationAssumption, FS_Subset DEF MigrationAssumption
<1>3. Cardinality(VersionsOf(d)) \in Nat
  BY <1>2, FS_CardinalityType
<1>4. SortedLists(VersionsOf(d)) \subseteq [1..Cardinality(VersionsOf(d)) -> Versions]
  BY <1>1 DEF SortedLists, SetToSeqs
<1> QED BY <1>3, <1>4

LEMMA WithoutType ==
  ASSUME NEW s \in Seq(Versions), NEW v PROVE Without(s, v) \in Seq(Versions)
<1>1. CASE \A i \in 1..Len(s) : s[i] # v
  BY <1>1 DEF Without
<1>2. CASE \E i \in 1..Len(s) : s[i] = v
  <2> DEFINE k == CHOOSE i \in 1..Len(s) : s[i] = v
  <2>1. k \in 1..Len(s)
    BY <1>2
  <2>2. Len(s) - 1 \in Nat
    BY <2>1
  <2>3. Without(s, v) = [i \in 1..(Len(s) - 1) |-> IF i < k THEN s[i] ELSE s[i + 1]]
    BY <1>2 DEF Without
  <2>4. Without(s, v) \in [1..(Len(s) - 1) -> Versions]
    BY <2>1, <2>3
  <2> QED BY <2>2, <2>4
<1> QED BY <1>1, <1>2

LEMMA RanType ==
  ASSUME NEW s \in [Versions -> Int], NEW c PROVE Ran(s, c) \in [Versions -> Int]
<1>1. CASE version[c] \in Versions
  BY <1>1 DEF Ran
<1>2. CASE version[c] \notin Versions
  BY <1>2 DEF Ran
<1> QED BY <1>1, <1>2

LEMMA InitEstablishes == Init => IInv
<1>1. Init => TypeOK
  BY MigrationAssumption DEF MigrationAssumption, Init, TypeOK, DB
<1>2. Init => Held /\ Pending
  BY MigrationAssumption DEF MigrationAssumption, Init, Held, Pending, PendingOf
<1>3. Init => InEffectAsRecorded
  BY DEF Init, InEffectAsRecorded, Recorded
<1> QED BY <1>1, <1>2, <1>3 DEF IInv

-----------------------------------------------------------------------------
(* The local variables: what a step of c does to them keeps their types.   *)
LocalTypes ==
  /\ pc \in [Callers -> Steps]
  /\ call \in [Callers -> {"up", "down"}]
  /\ loaded \in [Callers -> Disks \cup {{}}]
  /\ todo \in [Callers -> Seq(Versions)]
  /\ version \in [Callers -> Versions \cup {NoVersion}]
  /\ \A c \in Callers :
       pc[c] \in {"ReadFile", "Exec", "Record", "Commit"} <=> version[c] \in Versions

LEMMA ForgetTypes ==
  ASSUME TypeOK, NEW c \in Callers, Forget(c) PROVE LocalTypes'
BY MigrationAssumption DEF MigrationAssumption, TypeOK, LocalTypes, Forget, Goto, Steps

Busy == {"ReadFile", "Exec", "Record", "Commit"}

LEMMA MoveTypes ==
  ASSUME TypeOK, NEW c \in Callers, NEW step \in Steps, NEW v \in Versions \cup {NoVersion},
         Goto(c, step), version' = [version EXCEPT ![c] = v],
         step \in Busy <=> v \in Versions,
         call' \in [Callers -> {"up", "down"}],
         loaded' \in [Callers -> Disks \cup {{}}],
         todo' \in [Callers -> Seq(Versions)]
  PROVE  LocalTypes'
<1>1. pc' \in [Callers -> Steps] /\ pc'[c] = step /\ \A d \in Callers \ {c} : pc'[d] = pc[d]
  BY DEF Goto, TypeOK, Steps
<1>2. /\ version' \in [Callers -> Versions \cup {NoVersion}]
      /\ version'[c] = v /\ \A d \in Callers \ {c} : version'[d] = version[d]
  BY DEF TypeOK
<1>3. \A d \in Callers : pc'[d] \in Busy <=> version'[d] \in Versions
  BY <1>1, <1>2 DEF TypeOK, Busy
<1> QED BY <1>1, <1>2, <1>3 DEF LocalTypes, Busy

\* The same when the version stays.
LEMMA GotoTypes ==
  ASSUME TypeOK, NEW c \in Callers, NEW step \in Steps, Goto(c, step), version' = version,
         pc[c] \in Busy <=> step \in Busy,
         call' \in [Callers -> {"up", "down"}],
         loaded' \in [Callers -> Disks \cup {{}}],
         todo' \in [Callers -> Seq(Versions)]
  PROVE  LocalTypes'
<1>1. /\ version' = [version EXCEPT ![c] = version[c]] /\ version[c] \in Versions \cup {NoVersion}
      /\ step \in Busy <=> version[c] \in Versions
  BY DEF TypeOK, Busy
<1> QED BY <1>1, MoveTypes

LEMMA LocalTypesKept ==
  ASSUME TypeOK, NEW c \in Callers, CallStep(c) PROVE LocalTypes'
<1>0. /\ call \in [Callers -> {"up", "down"}] /\ loaded \in [Callers -> Disks \cup {{}}]
      /\ todo \in [Callers -> Seq(Versions)] /\ disk \in Disks
  BY DEF TypeOK
<1> USE <1>0
<1>1. ASSUME NEW type \in {"up", "down"}, Migrate(c, type) PROVE LocalTypes'
  <2>1. \A list \in SortedLists(VersionsOf(disk)) : list \in Seq(Versions)
    BY ListTypes
  <2>2. /\ call' \in [Callers -> {"up", "down"}] /\ loaded' \in [Callers -> Disks \cup {{}}]
        /\ todo' \in [Callers -> Seq(Versions)]
    BY <1>1, <2>1 DEF Migrate
  <2>3. version' = version /\ pc[c] = "idle"
    BY <1>1 DEF Migrate
  <2>4. CASE Goto(c, "isMigrationApplied")
    BY <2>2, <2>3, <2>4, GotoTypes DEF Steps, Busy
  <2>5. CASE Goto(c, "getFinal")
    BY <2>2, <2>3, <2>5, GotoTypes DEF Steps, Busy
  <2> QED BY <1>1, <2>4, <2>5 DEF Migrate
<1>2. CASE NextVersion(c)
  <2>0. CASE Return(c) BY <2>0, ForgetTypes DEF Return
  <2>1. todo[c] \in Seq(Versions) /\ todo[c] # <<>>
    BY <1>2 DEF NextVersion, TypeOK
  <2>2. Head(todo[c]) \in Versions /\ Tail(todo[c]) \in Seq(Versions)
    BY <2>1
  <2>3. CASE ~Return(c)
    <3>1. todo' \in [Callers -> Seq(Versions)] /\ call' = call /\ loaded' = loaded
      BY <1>2, <2>2, <2>3 DEF NextVersion
    <3>2. CASE UNCHANGED <<pc, version>>
      BY <3>1, <3>2 DEF LocalTypes, TypeOK, Steps
    <3>3. CASE version' = [version EXCEPT ![c] = Head(todo[c])] /\ Goto(c, "ReadFile")
      BY <2>2, <3>1, <3>3, MoveTypes DEF Steps, Busy
    <3> QED BY <1>2, <2>3, <3>2, <3>3 DEF NextVersion
  <2> QED BY <2>0, <2>3
<1>3. CASE UpDone(c) BY <1>3, ForgetTypes DEF UpDone, Return
<1>4. CASE GetFinal(c)
  <2>1. CASE Return(c) BY <2>1, ForgetTypes DEF Return
  <2>2. CASE ~Return(c)
    <3>1. PICK v \in Versions : version' = [version EXCEPT ![c] = v] /\ Goto(c, "ReadFile")
      BY <1>4, <2>2 DEF GetFinal
    <3>2. UNCHANGED <<call, loaded, todo>>
      BY <1>4, <2>2 DEF GetFinal
    <3> QED BY <3>1, <3>2, MoveTypes DEF Steps, Busy
  <2> QED BY <2>1, <2>2
<1>5. CASE ReadFile(c)
  <2>1. CASE Return(c) BY <2>1, ForgetTypes DEF Return
  <2>2. CASE ~Return(c)
    BY <1>5, <2>2, GotoTypes DEF ReadFile, locals, Steps, Busy
  <2> QED BY <2>1, <2>2
<1>6. CASE Exec(c)
  <2>1. CASE Return(c) BY <2>1, ForgetTypes DEF Return
  <2>2. CASE ~Return(c)
    BY <1>6, <2>2, GotoTypes DEF Exec, locals, Steps, Busy
  <2> QED BY <2>1, <2>2
<1>7. CASE Record(c)
  <2>1. CASE Rollback(c) BY <2>1, ForgetTypes DEF Return, Rollback
  <2>2. CASE ~Rollback(c)
    BY <1>7, <2>2, GotoTypes DEF Record, locals, Steps, Busy
  <2> QED BY <2>1, <2>2
<1>8. CASE Commit(c)
  <2>1. CASE Forget(c) BY <2>1, ForgetTypes
  <2>2. CASE ~Forget(c)
    <3>1. /\ version' = [version EXCEPT ![c] = NoVersion] /\ Goto(c, "isMigrationApplied")
          /\ UNCHANGED <<call, loaded, todo>>
      BY <1>8, <2>2 DEF Commit, Rollback, Return
    <3> QED BY <3>1, MoveTypes, MigrationAssumption DEF MigrationAssumption, Steps, Busy
  <2> QED BY <2>1, <2>2
<1> QED BY <1>1, <1>2, <1>3, <1>4, <1>5, <1>6, <1>7, <1>8 DEF CallStep

(* The database, the transaction and the histories.                        *)
SharedTypes ==
  /\ disk \in Disks
  /\ clock \in 0..MaxTime
  /\ db \in DB /\ tx \in DB
  /\ writer \in Callers \cup {NoCaller}
  /\ order \in Seq(Versions)
  /\ redone \in [Versions -> Nat]
  /\ overtaken \subseteq Callers

LEMMA SharedTypesKept ==
  ASSUME TypeOK, NEW c \in Callers, CallStep(c) PROVE SharedTypes'
<1> USE DEF SharedTypes
<1>0. overtaken' \in {overtaken, overtaken \ {c}, overtaken \cup Overtakes(c),
                      (overtaken \cup Overtakes(c)) \ {c}}
  BY DEF CallStep, Migrate, NextVersion, UpDone, GetFinal, ReadFile, Exec, Record, Commit, Return,
         Rollback
<1>1. overtaken' \subseteq Callers
  BY <1>0 DEF TypeOK, Overtakes
<1>2. CASE Migrate(c, "up") \/ Migrate(c, "down") \/ NextVersion(c) \/ UpDone(c) \/ GetFinal(c)
           \/ ReadFile(c)
  BY <1>1, <1>2 DEF Migrate, NextVersion, UpDone, GetFinal, ReadFile, database, history, TypeOK
<1>3. CASE Exec(c)
  <2>1. db.schema \in [Versions -> Int]
    BY DEF TypeOK, DB
  <2>2. [db EXCEPT !.schema = Ran(@, c)] \in DB
    BY <2>1, RanType DEF TypeOK, DB
  <2> QED BY <1>1, <1>3, <2>2 DEF Exec, database, history, TypeOK
<1>4. CASE Record(c)
  <2> DEFINE row == IF call[c] = "up" THEN clock ELSE NotApplied
  <2>0. row \in Nat \cup {NotApplied}
    BY MigrationAssumption DEF MigrationAssumption, TypeOK
  <2> HIDE DEF row
  <2>1. [tx EXCEPT !.rows[version[c]] = row] \in DB
    <3>1. tx.rows \in [Versions -> Nat \cup {NotApplied}] /\ tx \in DB
      BY DEF TypeOK, DB
    <3>2. [tx.rows EXCEPT ![version[c]] = row] \in [Versions -> Nat \cup {NotApplied}]
      BY <2>0, <3>1
    <3>3. [tx EXCEPT !.rows = [tx.rows EXCEPT ![version[c]] = row]] \in DB
      BY <3>1, <3>2 DEF DB
    <3> QED BY <3>3
  <2> QED BY <1>1, <1>4, <2>1 DEF Record, Rollback, history, TypeOK, row
<1>5. CASE Commit(c)
  <2>1. Without(order, version[c]) \in Seq(Versions)
    BY WithoutType DEF TypeOK
  <2>2. ASSUME call[c] = "up", pc[c] = "Commit" PROVE Append(order, version[c]) \in Seq(Versions)
    BY <2>2 DEF TypeOK
  <2>3. redone' \in [Versions -> Nat]
    BY <1>5 DEF Commit, Rollback, history, TypeOK
  <2> QED BY <1>1, <1>5, <2>1, <2>2, <2>3 DEF Commit, Rollback, history, TypeOK
<1> QED BY <1>2, <1>3, <1>4, <1>5 DEF CallStep

LEMMA TypeKept == ASSUME TypeOK, [Next]_vars PROVE TypeOK'
<1>1. ASSUME NEW c \in Callers, CallStep(c) PROVE TypeOK'
  BY <1>1, LocalTypesKept, SharedTypesKept DEF LocalTypes, SharedTypes, TypeOK, Steps
<1>2. CASE EditDisk \/ UNCHANGED vars
  BY <1>2 DEF EditDisk, vars, database, history, locals, TypeOK
<1>3. CASE Tick
  BY <1>3, MigrationAssumption DEF MigrationAssumption, Tick, database, history, locals, TypeOK
<1>4. CASE Crash
  BY <1>4, MigrationAssumption DEF MigrationAssumption, Crash, history, TypeOK
<1> QED BY <1>1, <1>2, <1>3, <1>4 DEF Next

-----------------------------------------------------------------------------
(* The write transaction. *)

\* What a step does that is not in the transaction.
Outside(c) ==
  /\ UNCHANGED database
  /\ pc[c] \notin {"Record", "Commit"} /\ pc'[c] \notin {"Record", "Commit"}
  /\ \A d \in Callers \ {c} :
       pc'[d] = pc[d] /\ call'[d] = call[d] /\ version'[d] = version[d]

LEMMA ReturnMoves ==
  ASSUME TypeOK, NEW c \in Callers, Forget(c)
  PROVE  /\ pc'[c] = "idle"
         /\ \A d \in Callers \ {c} :
              pc'[d] = pc[d] /\ call'[d] = call[d] /\ version'[d] = version[d]
BY DEF TypeOK, Forget, Goto

LEMMA OutsideSteps ==
  ASSUME TypeOK, NEW c \in Callers,
         \/ Migrate(c, "up") \/ Migrate(c, "down") \/ NextVersion(c) \/ UpDone(c) \/ GetFinal(c)
         \/ ReadFile(c) \/ (Exec(c) /\ Return(c))
  PROVE  Outside(c)
<1> USE DEF Outside
<1>1. ASSUME NEW type \in {"up", "down"}, Migrate(c, type) PROVE Outside(c)
  BY <1>1 DEF Migrate, TypeOK, Goto
<1>2. CASE NextVersion(c)
  <2>1. CASE Return(c) BY <1>2, <2>1, ReturnMoves DEF NextVersion, Return
  <2>2. CASE ~Return(c) BY <1>2, <2>2 DEF NextVersion, TypeOK, Goto
  <2> QED BY <2>1, <2>2
<1>3. CASE UpDone(c)
  BY <1>3, ReturnMoves DEF UpDone, Return
<1>4. CASE GetFinal(c)
  <2>1. CASE Return(c) BY <1>4, <2>1, ReturnMoves DEF GetFinal, Return
  <2>2. CASE ~Return(c) BY <1>4, <2>2 DEF GetFinal, TypeOK, Goto
  <2> QED BY <2>1, <2>2
<1>5. CASE ReadFile(c)
  <2>1. CASE Return(c) BY <1>5, <2>1, ReturnMoves DEF ReadFile, Return
  <2>2. CASE ~Return(c) BY <1>5, <2>2 DEF ReadFile, TypeOK, Goto, locals
  <2> QED BY <2>1, <2>2
<1>6. CASE Exec(c) /\ Return(c)
  <2>1. pc'[c] = "idle" /\ pc[c] = "Exec"
    BY <1>6, ReturnMoves DEF Exec, Return
  <2>2. UNCHANGED database
    BY <1>6, <2>1 DEF Exec, Goto, TypeOK
  <2> QED BY <1>6, <2>1, <2>2, ReturnMoves DEF Return
<1> QED BY <1>1, <1>2, <1>3, <1>4, <1>5, <1>6

\* The steps of c that are in the transaction.
LEMMA Cases ==
  ASSUME TypeOK, NEW c \in Callers, CallStep(c)
  PROVE  \/ Outside(c)
         \/ Exec(c) /\ ~Return(c)
         \/ Record(c) \/ Commit(c)
BY OutsideSteps DEF CallStep

LEMMA HeldKept == ASSUME TypeOK, Held, [Next]_vars PROVE Held'
<1> USE MigrationAssumption DEF MigrationAssumption
<1>1. ASSUME NEW c \in Callers, CallStep(c) PROVE Held'
  <2>1. CASE Outside(c)
    BY <2>1 DEF Outside, Held, database, history
  <2>2. CASE Exec(c) /\ ~Return(c)
    <3>1. writer = NoCaller /\ writer' = c /\ pc' = [pc EXCEPT ![c] = "Record"]
      BY <2>2 DEF Exec, Goto
    <3> QED BY <3>1 DEF Held, TypeOK
  <2>3. CASE Rollback(c) /\ (Record(c) \/ Commit(c))
    <3>1. writer' = NoCaller /\ tx' = db /\ db' = db /\ writer = c
      BY <2>3 DEF Rollback, Held, Record, Commit
    <3>2. pc'[c] = "idle" /\ \A d \in Callers \ {c} : pc'[d] = pc[d]
      BY <2>3, ReturnMoves DEF Rollback, Return
    <3> QED BY <3>1, <3>2 DEF Held
  <2>4. CASE Record(c) /\ ~Rollback(c)
    <3>1. writer' = writer /\ pc' = [pc EXCEPT ![c] = "Commit"] /\ writer = c
      BY <2>4 DEF Record, Goto, Held
    <3> QED BY <3>1 DEF Held, TypeOK
  <2>5. CASE Commit(c) /\ ~Rollback(c)
    <3>1. writer' = NoCaller /\ tx' = tx /\ db' = tx /\ writer = c
      BY <2>5 DEF Commit, Held
    <3>2. pc'[c] \in {"idle", "isMigrationApplied"} /\ \A d \in Callers \ {c} : pc'[d] = pc[d]
      BY <2>5, ReturnMoves DEF Commit, Goto, TypeOK
    <3> QED BY <3>1, <3>2 DEF Held
  <2> QED BY <1>1, Cases, <2>1, <2>2, <2>3, <2>4, <2>5
<1>2. CASE EditDisk \/ Tick \/ UNCHANGED vars
  BY <1>2 DEF EditDisk, Tick, vars, database, history, Held
<1>3. CASE Crash
  BY <1>3 DEF Crash, Held
<1> QED BY <1>1, <1>2, <1>3 DEF Next

LEMMA PendingKept == ASSUME TypeOK, Held, Pending, [Next]_vars PROVE Pending'
<1>1. ASSUME NEW c \in Callers, CallStep(c) PROVE Pending'
  <2> SUFFICES ASSUME NEW d \in Callers PROVE PendingOf(d)'
    BY DEF Pending
  <2>1. CASE Outside(c)
    BY <2>1 DEF Outside, Pending, PendingOf, database, history, Ran
  <2>2. CASE d # c /\ ~Outside(c)
    <3>1. pc'[d] = pc[d]
      <4>1. CASE Forget(c) BY <2>2, <4>1, ReturnMoves
      <4>2. CASE ~Forget(c)
        <5>1. \E step \in Steps : Goto(c, step)
          BY <1>1, <2>2, <4>2, Cases DEF Exec, Record, Commit, Rollback, Return, Steps
        <5> QED BY <2>2, <5>1 DEF Goto, TypeOK
      <4> QED BY <4>1, <4>2
    <3>2. pc[d] \notin {"Record", "Commit"}
      BY <1>1, <2>2, Cases, MigrationAssumption DEF MigrationAssumption, Held, Exec, Record, Commit
    <3> QED BY <3>1, <3>2 DEF PendingOf
  <2>3. CASE d = c /\ Exec(c) /\ ~Return(c)
    <3>1. /\ tx' = [db EXCEPT !.schema = Ran(@, c)] /\ pc' = [pc EXCEPT ![c] = "Record"]
          /\ UNCHANGED <<db, call, version>>
      BY <2>3 DEF Exec, Goto, locals
    <3> QED BY <2>3, <3>1 DEF PendingOf, TypeOK, DB, Ran
  <2>4. CASE d = c /\ Rollback(c)
    BY <2>4, ReturnMoves DEF Rollback, Return, PendingOf
  <2>5. CASE d = c /\ Record(c) /\ ~Rollback(c)
    <3> DEFINE row == IF call[c] = "up" THEN clock ELSE NotApplied
    <3>1. /\ call[c] = "up" => tx.rows[version[c]] = NotApplied
          /\ tx' = [tx EXCEPT !.rows[version[c]] = row]
          /\ pc[c] = "Record" /\ pc' = [pc EXCEPT ![c] = "Commit"]
          /\ UNCHANGED <<db, call, version>>
      BY <2>5 DEF Record, Goto, locals
    <3>2. tx.rows = db.rows /\ tx.schema = Ran(db.schema, c)
      BY <3>1 DEF Pending, PendingOf
    <3>3. tx'.rows = [db.rows EXCEPT ![version[c]] = row] /\ tx'.schema = tx.schema
      BY <3>1, <3>2 DEF TypeOK, DB
    <3>4. clock \in Nat /\ call[c] \in {"up", "down"}
      BY MigrationAssumption DEF MigrationAssumption, TypeOK
    <3>5. Ran(db.schema, c)' = Ran(db.schema, c)
      BY <3>1 DEF Ran
    <3>6. pc'[c] = "Commit"
      BY <3>1 DEF TypeOK
    <3>7. CASE call[c] = "up"
      BY <2>5, <3>1, <3>2, <3>3, <3>4, <3>5, <3>6, <3>7 DEF PendingOf
    <3>8. CASE call[c] = "down"
      BY <2>5, <3>1, <3>2, <3>3, <3>4, <3>5, <3>6, <3>8 DEF PendingOf
    <3> QED BY <3>4, <3>7, <3>8
  <2>6. CASE d = c /\ Commit(c) /\ ~Rollback(c)
    <3>1. pc'[c] \in {"idle", "isMigrationApplied"}
      BY <2>6, ReturnMoves DEF Commit, Goto, TypeOK
    <3> QED BY <2>6, <3>1 DEF PendingOf
  <2> QED BY <1>1, Cases, <2>1, <2>2, <2>3, <2>4, <2>5, <2>6
<1>2. CASE EditDisk \/ Tick \/ UNCHANGED vars
  BY <1>2 DEF EditDisk, Tick, vars, database, history, locals, Pending, PendingOf, Ran
<1>3. CASE Crash
  BY <1>3 DEF Crash, Pending, PendingOf
<1> QED BY <1>1, <1>2, <1>3 DEF Next

-----------------------------------------------------------------------------
(* What a commit does to the database. *)

Committed(c) ==
  /\ pc[c] = "Commit" /\ version[c] \in Versions
  /\ db'.rows = [db.rows EXCEPT ![version[c]] = tx.rows[version[c]]]
  /\ \/ /\ call[c] = "up"
        /\ version[c] \notin Recorded
        /\ Recorded' = Recorded \cup {version[c]}
        /\ db'.schema = [db.schema EXCEPT ![version[c]] = @ + 1]
        /\ redone' = redone
     \/ /\ call[c] = "down"
        /\ Recorded' = Recorded \ {version[c]}
        /\ db'.schema = [db.schema EXCEPT ![version[c]] = @ - 1]
        /\ redone' = IF version[c] \in Recorded THEN redone
                     ELSE [redone EXCEPT ![version[c]] = @ + 1]

LEMMA CommitEffect ==
  ASSUME IInv, NEW c \in Callers, Commit(c), ~Rollback(c) PROVE Committed(c)
<1> DEFINE v == version[c]
<1>1. pc[c] = "Commit" /\ db' = tx /\ v \in Versions /\ call[c] \in {"up", "down"}
  BY DEF Commit, IInv, TypeOK
<1>2. PendingOf(c)
  BY DEF IInv, Pending
<1>3. tx.schema = Ran(db.schema, c)
  BY <1>1, <1>2 DEF PendingOf
<1>4. db.schema \in [Versions -> Int] /\ db.rows \in [Versions -> Nat \cup {NotApplied}]
  BY DEF IInv, TypeOK, DB
<1>5. CASE call[c] = "up"
  <2>1. db.rows[v] = NotApplied /\ \E t \in Nat : tx.rows = [db.rows EXCEPT ![v] = t]
    BY <1>1, <1>2, <1>5 DEF PendingOf
  <2>2. Recorded' = Recorded \cup {v} /\ v \notin Recorded
    BY <1>1, <1>4, <2>1, MigrationAssumption DEF MigrationAssumption, Recorded
  <2>3. db'.schema = [db.schema EXCEPT ![v] = @ + 1]
    BY <1>1, <1>3, <1>5 DEF Ran
  <2>4. db'.rows = [db.rows EXCEPT ![v] = tx.rows[v]]
    BY <1>1, <1>4, <2>1
  <2>5. redone' = redone
    BY <1>5 DEF Commit
  <2> QED BY <1>1, <1>5, <2>2, <2>3, <2>4, <2>5 DEF Committed
<1>6. CASE call[c] = "down"
  <2>1. tx.rows = [db.rows EXCEPT ![v] = NotApplied]
    BY <1>1, <1>2, <1>6 DEF PendingOf
  <2>2. Recorded' = Recorded \ {v}
    BY <1>1, <1>4, <2>1 DEF Recorded
  <2>3. db'.schema = [db.schema EXCEPT ![v] = @ - 1]
    BY <1>1, <1>3, <1>6 DEF Ran
  <2>4. redone' = IF v \in Recorded THEN redone ELSE [redone EXCEPT ![v] = @ + 1]
    BY <1>6 DEF Commit, Redoes
  <2>5. db'.rows = [db.rows EXCEPT ![v] = tx.rows[v]]
    BY <1>1, <1>4, <2>1
  <2> QED BY <1>1, <1>6, <2>2, <2>3, <2>4, <2>5 DEF Committed
<1> QED BY <1>1, <1>5, <1>6

LEMMA OnlyCommits ==
  ASSUME TypeOK, [Next]_vars
  PROVE  UNCHANGED <<db, redone>> \/ \E c \in Callers : Commit(c) /\ ~Rollback(c)
<1>1. ASSUME NEW c \in Callers, CallStep(c)
      PROVE  UNCHANGED <<db, redone>> \/ (Commit(c) /\ ~Rollback(c))
  BY <1>1, Cases DEF Outside, database, history, Exec, Record, Rollback
<1>2. CASE EditDisk \/ Tick \/ Crash \/ UNCHANGED vars
  BY <1>2 DEF EditDisk, Tick, Crash, vars, database, history
<1> QED BY <1>1, <1>2 DEF Next

LEMMA InEffectAsRecordedKept == ASSUME IInv, [Next]_vars PROVE InEffectAsRecorded'
<1>1. CASE UNCHANGED <<db, redone>>
  BY <1>1 DEF IInv, InEffectAsRecorded, Recorded
<1>2. ASSUME NEW c \in Callers, Commit(c), ~Rollback(c) PROVE InEffectAsRecorded'
  <2>1. Committed(c)
    BY <1>2, CommitEffect
  <2>2. db.schema \in [Versions -> Int] /\ redone \in [Versions -> Nat]
    BY DEF IInv, TypeOK, DB
  <2>3. \A v \in Versions : db.schema[v] = (IF v \in Recorded THEN 1 ELSE 0) - redone[v]
    BY DEF IInv, InEffectAsRecorded
  <2> DEFINE w == version[c]
  <2>4. \A v \in Versions : v # w =>
          /\ db'.schema[v] = db.schema[v] /\ redone'[v] = redone[v]
          /\ v \in Recorded' <=> v \in Recorded
    BY <2>1, <2>2 DEF Committed
  <2>5. db'.schema[w] = (IF w \in Recorded' THEN 1 ELSE 0) - redone'[w]
    <3>1. w \in Versions /\ db.schema[w] \in Int /\ redone[w] \in Nat
      BY <2>1, <2>2 DEF Committed
    <3>2. CASE call[c] = "up"
      BY <2>1, <2>2, <2>3, <3>1, <3>2 DEF Committed
    <3>3. CASE call[c] = "down"
      <4>1. db'.schema[w] = db.schema[w] - 1 /\ w \notin Recorded'
        BY <2>1, <2>2, <3>3 DEF Committed
      <4>2. redone'[w] = IF w \in Recorded THEN redone[w] ELSE redone[w] + 1
        BY <2>1, <2>2, <3>3 DEF Committed
      <4> QED BY <2>3, <3>1, <4>1, <4>2
    <3> QED BY <2>1, <3>2, <3>3 DEF Committed
  <2> HIDE DEF w
  <2> QED BY <2>3, <2>4, <2>5 DEF InEffectAsRecorded
<1> QED BY <1>1, <1>2, OnlyCommits DEF IInv

(* Whatever callers, errors and crashes there are, the variables have their *)
(* types, the write transaction has one owner and holds that caller's work, *)
(* and a version is in effect as recorded, less the downs run once more.    *)
THEOREM MigrationInvariant == Spec => []IInv
<1>1. Init => IInv
  BY InitEstablishes
<1>2. IInv /\ [Next]_vars => IInv'
  BY TypeKept, HeldKept, PendingKept, InEffectAsRecordedKept DEF IInv
<1> QED BY <1>1, <1>2, PTL DEF Spec

(* The types of Migration; executeMigration always has a version.          *)
THEOREM TypeCorrect == Spec => []TypeOK
<1>1. IInv => TypeOK
  BY DEF IInv
<1> QED BY <1>1, MigrationInvariant, PTL

(* No up file is in effect twice, and a version falls short of its row in  *)
(* __migrations only by the times that its down file was run once more,    *)
(* although the version is chosen before the transaction is open.          *)
THEOREM InEffectAsRecordedAlways == Spec => []InEffectAsRecorded
<1>1. IInv => InEffectAsRecorded
  BY DEF IInv
<1> QED BY <1>1, MigrationInvariant, PTL

LEMMA StepImplements ==
  ASSUME IInv, [Next]_vars PROVE [Abstract!Next]_<<db.schema, Recorded>>
<1>1. CASE UNCHANGED <<db, redone>>
  BY <1>1 DEF Recorded
<1>2. ASSUME NEW c \in Callers, Commit(c), ~Rollback(c)
      PROVE  [Abstract!Next]_<<db.schema, Recorded>>
  <2>1. Committed(c)
    BY <1>2, CommitEffect
  <2>2. CASE call[c] = "up"
    BY <2>1, <2>2 DEF Committed, Abstract!Next, Abstract!Apply
  <2>3. CASE call[c] = "down" /\ version[c] \in Recorded
    BY <2>1, <2>3 DEF Committed, Abstract!Next, Abstract!Revert
  <2>4. CASE call[c] = "down" /\ version[c] \notin Recorded
    BY <2>1, <2>4 DEF Committed, Abstract!Next, Abstract!Redo
  <2> QED BY <2>1, <2>2, <2>3, <2>4 DEF Committed
<1> QED BY <1>1, <1>2, OnlyCommits DEF IInv

(* Migrate implements VersionedSchema: each commit takes one version up,   *)
(* down, or down once more, and nothing else changes the database.         *)
THEOREM Implementation == Spec => ImplementsVersionedSchema
<1>1. Init => Abstract!Init
  BY DEF Init, Abstract!Init, Recorded
<1>2. IInv /\ [Next]_vars => [Abstract!Next]_<<db.schema, Recorded>>
  BY StepImplements
<1> QED BY <1>1, <1>2, MigrationInvariant, PTL DEF Spec, ImplementsVersionedSchema, Abstract!Spec

-----------------------------------------------------------------------------
(* An Up misses no version: those it found are applied, at hand or still   *)
(* to come, unless another caller took one down.                           *)

Modes ==
  \A c \in Callers :
    /\ pc[c] \in {"idle", "isMigrationApplied"} => call[c] = "up"
    /\ pc[c] = "getFinal" => call[c] = "down"

Ahead(c) == {version[c]} \cup {todo[c][i] : i \in 1..Len(todo[c])}

CompleteOf(c) ==
  call[c] = "up" /\ pc[c] # "idle" /\ c \notin overtaken
    => VersionsOf(loaded[c]) \subseteq Recorded \cup Ahead(c)
Complete == \A c \in Callers : CompleteOf(c)

\* What a step of c leaves alone.
LEMMA Others ==
  ASSUME TypeOK, NEW c \in Callers, CallStep(c), NEW d \in Callers, d # c
  PROVE  /\ pc'[d] = pc[d] /\ call'[d] = call[d] /\ loaded'[d] = loaded[d]
         /\ todo'[d] = todo[d] /\ version'[d] = version[d]
         /\ d \in overtaken => d \in overtaken'
<1>1. CASE Migrate(c, "up") \/ Migrate(c, "down")
  BY <1>1 DEF Migrate, TypeOK, Goto
<1>2. CASE NextVersion(c) /\ ~Forget(c)
  BY <1>2 DEF NextVersion, Return, TypeOK, Goto
<1>3. CASE Forget(c)
  <2>1. overtaken' \in {overtaken, overtaken \ {c}, overtaken \cup Overtakes(c),
                        (overtaken \cup Overtakes(c)) \ {c}}
    BY DEF CallStep, Migrate, NextVersion, UpDone, GetFinal, ReadFile, Exec, Record, Commit,
           Return, Rollback
  <2> QED BY <1>3, <2>1 DEF Forget, TypeOK, Goto
<1>4. CASE GetFinal(c) /\ ~Forget(c)
  BY <1>4 DEF GetFinal, TypeOK, Goto, Return
<1>5. CASE (ReadFile(c) \/ Exec(c) \/ Record(c)) /\ ~Forget(c)
  <2>1. UNCHANGED <<call, loaded, todo, version, overtaken>> /\ \E step \in Steps : Goto(c, step)
    BY <1>5 DEF ReadFile, Exec, Record, Rollback, Return, locals, Steps
  <2> QED BY <2>1 DEF Goto, TypeOK
<1>6. CASE Commit(c) /\ ~Forget(c)
  <2>1. /\ UNCHANGED <<call, loaded, todo>> /\ Goto(c, "isMigrationApplied")
        /\ version' = [version EXCEPT ![c] = NoVersion]
        /\ overtaken' = overtaken \cup Overtakes(c)
    BY <1>6 DEF Commit, Rollback, Return
  <2> QED BY <2>1 DEF Goto, TypeOK
<1>7. CASE UpDone(c)
  BY <1>3, <1>7 DEF UpDone, Return
<1> QED BY <1>1, <1>2, <1>3, <1>4, <1>5, <1>6, <1>7 DEF CallStep

LEMMA ModesKept == ASSUME TypeOK, Modes, [Next]_vars PROVE Modes'
<1>1. ASSUME NEW c \in Callers, CallStep(c) PROVE Modes'
  <2> SUFFICES ASSUME NEW d \in Callers
               PROVE  /\ pc'[d] \in {"idle", "isMigrationApplied"} => call'[d] = "up"
                      /\ pc'[d] = "getFinal" => call'[d] = "down"
    BY DEF Modes
  <2>1. CASE d # c
    BY <1>1, <2>1, Others DEF Modes
  <2>2. CASE d = c /\ Forget(c)
    BY <2>2 DEF Forget, Goto, TypeOK
  <2>3. CASE d = c /\ (Migrate(c, "up") \/ Migrate(c, "down") \/ NextVersion(c) \/ GetFinal(c))
             /\ ~Forget(c)
    BY <2>3 DEF Migrate, NextVersion, GetFinal, Return, Goto, TypeOK, Modes
  <2>4. CASE d = c /\ (ReadFile(c) \/ Exec(c) \/ Record(c)) /\ ~Forget(c)
    <3>1. \E step \in {"Exec", "Record", "Commit"} : Goto(c, step)
      BY <2>4 DEF ReadFile, Exec, Record, Rollback, Return
    <3> QED BY <2>4, <3>1 DEF Goto, TypeOK
  <2>5. CASE d = c /\ Commit(c) /\ ~Forget(c)
    <3>1. UNCHANGED call /\ call[c] = "up" /\ Goto(c, "isMigrationApplied")
      BY <2>5 DEF Commit, Rollback, Return
    <3> QED BY <2>5, <3>1 DEF Goto, TypeOK
  <2> QED BY <1>1, <2>1, <2>2, <2>3, <2>4, <2>5 DEF CallStep, UpDone, Return
<1>2. CASE EditDisk \/ Tick \/ UNCHANGED vars
  BY <1>2 DEF EditDisk, Tick, vars, database, history, locals, Modes
<1>3. CASE Crash
  BY <1>3 DEF Crash, Modes
<1> QED BY <1>1, <1>2, <1>3 DEF Next

\* What is recorded stays so, but for the version that a Down takes away.
LEMMA RecordedStays ==
  ASSUME IInv, NEW c \in Callers, CallStep(c)
  PROVE  \/ Recorded \subseteq Recorded'
         \/ Commit(c) /\ ~Rollback(c) /\ call[c] = "down"
<1>1. CASE Commit(c) /\ ~Rollback(c)
  BY <1>1, CommitEffect DEF Committed
<1>2. CASE ~(Commit(c) /\ ~Rollback(c))
  <2>1. db' = db
    BY <1>2, Cases DEF IInv, Outside, database, history, Exec, Record, Rollback
  <2> QED BY <2>1 DEF Recorded
<1> QED BY <1>1, <1>2

LEMMA ListIsAll ==
  ASSUME NEW S \in SUBSET Versions, NEW list \in SortedLists(S)
  PROVE  S \subseteq {list[i] : i \in 1..Len(list)}
<1> DEFINE n == Cardinality(S)
<1>1. IsFiniteSet(S) /\ n \in Nat
  BY MigrationAssumption, FS_Subset, FS_CardinalityType DEF MigrationAssumption
<1>2. list \in [1..n -> S] /\ \A i, j \in 1..n : i # j => list[i] # list[j]
  BY DEF SortedLists, SetToSeqs
<1>3. Len(list) = n
  BY <1>1, <1>2
<1> DEFINE T == {list[i] : i \in 1..n}
<1>4. T \subseteq S /\ IsFiniteSet(T)
  BY <1>1, <1>2, FS_Subset
<1>5. Cardinality(T) = n
  <2>1. list \in Bijection(1..n, T)
    BY <1>2 DEF Bijection, Injection, Surjection, IsInjective
  <2> QED BY <1>1, <2>1, FS_CountingElements, FS_CardinalityType DEF ExistsBijection
<1>6. T = S
  BY <1>1, <1>4, <1>5, FS_Subset
<1> QED BY <1>3, <1>6

LEMMA LoadedVersions ==
  ASSUME TypeOK, NEW c \in Callers PROVE VersionsOf(loaded[c]) \subseteq Versions
<1>1. loaded[c] \in SUBSET (Versions \X Kinds)
  BY MigrationAssumption DEF MigrationAssumption, TypeOK
<1> QED BY <1>1 DEF VersionsOf

LEMMA CompleteKept == ASSUME IInv, Modes, Complete, [Next]_vars PROVE Complete'
<1>0. TypeOK
  BY DEF IInv
<1>1. ASSUME NEW c \in Callers, CallStep(c) PROVE Complete'
  <2> SUFFICES ASSUME NEW d \in Callers PROVE CompleteOf(d)'
    BY DEF Complete
  <2>1. CASE d # c
    <3>1. CASE Recorded \subseteq Recorded'
      BY <1>0, <1>1, <2>1, <3>1, Others DEF Complete, CompleteOf, Ahead
    <3>2. CASE Commit(c) /\ ~Rollback(c) /\ call[c] = "down"
      <4>1. overtaken' = (overtaken \cup Overtakes(c)) \ {c}
        BY <3>2 DEF Commit
      <4>2. call[d] = "up" /\ pc[d] # "idle" => d \in overtaken'
        BY <2>1, <3>2, <4>1 DEF Overtakes
      <4> QED BY <1>0, <1>1, <2>1, <4>2, Others DEF CompleteOf
    <3> QED BY <1>1, <3>1, <3>2, RecordedStays
  <2>2. CASE d = c /\ Forget(c)
    BY <1>0, <2>2 DEF Forget, Goto, TypeOK, CompleteOf
  <2>3. CASE d = c /\ (Migrate(c, "down") \/ GetFinal(c)) /\ ~Forget(c)
    <3>1. call'[c] = "down"
      BY <1>0, <2>3 DEF Migrate, GetFinal, Return, TypeOK, Modes
    <3> QED BY <2>3, <3>1 DEF CompleteOf
  <2>4. CASE d = c /\ Migrate(c, "up")
    <3>1. loaded'[c] = disk /\ \E list \in SortedLists(VersionsOf(disk)) : todo'[c] = list
      BY <1>0, <2>4 DEF Migrate, TypeOK
    <3>2. VersionsOf(disk) \subseteq Versions
      BY <1>0, MigrationAssumption DEF MigrationAssumption, TypeOK, VersionsOf
    <3>3. VersionsOf(disk) \subseteq {todo'[c][i] : i \in 1..Len(todo'[c])}
      BY <3>1, <3>2, ListIsAll
    <3> QED BY <2>4, <3>1, <3>3 DEF CompleteOf, Ahead
  <2>5. CASE d = c /\ NextVersion(c) /\ ~Forget(c)
    <3> DEFINE s == todo[c]
    <3>1. /\ todo'[c] = Tail(s) /\ s \in Seq(Versions) /\ s # <<>>
          /\ UNCHANGED <<call, loaded, db, overtaken>> /\ pc[c] = "isMigrationApplied"
          /\ version'[c] = Head(s) \/ (version' = version /\ Head(s) \in Recorded)
      BY <1>0, <2>5 DEF NextVersion, Return, TypeOK, database, history
    <3>2. {s[i] : i \in 1..Len(s)} \subseteq {Head(s)} \cup {Tail(s)[i] : i \in 1..Len(Tail(s))}
      <4> SUFFICES ASSUME NEW i \in 1..Len(s), i # 1
                   PROVE  s[i] \in {Tail(s)[k] : k \in 1..Len(Tail(s))}
        BY <3>1
      <4>1. i - 1 \in 1..Len(Tail(s)) /\ Tail(s)[i - 1] = s[i]
        BY <3>1
      <4> QED BY <4>1
    <3>3. version[c] \notin Versions
      BY <1>0, <3>1 DEF TypeOK
    <3>4. VersionsOf(loaded[c]) \subseteq Versions
      BY <1>0, LoadedVersions
    <3>5. Recorded' = Recorded
      BY <3>1 DEF Recorded
    <3>6. call[c] = "up"
      BY <3>1 DEF Modes
    <3>7. c \notin overtaken => VersionsOf(loaded[c]) \subseteq Recorded \cup Ahead(c)
      BY <3>1, <3>6 DEF Complete, CompleteOf
    <3>8. c \notin overtaken => VersionsOf(loaded[c]) \subseteq
            Recorded \cup {Head(s)} \cup {Tail(s)[i] : i \in 1..Len(Tail(s))}
      BY <3>2, <3>3, <3>4, <3>7 DEF Ahead
    <3> QED BY <2>5, <3>1, <3>5, <3>8 DEF CompleteOf, Ahead
  <2>6. CASE d = c /\ (ReadFile(c) \/ Exec(c) \/ Record(c)) /\ ~Forget(c)
    <3>1. UNCHANGED <<call, loaded, todo, version, overtaken, db>> /\ pc[c] # "idle"
      BY <2>6 DEF ReadFile, Exec, Record, Rollback, Return, locals, database, history
    <3> QED BY <2>6, <3>1 DEF Complete, CompleteOf, Ahead, Recorded
  <2>7. CASE d = c /\ Commit(c) /\ ~Forget(c)
    <3>1. /\ UNCHANGED <<call, loaded, todo>> /\ call[c] = "up" /\ pc[c] = "Commit"
          /\ overtaken' = overtaken \cup Overtakes(c) /\ ~Rollback(c)
      BY <2>7 DEF Commit, Rollback, Return
    <3>2. Recorded' = Recorded \cup {version[c]}
      BY <2>7, <3>1, CommitEffect DEF Committed
    <3> QED BY <2>7, <3>1, <3>2 DEF Complete, CompleteOf, Ahead
  <2> QED BY <1>1, <2>1, <2>2, <2>3, <2>4, <2>5, <2>6, <2>7 DEF CallStep, UpDone, Return
<1>2. CASE EditDisk \/ Tick \/ UNCHANGED vars
  BY <1>2 DEF EditDisk, Tick, vars, database, history, locals, Complete, CompleteOf, Ahead, Recorded
<1>3. CASE Crash
  BY <1>3 DEF Crash, Complete, CompleteOf
<1> QED BY <1>1, <1>2, <1>3 DEF Next

LEMMA CompleteInit == Init => Modes /\ Complete
BY DEF Init, Modes, Complete, CompleteOf

(* An Up that returns without an error has applied every version it found, *)
(* unless another caller has taken one down.                               *)
THEOREM UpIsCompleteAlways == Spec => UpIsComplete
<1>1. Init => IInv /\ Modes /\ Complete
  BY InitEstablishes, CompleteInit
<1>2. IInv /\ Modes /\ Complete /\ [Next]_vars => (IInv /\ Modes /\ Complete)'
  BY TypeKept, HeldKept, PendingKept, InEffectAsRecordedKept, ModesKept, CompleteKept DEF IInv
<1>3. IInv /\ Modes /\ Complete =>
        \A c \in Callers : UpDone(c) => c \in overtaken \/ VersionsOf(loaded[c]) \subseteq Recorded
  <2> SUFFICES ASSUME IInv, Modes, Complete, NEW c \in Callers, UpDone(c), c \notin overtaken
               PROVE  VersionsOf(loaded[c]) \subseteq Recorded
    OBVIOUS
  <2>0. TypeOK
    BY DEF IInv
  <2>1. pc[c] = "isMigrationApplied" /\ todo[c] = <<>> /\ call[c] = "up"
    BY DEF UpDone, Modes
  <2>2. VersionsOf(loaded[c]) \subseteq Recorded \cup {version[c]}
    BY <2>1 DEF Complete, CompleteOf, Ahead
  <2>3. version[c] \notin Versions
    BY <2>0, <2>1 DEF TypeOK
  <2> QED BY <2>0, <2>2, <2>3, LoadedVersions
<1> QED BY <1>1, <1>2, <1>3, PTL DEF Spec, UpIsComplete

-----------------------------------------------------------------------------
(* An Up goes in order: what is still to come is behind what is at hand.   *)

SortedOf(c) ==
  call[c] = "up" /\ pc[c] # "idle" /\ (\A v \in VersionsOf(loaded[c]) : Number[v] # TooLarge) =>
    /\ version[c] \in VersionsOf(loaded[c]) \cup {NoVersion}
    /\ \A i \in 1..Len(todo[c]) : todo[c][i] \in VersionsOf(loaded[c])
    /\ \A i, j \in 1..Len(todo[c]) : i < j => Before(todo[c][i], todo[c][j])
    /\ version[c] # NoVersion => \A i \in 1..Len(todo[c]) : Before(version[c], todo[c][i])
Sorted == \A c \in Callers : SortedOf(c)

LEMMA SortedKept == ASSUME TypeOK, Modes, Sorted, [Next]_vars PROVE Sorted'
<1>1. ASSUME NEW c \in Callers, CallStep(c) PROVE Sorted'
  <2> SUFFICES ASSUME NEW d \in Callers PROVE SortedOf(d)'
    BY DEF Sorted
  <2>1. CASE d # c
    BY <1>1, <2>1, Others DEF Sorted, SortedOf
  <2>2. CASE d = c /\ Forget(c)
    BY <2>2 DEF Forget, Goto, TypeOK, SortedOf
  <2>3. CASE d = c /\ (Migrate(c, "down") \/ GetFinal(c)) /\ ~Forget(c)
    <3>1. call'[c] = "down"
      BY <2>3 DEF Migrate, GetFinal, Return, TypeOK, Modes
    <3> QED BY <2>3, <3>1 DEF SortedOf
  <2>4. CASE d = c /\ Migrate(c, "up")
    <3>1. loaded'[c] = disk /\ \E list \in SortedLists(VersionsOf(disk)) : todo'[c] = list
      BY <2>4 DEF Migrate, TypeOK
    <3>2. VersionsOf(disk) \subseteq Versions
      BY MigrationAssumption DEF MigrationAssumption, TypeOK, VersionsOf
    <3>3. version'[c] = NoVersion
      BY <2>4, MigrationAssumption DEF MigrationAssumption, Migrate, TypeOK
    <3>4. (\A v \in VersionsOf(disk) : Number[v] # TooLarge) =>
            /\ \A i \in 1..Len(todo'[c]) : todo'[c][i] \in VersionsOf(disk)
            /\ \A i, j \in 1..Len(todo'[c]) : i < j => Before(todo'[c][i], todo'[c][j])
      BY <3>1, <3>2, SortedIsOrdered
    <3> QED BY <2>4, <3>1, <3>3, <3>4 DEF SortedOf
  <2>5. CASE d = c /\ NextVersion(c) /\ ~Forget(c)
    <3> DEFINE s == todo[c]
               all == VersionsOf(loaded[c])
    <3>1. /\ todo'[c] = Tail(s) /\ s \in Seq(Versions) /\ s # <<>>
          /\ UNCHANGED <<call, loaded>> /\ pc[c] = "isMigrationApplied" /\ call[c] = "up"
          /\ version'[c] = Head(s) \/ version'[c] = version[c]
      BY <2>5 DEF NextVersion, Return, TypeOK, Modes
    <3>2. version[c] = NoVersion
      BY <3>1 DEF TypeOK
    <3>3. /\ Head(s) = s[1] /\ 1 \in 1..Len(s) /\ Len(Tail(s)) = Len(s) - 1
          /\ \A i \in 1..Len(Tail(s)) : Tail(s)[i] = s[i + 1] /\ i + 1 \in 1..Len(s)
      BY <3>1
    <3> SUFFICES ASSUME \A v \in all : Number[v] # TooLarge
                 PROVE  /\ version'[c] \in all \cup {NoVersion}
                        /\ \A i \in 1..Len(Tail(s)) : Tail(s)[i] \in all
                        /\ \A i, j \in 1..Len(Tail(s)) : i < j => Before(Tail(s)[i], Tail(s)[j])
                        /\ version'[c] # NoVersion =>
                             \A i \in 1..Len(Tail(s)) : Before(version'[c], Tail(s)[i])
      BY <2>5, <3>1 DEF SortedOf
    <3>4. /\ \A i \in 1..Len(s) : s[i] \in all
          /\ \A i, j \in 1..Len(s) : i < j => Before(s[i], s[j])
      BY <3>1 DEF Sorted, SortedOf
    <3>5. version'[c] \in all \cup {NoVersion}
      BY <3>1, <3>2, <3>3, <3>4
    <3>6. \A i \in 1..Len(Tail(s)) : Tail(s)[i] \in all
      BY <3>3, <3>4
    <3>7. \A i, j \in 1..Len(Tail(s)) : i < j => Before(Tail(s)[i], Tail(s)[j])
      <4> SUFFICES ASSUME NEW i \in 1..Len(Tail(s)), NEW j \in 1..Len(Tail(s)), i < j
                   PROVE  Before(Tail(s)[i], Tail(s)[j])
        OBVIOUS
      <4>1. i + 1 < j + 1
        OBVIOUS
      <4> QED BY <3>3, <3>4, <4>1
    <3>8. \A i \in 1..Len(Tail(s)) : Before(Head(s), Tail(s)[i])
      <4> SUFFICES ASSUME NEW i \in 1..Len(Tail(s)) PROVE Before(Head(s), Tail(s)[i])
        OBVIOUS
      <4>1. 1 < i + 1
        OBVIOUS
      <4> QED BY <3>3, <3>4, <4>1
    <3> QED BY <3>1, <3>2, <3>5, <3>6, <3>7, <3>8
  <2>6. CASE d = c /\ (ReadFile(c) \/ Exec(c) \/ Record(c)) /\ ~Forget(c)
    <3>1. UNCHANGED <<call, loaded, todo, version>> /\ pc[c] # "idle"
      BY <2>6 DEF ReadFile, Exec, Record, Rollback, Return, locals
    <3> QED BY <2>6, <3>1 DEF Sorted, SortedOf
  <2>7. CASE d = c /\ Commit(c) /\ ~Forget(c)
    <3>1. /\ UNCHANGED <<call, loaded, todo>> /\ pc[c] = "Commit"
          /\ version' = [version EXCEPT ![c] = NoVersion]
      BY <2>7 DEF Commit, Rollback, Return
    <3>2. version'[c] = NoVersion
      BY <3>1 DEF TypeOK
    <3> QED BY <2>7, <3>1, <3>2 DEF Sorted, SortedOf
  <2> QED BY <1>1, <2>1, <2>2, <2>3, <2>4, <2>5, <2>6, <2>7 DEF CallStep, UpDone, Return
<1>2. CASE EditDisk \/ Tick \/ UNCHANGED vars
  BY <1>2 DEF EditDisk, Tick, vars, database, history, locals, Sorted, SortedOf
<1>3. CASE Crash
  BY <1>3 DEF Crash, Sorted, SortedOf
<1> QED BY <1>1, <1>2, <1>3 DEF Next

UInv == IInv /\ Modes /\ Complete /\ Sorted

(* Up applies versions in the order of their numbers, unless another       *)
(* caller takes versions down meanwhile, or a number does not fit an int.  *)
THEOREM UpInOrderAlways == Spec => UpInOrder
<1>1. Init => UInv
  <2>1. Init => Sorted
    BY DEF Init, Sorted, SortedOf
  <2> QED BY <2>1, InitEstablishes, CompleteInit DEF UInv
<1>2. UInv /\ [Next]_vars => UInv'
  BY TypeKept, HeldKept, PendingKept, InEffectAsRecordedKept, ModesKept, CompleteKept, SortedKept
  DEF UInv, IInv
<1>3. UInv =>
        \A c \in Callers : Applies(c) =>
          \/ c \in overtaken
          \/ \E v \in VersionsOf(loaded[c]) : Number[v] = TooLarge
          \/ \A v \in VersionsOf(loaded[c]) :
               Numbered(v) /\ Numbered(version[c]) /\ Number[v] < Number[version[c]]
                 => v \in Recorded
  <2> SUFFICES ASSUME UInv, NEW c \in Callers, Applies(c), c \notin overtaken,
                      \A v \in VersionsOf(loaded[c]) : Number[v] # TooLarge,
                      NEW v \in VersionsOf(loaded[c]),
                      Numbered(v), Numbered(version[c]), Number[v] < Number[version[c]],
                      v \notin Recorded
               PROVE  FALSE
    OBVIOUS
  <2>0. TypeOK /\ pc[c] = "Commit" /\ call[c] = "up"
    BY DEF UInv, IInv, Applies
  <2>1. version[c] \in Versions /\ v \in Versions
    BY <2>0, LoadedVersions DEF TypeOK
  <2>2. Number[v] \in Nat /\ Number[version[c]] \in Nat
    BY <2>1, MigrationAssumption DEF MigrationAssumption, Numbered
  <2>3. v # version[c]
    BY <2>2
  <2>4. PICK i \in 1..Len(todo[c]) : todo[c][i] = v
    BY <2>0, <2>3 DEF UInv, Complete, CompleteOf, Ahead
  <2>5. Before(version[c], v)
    BY <2>0, <2>1, <2>4, MigrationAssumption DEF MigrationAssumption, UInv, Sorted, SortedOf
  <2> QED BY <2>2, <2>5 DEF Before
<1> QED BY <1>1, <1>2, <1>3, PTL DEF Spec, UpInOrder

-----------------------------------------------------------------------------
(* A Down takes down the version applied last: applied_at grows along the  *)
(* order of the commits, and the version it has chosen is still the final  *)
(* one, unless another caller came in between.                             *)

Ordered ==
  /\ \A i, j \in 1..Len(order) : i # j => order[i] # order[j]
  /\ \A v \in Versions : v \in Recorded <=> \E i \in 1..Len(order) : order[i] = v
  /\ \A i, j \in 1..Len(order) : i < j => db.rows[order[i]] <= db.rows[order[j]]

TimedOf(c) ==
  pc[c] = "Commit" /\ call[c] = "up" =>
    /\ tx.rows[version[c]] <= clock
    /\ \A v \in Recorded : db.rows[v] <= tx.rows[version[c]]
Timed ==
  /\ \A v \in Recorded : db.rows[v] <= clock
  /\ \A c \in Callers : TimedOf(c)

Chosen ==
  \A c \in Callers :
    call[c] = "down" /\ pc[c] \in Busy /\ c \notin overtaken => Final(version[c])

LEMMA WithoutEffect ==
  ASSUME NEW s \in Seq(Versions), NEW v \in Versions,
         \A i, j \in 1..Len(s) : i # j => s[i] # s[j]
  PROVE  LET w == Without(s, v)
         IN /\ \E f \in [1..Len(w) -> 1..Len(s)] :
                 /\ \A i \in 1..Len(w) : w[i] = s[f[i]]
                 /\ \A i, j \in 1..Len(w) : i < j => f[i] < f[j]
            /\ \A u \in Versions : (\E i \in 1..Len(w) : w[i] = u)
                                    <=> u # v /\ \E i \in 1..Len(s) : s[i] = u
<1> DEFINE w == Without(s, v)
<1>1. CASE \A i \in 1..Len(s) : s[i] # v
  <2>1. w = s
    BY <1>1 DEF Without
  <2> DEFINE f == [i \in 1..Len(w) |-> i]
  <2>2. f \in [1..Len(w) -> 1..Len(s)] /\ \A i \in 1..Len(w) : f[i] = i
    BY <2>1
  <2> QED BY <1>1, <2>1, <2>2
<1>2. CASE \E i \in 1..Len(s) : s[i] = v
  <2> DEFINE k == CHOOSE i \in 1..Len(s) : s[i] = v
  <2>1. k \in 1..Len(s) /\ s[k] = v /\ Len(s) \in Nat
    BY <1>2
  <2>2. w = [i \in 1..(Len(s) - 1) |-> IF i < k THEN s[i] ELSE s[i + 1]]
    BY <1>2 DEF Without
  <2> HIDE DEF k
  <2>3. Len(w) = Len(s) - 1
    BY <2>1, <2>2
  <2> HIDE DEF w
  <2> DEFINE f == [i \in 1..Len(w) |-> IF i < k THEN i ELSE i + 1]
  <2>4. f \in [1..Len(w) -> 1..Len(s)]
    BY <2>1, <2>3
  <2>5. \A i \in 1..Len(w) : w[i] = s[f[i]] /\ f[i] # k
    BY <2>1, <2>2, <2>3
  <2>6. \A i, j \in 1..Len(w) : i < j => f[i] < f[j]
    BY <2>1, <2>3
  <2>7. \A i \in 1..Len(s) : i # k => \E j \in 1..Len(w) : w[j] = s[i]
    <3> SUFFICES ASSUME NEW i \in 1..Len(s), i # k PROVE \E j \in 1..Len(w) : w[j] = s[i]
      OBVIOUS
    <3>1. CASE i < k
      <4>1. i \in 1..Len(w) /\ i \in 1..(Len(s) - 1)
        BY <2>1, <2>3, <3>1
      <4>2. w[i] = s[i]
        BY <2>2, <3>1, <4>1
      <4> QED BY <4>1, <4>2
    <3>2. CASE i > k
      <4>1. i - 1 \in 1..Len(w) /\ ~(i - 1 < k) /\ (i - 1) + 1 = i
        BY <2>1, <2>3, <3>2
      <4> QED BY <2>2, <2>3, <4>1
    <3> QED BY <2>1, <3>1, <3>2
  <2>8. \A i \in 1..Len(w) : w[i] # v
    BY <2>1, <2>4, <2>5
  <2>9. \A u \in Versions : (\E i \in 1..Len(w) : w[i] = u)
                             <=> u # v /\ \E i \in 1..Len(s) : s[i] = u
    <3> SUFFICES ASSUME NEW u \in Versions
                 PROVE  (\E i \in 1..Len(w) : w[i] = u)
                         <=> u # v /\ \E i \in 1..Len(s) : s[i] = u
      OBVIOUS
    <3>1. ASSUME NEW i \in 1..Len(w), w[i] = u
          PROVE  u # v /\ \E j \in 1..Len(s) : s[j] = u
      <4>1. f[i] \in 1..Len(s)
        BY <2>4
      <4>2. s[f[i]] = u
        BY <2>5, <3>1
      <4>3. u # v
        BY <2>8, <3>1
      <4> HIDE DEF f
      <4> QED BY <4>1, <4>2, <4>3
    <3>2. ASSUME u # v, NEW i \in 1..Len(s), s[i] = u
          PROVE  \E j \in 1..Len(w) : w[j] = u
      <4>1. i # k
        BY <2>1, <3>2
      <4> HIDE DEF f
      <4> QED BY <2>7, <3>2, <4>1
    <3> HIDE DEF f
    <3> QED BY <3>1, <3>2
  <2> HIDE DEF f
  <2> QED BY <2>4, <2>5, <2>6, <2>9 DEF w
<1> QED BY <1>1, <1>2

LEMMA OrderedKept == ASSUME IInv, Ordered, Timed, [Next]_vars PROVE Ordered'
<1>0. order \in Seq(Versions) /\ db.rows \in [Versions -> Nat \cup {NotApplied}]
  BY DEF IInv, TypeOK, DB
<1>1. CASE UNCHANGED <<db, order>>
  BY <1>1 DEF Ordered, Recorded
<1>2. ASSUME NEW c \in Callers, Commit(c), ~Rollback(c) PROVE Ordered'
  <2> DEFINE v == version[c]
  <2>1. Committed(c) /\ v \in Versions
    BY <1>2, CommitEffect DEF Committed
  <2>2. \A u \in Versions \ {v} : db'.rows[u] = db.rows[u]
    BY <1>0, <2>1 DEF Committed
  <2>3. CASE call[c] = "up"
    <3>1. order' = Append(order, v)
      BY <1>2, <2>3 DEF Commit
    <3>2. Recorded' = Recorded \cup {v} /\ v \notin Recorded /\ db'.rows[v] = tx.rows[v]
      BY <1>0, <2>1, <2>3 DEF Committed
    <3>3. \A u \in Recorded : db.rows[u] <= db'.rows[v]
      BY <2>1, <2>3, <3>2 DEF Timed, TimedOf, Committed
    <3>4. Len(order') = Len(order) + 1 /\ order'[Len(order) + 1] = v
      BY <1>0, <3>1
    <3>5. \A i \in 1..Len(order) : order'[i] = order[i] /\ order[i] \in Versions
      BY <1>0, <3>1
    <3>6. \A i \in 1..Len(order) : order[i] \in Recorded /\ order[i] # v
      BY <3>2, <3>5 DEF Ordered
    <3>7. \A i, j \in 1..Len(order') : i # j => order'[i] # order'[j]
      BY <1>0, <3>4, <3>5, <3>6 DEF Ordered
    <3>8. \A u \in Versions : u \in Recorded' <=> \E i \in 1..Len(order') : order'[i] = u
      <4>1. \A u \in Versions : u \in Recorded => \E i \in 1..Len(order') : order'[i] = u
        BY <1>0, <3>4, <3>5 DEF Ordered
      <4>2. \E i \in 1..Len(order') : order'[i] = v
        BY <1>0, <3>4
      <4>3. \A i \in 1..Len(order') : order'[i] \in Recorded'
        BY <1>0, <3>2, <3>4, <3>5, <3>6
      <4> QED BY <3>2, <4>1, <4>2, <4>3
    <3>9. ASSUME NEW i \in 1..Len(order'), NEW j \in 1..Len(order'), i < j
          PROVE  db'.rows[order'[i]] <= db'.rows[order'[j]]
      <4>1. i \in 1..Len(order)
        BY <1>0, <3>4, <3>9
      <4>2. CASE j \in 1..Len(order)
        BY <2>2, <3>5, <3>6, <3>9, <4>1, <4>2 DEF Ordered
      <4>3. CASE j = Len(order) + 1
        BY <2>2, <3>3, <3>4, <3>5, <3>6, <4>1, <4>3
      <4> QED BY <1>0, <3>4, <4>2, <4>3
    <3> QED BY <3>7, <3>8, <3>9 DEF Ordered
  <2>4. CASE call[c] = "down"
    <3>1. order' = Without(order, v)
      BY <1>2, <2>4 DEF Commit
    <3>2. Recorded' = Recorded \ {v}
      BY <2>1, <2>4 DEF Committed
    <3>3. /\ \E f \in [1..Len(order') -> 1..Len(order)] :
               /\ \A i \in 1..Len(order') : order'[i] = order[f[i]]
               /\ \A i, j \in 1..Len(order') : i < j => f[i] < f[j]
          /\ \A u \in Versions : (\E i \in 1..Len(order') : order'[i] = u)
                                  <=> u # v /\ \E i \in 1..Len(order) : order[i] = u
      <4>1. \A i, j \in 1..Len(order) : i # j => order[i] # order[j]
        BY DEF Ordered
      <4>2. order \in Seq(Versions) /\ v \in Versions
        BY <1>0, <2>1
      <4> HIDE DEF v
      <4> DEFINE w == Without(order, v)
      <4>3. /\ \E f \in [1..Len(w) -> 1..Len(order)] :
                 /\ \A i \in 1..Len(w) : w[i] = order[f[i]]
                 /\ \A i, j \in 1..Len(w) : i < j => f[i] < f[j]
            /\ \A u \in Versions : (\E i \in 1..Len(w) : w[i] = u)
                                    <=> u # v /\ \E i \in 1..Len(order) : order[i] = u
        BY <4>1, <4>2, WithoutEffect
      <4> HIDE DEF w
      <4>4. order' = w
        BY <3>1 DEF w
      <4> QED BY <4>3, <4>4
    <3>4. PICK f \in [1..Len(order') -> 1..Len(order)] :
            /\ \A i \in 1..Len(order') : order'[i] = order[f[i]]
            /\ \A i, j \in 1..Len(order') : i < j => f[i] < f[j]
      BY <3>3
    <3>5. \A i \in 1..Len(order') : f[i] \in 1..Len(order) /\ order[f[i]] \in Versions
      BY <1>0
    <3>6. \A i \in 1..Len(order') : order'[i] # v
      BY <3>3, <3>4, <3>5
    <3>7. \A i, j \in 1..Len(order') : i # j => order'[i] # order'[j]
      <4> SUFFICES ASSUME NEW i \in 1..Len(order'), NEW j \in 1..Len(order'), i < j
                   PROVE  order'[i] # order'[j]
        OBVIOUS
      <4>1. f[i] \in Int /\ f[j] \in Int /\ f[i] < f[j]
        BY <3>4, <3>5
      <4> QED BY <3>4, <3>5, <4>1 DEF Ordered
    <3>8. \A u \in Versions : u \in Recorded' <=> \E i \in 1..Len(order') : order'[i] = u
      BY <3>2, <3>3 DEF Ordered
    <3>9. ASSUME NEW i \in 1..Len(order'), NEW j \in 1..Len(order'), i < j
          PROVE  db'.rows[order'[i]] <= db'.rows[order'[j]]
      <4>1. db.rows[order[f[i]]] <= db.rows[order[f[j]]]
        BY <3>4, <3>5, <3>9 DEF Ordered
      <4>2. db'.rows[order'[i]] = db.rows[order[f[i]]] /\ db'.rows[order'[j]] = db.rows[order[f[j]]]
        BY <2>2, <3>4, <3>5, <3>6
      <4> QED BY <4>1, <4>2
    <3> QED BY <3>7, <3>8, <3>9 DEF Ordered
  <2> QED BY <2>1, <2>3, <2>4 DEF Committed
<1>3. UNCHANGED <<db, order>> \/ \E c \in Callers : Commit(c) /\ ~Rollback(c)
  <2>1. ASSUME NEW c \in Callers, CallStep(c)
        PROVE  UNCHANGED <<db, order>> \/ (Commit(c) /\ ~Rollback(c))
    BY <2>1, Cases DEF IInv, Outside, database, history, Exec, Record, Rollback
  <2>2. CASE EditDisk \/ Tick \/ Crash \/ UNCHANGED vars
    BY <2>2 DEF EditDisk, Tick, Crash, vars, database, history
  <2> QED BY <2>1, <2>2 DEF Next
<1> QED BY <1>1, <1>2, <1>3

LEMMA TimedKept == ASSUME IInv, Timed, [Next]_vars PROVE Timed'
<1>0. /\ TypeOK /\ db.rows \in [Versions -> Nat \cup {NotApplied}] /\ clock \in Nat
      /\ \A v \in Recorded : db.rows[v] \in Nat
  BY MigrationAssumption DEF MigrationAssumption, IInv, TypeOK, DB, Recorded
<1>1. ASSUME NEW c \in Callers, CallStep(c) PROVE Timed'
  <2>1. clock' = clock
    BY <1>1 DEF CallStep, Migrate, NextVersion, UpDone, GetFinal, ReadFile, Exec, Record, Commit
  <2>2. CASE Commit(c) /\ ~Rollback(c)
    <3> DEFINE v == version[c]
    <3>1. Committed(c)
      BY <2>2, CommitEffect DEF IInv
    <3>2. \A u \in Versions \ {v} : db'.rows[u] = db.rows[u]
      BY <1>0, <3>1 DEF Committed
    <3>3. v \in Recorded' => db'.rows[v] <= clock
      BY <1>0, <3>1 DEF Committed, Timed, TimedOf
    <3>4. \A u \in Recorded' : db'.rows[u] <= clock
      BY <3>1, <3>2, <3>3 DEF Committed, Timed, Recorded
    <3>5. \A d \in Callers : pc'[d] # "Commit"
      <4>1. writer = c /\ writer' = NoCaller
        BY <2>2 DEF Commit, IInv, Held
      <4> QED BY <1>0, <4>1, HeldKept, MigrationAssumption DEF MigrationAssumption, IInv, Held
    <3> QED BY <2>1, <3>4, <3>5 DEF Timed, TimedOf
  <2>3. CASE ~(Commit(c) /\ ~Rollback(c))
    <3>1. db' = db /\ Recorded' = Recorded
      BY <1>0, <1>1, <2>3, Cases DEF Outside, database, history, Exec, Record, Rollback, Recorded
    <3>2. ASSUME NEW d \in Callers PROVE TimedOf(d)'
      <4>1. CASE pc'[d] # "Commit"
        BY <4>1 DEF TimedOf
      <4>2. CASE d # c /\ pc'[d] = "Commit"
        <5>1. pc[d] = "Commit" /\ call'[d] = call[d] /\ version'[d] = version[d]
          BY <1>0, <1>1, <4>2, Others
        <5>2. writer = d
          BY <5>1 DEF IInv, Held
        <5>3. tx' = tx
          BY <1>0, <1>1, <4>2, <5>2, Cases, MigrationAssumption
          DEF MigrationAssumption, Outside, database, history, Exec, Record, Commit, IInv, Held
        <5> QED BY <2>1, <3>1, <5>1, <5>3 DEF Timed, TimedOf
      <4>3. CASE d = c /\ pc'[c] = "Commit"
        <5>1. Record(c) /\ ~Rollback(c)
          BY <1>0, <1>1, <2>3, <4>3, Cases, ReturnMoves
          DEF Outside, Exec, Rollback, Return, Goto, TypeOK
        <5>2. /\ tx' = [tx EXCEPT !.rows[version[c]] = IF call[c] = "up" THEN clock ELSE NotApplied]
              /\ UNCHANGED <<call, version>> /\ pc[c] = "Record"
          BY <5>1 DEF Record, locals
        <5>3. version[c] \in Versions
          BY <1>0, <5>2 DEF TypeOK
        <5>4. call[c] = "up" => tx'.rows[version[c]] = clock
          BY <1>0, <5>2, <5>3 DEF TypeOK, DB
        <5> QED BY <1>0, <2>1, <3>1, <4>3, <5>2, <5>4 DEF Timed, TimedOf
      <4> QED BY <4>1, <4>2, <4>3
    <3> QED BY <2>1, <3>1, <3>2 DEF Timed
  <2> QED BY <2>2, <2>3
<1>2. CASE EditDisk \/ UNCHANGED vars
  BY <1>2 DEF EditDisk, vars, database, history, locals, Timed, TimedOf, Recorded
<1>3. CASE Tick
  <2>1. clock' = clock + 1 /\ UNCHANGED <<db, tx, pc, call, version>>
    BY <1>3 DEF Tick, database, history, locals
  <2>2. \A v \in Recorded : db.rows[v] <= clock + 1
    BY <1>0 DEF Timed
  <2>3. ASSUME NEW c \in Callers PROVE TimedOf(c)'
    <3>1. CASE pc[c] = "Commit" /\ call[c] = "up"
      <4>1. version[c] \in Versions
        BY <1>0, <3>1 DEF TypeOK
      <4>2. \E t \in Nat : tx.rows = [db.rows EXCEPT ![version[c]] = t]
        BY <3>1 DEF IInv, Pending, PendingOf
      <4>3. tx.rows[version[c]] \in Nat
        BY <1>0, <4>1, <4>2
      <4> QED BY <1>0, <2>1, <3>1, <4>3 DEF Timed, TimedOf, Recorded
    <3>2. CASE ~(pc[c] = "Commit" /\ call[c] = "up")
      BY <2>1, <3>2 DEF TimedOf
    <3> QED BY <3>1, <3>2
  <2> QED BY <2>1, <2>2, <2>3 DEF Timed, Recorded
<1>4. CASE Crash
  BY <1>4 DEF Crash, Timed, TimedOf, Recorded
<1> QED BY <1>1, <1>2, <1>3, <1>4 DEF Next

LEMMA ChosenKept == ASSUME IInv, Modes, Chosen, [Next]_vars PROVE Chosen'
<1>0. TypeOK
  BY DEF IInv
<1>1. ASSUME NEW c \in Callers, CallStep(c) PROVE Chosen'
  <2> SUFFICES ASSUME NEW d \in Callers, call'[d] = "down", pc'[d] \in Busy, d \notin overtaken'
               PROVE  Final(version[d])'
    BY DEF Chosen
  <2>1. CASE Commit(c) /\ ~Rollback(c)
    <3>1. d # c
      BY <1>0, <2>1, ReturnMoves DEF Commit, Goto, TypeOK, Busy
    <3>2. call[d] = "down" /\ pc[d] \in Busy
      BY <1>0, <1>1, <3>1, Others
    <3>3. d \in Overtakes(c)
      BY <3>1, <3>2 DEF Overtakes, Busy
    <3> QED BY <2>1, <3>1, <3>3 DEF Commit
  <2>2. CASE ~(Commit(c) /\ ~Rollback(c))
    <3>1. db' = db
      BY <1>0, <1>1, <2>2, Cases DEF Outside, database, history, Exec, Record, Rollback
    <3>2. \A v : Final(v)' <=> (Final(v))
      BY <3>1 DEF Final, Recorded
    <3>3. CASE d # c
      BY <1>0, <1>1, <3>1, <3>3, Others DEF Chosen, Final, Recorded
    <3>4. CASE d = c
      <4>1. ~Forget(c)
        BY <1>0, <3>4, ReturnMoves DEF Busy
      <4>2. CASE GetFinal(c)
        <5>1. \E v \in Versions : Final(v) /\ version' = [version EXCEPT ![c] = v]
          BY <4>1, <4>2 DEF GetFinal, Return
        <5> QED BY <1>0, <3>1, <3>4, <5>1 DEF TypeOK, Final, Recorded
      <4>3. CASE ReadFile(c) \/ Exec(c) \/ Record(c)
        <5>1. UNCHANGED <<call, version, overtaken>> /\ pc[c] \in Busy
          BY <4>1, <4>3 DEF ReadFile, Exec, Record, Rollback, Return, locals, Busy
        <5> QED BY <3>1, <3>4, <5>1 DEF Chosen, Final, Recorded
      <4>4. ~Migrate(c, "up") /\ ~Migrate(c, "down")
        BY <1>0, <3>4 DEF Migrate, Goto, TypeOK, Busy
      <4>5. ~NextVersion(c)
        BY <1>0, <3>4, <4>1 DEF NextVersion, Return, Modes
      <4>6. ~UpDone(c) /\ ~Commit(c)
        BY <2>2, <4>1 DEF UpDone, Commit, Rollback, Return
      <4> QED BY <1>1, <4>2, <4>3, <4>4, <4>5, <4>6 DEF CallStep
    <3> QED BY <3>3, <3>4
  <2> QED BY <2>1, <2>2
<1>2. CASE EditDisk \/ Tick \/ UNCHANGED vars
  BY <1>2 DEF EditDisk, Tick, vars, database, history, locals, Chosen, Final, Recorded
<1>3. CASE Crash
  BY <1>3 DEF Crash, Chosen, Busy
<1> QED BY <1>1, <1>2, <1>3 DEF Next

DInv == IInv /\ Modes /\ Ordered /\ Timed /\ Chosen

LEMMA HistoryInit == Init => Ordered /\ Timed /\ Chosen
<1> SUFFICES ASSUME Init PROVE Ordered /\ Timed /\ Chosen
  OBVIOUS
<1>1. order = <<>> /\ \A v \in Versions : v \notin Recorded
  BY DEF Init, Recorded
<1>2. \A c \in Callers : pc[c] = "idle"
  BY DEF Init
<1>3. Ordered
  BY <1>1 DEF Ordered
<1>4. Timed /\ Chosen
  BY <1>1, <1>2 DEF Timed, TimedOf, Chosen, Busy, Recorded
<1> QED BY <1>3, <1>4

(* A Down takes down the version applied last, or one applied in the same  *)
(* second, and none that is down already, unless another caller came in    *)
(* between.                                                                *)
THEOREM DownUndoesLastAlways == Spec => DownUndoesLast
<1>1. Init => DInv
  BY InitEstablishes, CompleteInit, HistoryInit DEF DInv
<1>2. DInv /\ [Next]_vars => DInv'
  BY TypeKept, HeldKept, PendingKept, InEffectAsRecordedKept, ModesKept, OrderedKept, TimedKept,
     ChosenKept DEF DInv, IInv
<1>3. DInv =>
        \A c \in Callers : Reverts(c) =>
          \/ c \in overtaken
          \/ order # <<>> /\ version[c] = Last(order)
          \/ order # <<>> /\ db.rows[Last(order)] = db.rows[version[c]]
  <2> SUFFICES ASSUME DInv, NEW c \in Callers, Reverts(c), c \notin overtaken
               PROVE  order # <<>> /\ db.rows[Last(order)] = db.rows[version[c]]
    OBVIOUS
  <2> DEFINE v == version[c]
             n == Len(order)
  <2>1. order \in Seq(Versions) /\ db.rows \in [Versions -> Nat \cup {NotApplied}]
    BY DEF DInv, IInv, TypeOK, DB
  <2>2. Final(v) /\ v \in Recorded
    BY DEF DInv, Chosen, Reverts, Busy, Final
  <2>3. PICK i \in 1..n : order[i] = v
    BY <2>2 DEF DInv, Ordered, Recorded
  <2>4. n \in 1..n /\ Last(order) = order[n] /\ order[n] \in Versions
    BY <2>1, <2>3 DEF Last
  <2>5. order[n] \in Recorded
    BY <2>4 DEF DInv, Ordered
  <2>6. db.rows[v] <= db.rows[order[n]] \/ v = order[n]
    BY <2>1, <2>3, <2>4 DEF DInv, Ordered
  <2>7. db.rows[order[n]] < db.rows[v] \/ db.rows[order[n]] = db.rows[v]
    BY <2>2, <2>5 DEF Final
  <2>8. db.rows[v] \in Nat /\ db.rows[order[n]] \in Nat
    BY <2>1, <2>2, <2>5 DEF Recorded
  <2> QED BY <2>4, <2>6, <2>7, <2>8
<1> QED BY <1>1, <1>2, <1>3, PTL DEF Spec, DownUndoesLast
=============================================================================
