------------------------ MODULE RecalculationProofs ------------------------
(***************************************************************************)
(* TLAPS proofs about Recalculation, for any number of CDRs, months, price *)
(* lists, tasks and faults, and every size of a page, a queue and a copy.  *)
(***************************************************************************)
EXTENDS Recalculation, TLAPS, WellFoundedInduction, FiniteSetTheorems

-----------------------------------------------------------------------------
(* The invariants.                                                         *)

\* Rows are finitely many, come from CDRs that exist, and have positive ids.
RowsInv ==
  /\ IsFiniteSet(calls) /\ IsFiniteSet(live.rows)
  /\ \A r \in calls \cup live.rows : r.cdr \in 1..Len(cdrs) /\ r.id > 0
  /\ \E n \in Nat : \A r \in calls \cup live.rows : r.id <= n

\* The copying thread is idle while the task holds its lock.
LockInv == HoldsSyncLock => sync.pc = "idle"

\* What the task has left of the time it recalculates: everything due lies at
\* or above "from" before the deletion, and is billed anew after it.
PriceInv ==
  /\ run.pc # "idle" => task.ordered # "none"
  /\ run.pc = "delete" =>
       \A r \in calls : r.time >= run.date => run.from <= r.id
  /\ run.pc \in {"load", "calc", "swap"} =>
       \A r \in calls : r.time >= run.date => r.ver >= task.asked
  /\ run.pc \in {"calc", "swap"} => run.ver >= task.asked

\* The order of the ids: no container gives an id again that a row has, and
\* the rows in memory follow those that are saved.  Between the deletion and
\* the exchange of the containers this is said of the task's container only.
OrderInv ==
  /\ run.pc \notin {"load", "calc", "swap"} =>
       /\ \A r \in calls \cup live.rows : r.id <= live.lastId
       /\ \A r \in calls, q \in live.rows : r.id < q.id
  /\ run.pc = "calc" => \A r \in calls : r.id <= run.lastId

\* Holds whatever fails.
GInv == TypeOK /\ RowsInv /\ LockInv /\ PriceInv

-----------------------------------------------------------------------------
(* Lemmas about the operators.                                             *)

\* What MAX returns for a bounded set of numbers: one of them, and none is larger.
LEMMA MaxOfBound ==
  ASSUME NEW S, S \subseteq Nat, NEW n \in Nat, \A x \in S : x <= n
  PROVE  /\ MaxOf(S) \in Nat /\ MaxOf(S) <= n
         /\ \A x \in S : x <= MaxOf(S)
         /\ S # {} => MaxOf(S) \in S
<1>1. CASE S = {}
  BY <1>1 DEF MaxOf
<1>2. CASE S # {}
  <2> DEFINE T == {n - x : x \in S}
  <2>1. T \subseteq Nat /\ T # {}
    <3>1. \A x \in S : n - x \in Nat
      OBVIOUS
    <3> QED
      BY <1>2, <3>1
  <2>2. PICK t \in T : \A y \in T : ~ (<<y, t>> \in OpToRel(<, Nat))
    BY <2>1, NatLessThanWellFounded, WFMin, Zenon
  <2>3. \A y \in T : ~ (y < t)
    BY <2>1, <2>2 DEF OpToRel
  <2>4. PICK m \in S : t = n - m
    BY <2>2
  <2>5. \A x \in S : x <= m
    <3> SUFFICES ASSUME NEW x \in S PROVE x <= m
      OBVIOUS
    <3>1. n - x \in T
      OBVIOUS
    <3>2. ~ (n - x < n - m)
      BY <2>3, <2>4, <3>1
    <3> QED
      BY <3>2, <2>4
  <2>6. \E k \in S : \A x \in S : x <= k
    BY <2>5
  <2> QED
    BY <1>2, <2>6 DEF MaxOf
<1> QED
  BY <1>1, <1>2

\* The rows that billing the CDRs first..last gives: finitely many, numbered
\* above lastId and up to the new last id.
LEMMA BilledRows ==
  ASSUME TypeOK, NEW first \in Nat, first > 0, NEW last \in Nat, last <= Len(cdrs),
         NEW lastId \in Nat, NEW ver \in Nat
  PROVE  LET S == ToBill(first, last, ver)
             new == Billed(S, lastId, ver)
         IN  /\ Cardinality(S) \in Nat
             /\ new \subseteq Row /\ IsFiniteSet(new)
             /\ \A r \in new : /\ r.cdr \in 1..Len(cdrs) /\ r.ver = ver
                               /\ r.id > lastId /\ r.id <= lastId + Cardinality(S)
<1> DEFINE S == ToBill(first, last, ver)
           new == Billed(S, lastId, ver)
           rank(c) == Cardinality({d \in S : d <= c})
           row(c) == [id |-> lastId + rank(c), cdr |-> c, time |-> cdrs[c], ver |-> ver]
<1>1. IsFiniteSet(first..last) /\ S \subseteq first..last
  BY FS_Interval DEF ToBill
<1>2. IsFiniteSet(S)
  BY <1>1, FS_Subset
<1>3. Cardinality(S) \in Nat
  BY <1>2, FS_CardinalityType
<1>4. ASSUME NEW c \in S
      PROVE  rank(c) \in Nat /\ rank(c) > 0 /\ rank(c) <= Cardinality(S)
  <2> DEFINE T == {d \in S : d <= c}
  <2>1. c \in Nat
    BY <1>1
  <2>2. T \subseteq S /\ c \in T
    BY <2>1
  <2>3. IsFiniteSet(T) /\ Cardinality(T) <= Cardinality(S)
    BY <1>2, <2>2, FS_Subset
  <2>4. Cardinality(T) \in Nat /\ Cardinality(T) # 0
    BY <2>2, <2>3, FS_CardinalityType, FS_EmptySet
  <2> QED
    BY <2>3, <2>4
<1>5. new = {row(c) : c \in S}
  BY DEF Billed
<1>6. ASSUME NEW c \in S
      PROVE  c \in 1..Len(cdrs) /\ row(c) \in Row
  <2>1. c \in Nat /\ c >= 1 /\ c <= Len(cdrs) /\ cdrs \in Seq(Int)
    BY <1>1 DEF TypeOK, TypeWorld
  <2>2. cdrs[c] \in Int
    BY <2>1
  <2> HIDE DEF rank
  <2> QED
    BY <1>4, <2>1, <2>2 DEF Row
<1>7. IsFiniteSet(new)
  <2> DEFINE f == [c \in S |-> row(c)]
  <2> HIDE DEF row
  <2>1. f \in Surjection(S, new)
    BY <1>5 DEF Surjection
  <2> QED
    BY <1>2, <2>1, FS_Surjection
<1> HIDE DEF rank
<1>8. \A r \in new : /\ r.cdr \in 1..Len(cdrs) /\ r.ver = ver
                     /\ r.id > lastId /\ r.id <= lastId + Cardinality(S)
  BY <1>3, <1>4, <1>5, <1>6
<1>9. new \subseteq Row
  BY <1>5, <1>6
<1> QED
  BY <1>3, <1>7, <1>8, <1>9

\* Every row carries the version of the lists it was billed with.
LEMMA BilledVer ==
  ASSUME NEW S, NEW lastId, NEW ver, NEW r \in Billed(S, lastId, ver)
  PROVE  r.ver = ver
<1> DEFINE id(c) == lastId + Cardinality({d \in S : d <= c})
<1>1. r \in {[id |-> id(c), cdr |-> c, time |-> cdrs[c], ver |-> ver] : c \in S}
  BY DEF Billed
<1> HIDE DEF id
<1> QED
  BY <1>1

\* A container that is loaded is behind nothing in calls_raw.
LEMMA LoadedBound ==
  ASSUME TypeOK, RowsInv
  PROVE  /\ Loaded \in [pos : Nat, lastId : Nat, rows : SUBSET Row]
         /\ Loaded.pos <= Len(cdrs) /\ Loaded.rows = {}
         /\ \A r \in calls : r.id <= Loaded.lastId
<1>1. PICK n \in Nat : \A r \in calls : r.id <= n
  BY DEF RowsInv
<1>2. Ids(calls) \subseteq Nat /\ \A x \in Ids(calls) : x <= n
  BY <1>1 DEF Ids, TypeOK, TypeRows, Row
<1>3. MaxOf(Ids(calls)) \in Nat /\ \A x \in Ids(calls) : x <= MaxOf(Ids(calls))
  BY <1>2, MaxOfBound
<1> DEFINE C == {r.cdr : r \in calls}
<1>4. C \subseteq Nat /\ Len(cdrs) \in Nat /\ \A x \in C : x <= Len(cdrs)
  BY DEF TypeOK, TypeWorld, TypeRows, Row, RowsInv
<1>5. MaxOf(C) \in Nat /\ MaxOf(C) <= Len(cdrs)
  BY <1>4, MaxOfBound
<1> QED
  BY <1>3, <1>5 DEF Loaded, Ids

-----------------------------------------------------------------------------
(* Whatever fails: every step keeps GInv.                                  *)

\* Steps that leave the rows of the region and of the live container alone.
LEMMA RowsQuiet ==
  ASSUME RowsInv, UNCHANGED <<calls, live>>, Len(cdrs) \in Nat, Len(cdrs') \in Nat,
         Len(cdrs') >= Len(cdrs)
  PROVE  RowsInv'
BY DEF RowsInv

\* A new row in memory, or in the region, is one more of a finite set.
LEMMA RowsGrow ==
  ASSUME TypeOK, TypeOK', RowsInv, UNCHANGED cdrs, NEW new, IsFiniteSet(new),
         NEW n \in Nat, \A r \in new : r.cdr \in 1..Len(cdrs) /\ r.id > 0 /\ r.id <= n,
         calls' \cup live'.rows \subseteq calls \cup live.rows \cup new
  PROVE  RowsInv'
<1>1. PICK k \in Nat : \A r \in calls \cup live.rows : r.id <= k
  BY DEF RowsInv
<1>2. IsFiniteSet(calls \cup live.rows \cup new)
  BY FS_Union DEF RowsInv
<1>3. IsFiniteSet(calls') /\ IsFiniteSet(live'.rows)
  BY <1>2, FS_Subset
<1>4. \A r \in calls' \cup live'.rows : r.cdr \in 1..Len(cdrs') /\ r.id > 0
  BY DEF RowsInv
<1>5. calls' \cup live'.rows \subseteq Row
  BY DEF TypeOK, TypeRows
<1>6. k + n \in Nat /\ \A r \in calls' \cup live'.rows : r.id <= k + n
  BY <1>1, <1>5 DEF Row
<1> QED
  BY <1>3, <1>4, <1>6 DEF RowsInv

\* What a step does to the type of sync alone.
LEMMA NextMonthType ==
  ASSUME TypeSync, sync.pc = "copy", NextMonth
  PROVE  TypeSync'
<1>1. sync \in [pc : {"copy"}, months : Seq(Int) \ {<<>>}]
  BY DEF TypeSync, SyncIdle
<1>2. CASE Len(sync.months) = 1
  BY <1>2 DEF NextMonth, TypeSync, SyncIdle
<1>3. CASE Len(sync.months) # 1
  <2> DEFINE ms == Tail(sync.months)
  <2>1. sync.months \in Seq(Int) /\ sync.months # <<>>
    BY <1>1
  <2>2. ms \in Seq(Int) /\ Len(ms) = Len(sync.months) - 1 /\ Len(sync.months) \in Nat
    BY <2>1
  <2>4. sync' = [sync EXCEPT !.months = ms]
    BY <1>3 DEF NextMonth
  <2> HIDE DEF ms
  <2>3. ms # <<>>
    <3>1. Len(<<>>) = 0
      OBVIOUS
    <3>2. Len(ms) # 0
      BY <2>2, <1>3
    <3> QED
      BY <3>1, <3>2
  <2>5. sync' \in [pc : {"copy"}, months : Seq(Int) \ {<<>>}]
    BY <1>1, <2>2, <2>3, <2>4
  <2> QED
    BY <2>5 DEF TypeSync, SyncIdle
<1> QED
  BY <1>2, <1>3

Insert == \E time \in {now - 1, now} : InsertCdr(time)
Order == \E kind \in {"current", "last"} : OrderTask(kind)

\* Which steps change which variables.
LEMMA Frame ==
  ASSUME Next
  PROVE  /\ \/ Tick \/ Insert \/ ChangeLists \/ UNCHANGED <<now, cdrs, version>>
         /\ \/ LiveBill \/ LiveSave \/ TaskDelete \/ TaskCalcPart \/ TaskSwap \/ TaskCentral
            \/ CopyPart \/ CrashRestart \/ UNCHANGED <<calls, live, central>>
         /\ \/ Order \/ TaskSteps \/ TaskFails \/ CrashRestart \/ UNCHANGED <<task, run>>
         /\ \/ SyncBegin \/ CopyNothing \/ CopyFails \/ SyncFails \/ CrashRestart \/ UNCHANGED sync
         /\ \/ Order \/ TaskFails \/ CopyFails \/ SyncFails \/ CrashRestart \/ UNCHANGED count
<1>1. CASE World
  BY <1>1 DEF World, Insert, Order, Tick, InsertCdr, ChangeLists, OrderTask
<1>2. CASE Live
  BY <1>2 DEF Live, LiveBill, LiveSave
<1>3. CASE TaskSteps
  BY <1>3 DEF TaskSteps, TaskStart, TaskLock, TaskMinId, TaskDelete, TaskLoad, TaskCalcPart,
     TaskCalcEnds, TaskSwap, TaskCentral, TaskStats, TaskDone
<1>4. CASE TaskFails
  BY <1>4 DEF TaskFails
<1>5. CASE Sync
  BY <1>5 DEF Sync, SyncBegin, CopyPart, CopyNothing
<1>6. CASE CopyFails \/ SyncFails
  BY <1>6 DEF CopyFails, SyncFails
<1>7. CASE CrashRestart
  BY <1>7 DEF CrashRestart
<1> QED
  BY <1>1, <1>2, <1>3, <1>4, <1>5, <1>6, <1>7 DEF Next

\* Every step keeps the types.
LEMMA TypeStep ==
  ASSUME RecalculationAssumption, TypeOK, RowsInv, Next
  PROVE  TypeOK'
<1>0. /\ MaxTasks \in Nat /\ MaxFaults \in Nat /\ MaxVersion \in Nat
      /\ CdrsPartitionSize \in Nat /\ CdrsPartitionSize > 0
  BY DEF RecalculationAssumption
<1>a. TypeWorld /\ TypeRows /\ TypeTask /\ TypeSync /\ TypeCount /\ NobodyAhead
  BY DEF TypeOK
<1>b. version \in Nat /\ Len(cdrs) \in Nat
  BY <1>0, <1>a DEF TypeWorld
<1>c. Loaded \in [pos : Nat, lastId : Nat, rows : SUBSET Row] /\ Loaded.pos <= Len(cdrs)
  BY LoadedBound
\* A page of CDRs of the task.
<1>d. ASSUME TaskCalcPart
      PROVE  \E last \in Nat : \E S : LET new == Billed(S, run.lastId, run.ver) IN
               /\ last <= Len(cdrs) /\ Cardinality(S) \in Nat /\ new \subseteq Row
               /\ run' = [run EXCEPT !.pos = last, !.lastId = @ + Cardinality(S)]
               /\ calls' = calls \cup new
               /\ UNCHANGED <<cdrs, version, task, live, central>>
  <2> DEFINE last == IF run.pos + CdrsPartitionSize < Len(cdrs)
                     THEN run.pos + CdrsPartitionSize ELSE Len(cdrs)
             S == ToBill(run.pos + 1, last, run.ver)
  <2>1. /\ run.pos + 1 \in Nat /\ run.pos + 1 > 0
        /\ last \in Nat /\ last <= Len(cdrs)
        /\ run.lastId \in Nat /\ run.ver \in Nat
    BY <1>0, <1>a, <1>b DEF TypeTask
  <2>2. Cardinality(S) \in Nat /\ Billed(S, run.lastId, run.ver) \subseteq Row
    BY <2>1, BilledRows
  <2>3. /\ run' = [run EXCEPT !.pos = last, !.lastId = @ + Cardinality(S)]
        /\ calls' = calls \cup Billed(S, run.lastId, run.ver)
        /\ UNCHANGED <<cdrs, version, task, live, central>>
    BY <1>d DEF TaskCalcPart
  <2> HIDE DEF S, last
  <2> QED
    BY <2>1, <2>2, <2>3
\* A CDR of the live threads.
<1>e. ASSUME LiveBill
      PROVE  live' \in [pos : Nat, lastId : Nat, rows : SUBSET Row] /\ live'.pos <= Len(cdrs)
  <2> DEFINE c == live.pos + 1
             S == ToBill(c, c, version)
  <2>1. c \in Nat /\ c > 0 /\ c <= Len(cdrs) /\ live.lastId \in Nat /\ live.rows \subseteq Row
    BY <1>e, <1>a DEF LiveBill, TypeRows
  <2>2. Cardinality(S) \in Nat /\ Billed(S, live.lastId, version) \subseteq Row
    BY <1>b, <2>1, BilledRows
  <2>3. live' = [pos |-> c, lastId |-> live.lastId + Cardinality(S),
                 rows |-> live.rows \cup Billed(S, live.lastId, version)]
    BY <1>e DEF LiveBill
  <2> HIDE DEF S, c
  <2> QED
    BY <2>1, <2>2, <2>3
<1>1. TypeWorld'
  <2>1. CASE Insert
    BY <2>1, <1>a DEF Insert, InsertCdr, TypeWorld
  <2>2. CASE Tick \/ ChangeLists
    BY <2>2, <1>0, <1>a DEF Tick, ChangeLists, TypeWorld
  <2> QED
    BY <2>1, <2>2, <1>a, Frame DEF TypeWorld
<1>2. TypeRows'
  <2>1. CASE LiveBill
    BY <2>1, <1>a, <1>e DEF LiveBill, TypeRows
  <2>2. CASE LiveSave
    BY <2>2, <1>a DEF LiveSave, Below, TypeRows
  <2>3. CASE TaskDelete
    BY <2>3, <1>a DEF TaskDelete, Below, TypeRows
  <2>4. CASE TaskCalcPart
    BY <2>4, <1>a, <1>d DEF TypeRows
  <2>5. CASE TaskSwap
    BY <2>5, <1>a, <1>c DEF TaskSwap, TypeRows
  <2>6. CASE TaskCentral
    BY <2>6, <1>a DEF TaskCentral, Below, TypeRows
  <2>7. CASE CopyPart
    BY <2>7, <1>a DEF CopyPart, Missing, OfMonth, TypeRows
  <2>8. CASE CrashRestart
    BY <2>8, <1>a, <1>c DEF CrashRestart, TypeRows
  <2> QED
    BY <2>1, <2>2, <2>3, <2>4, <2>5, <2>6, <2>7, <2>8, <1>a, Frame DEF TypeRows
<1>3. TypeTask'
  <2>1. CASE Order
    BY <2>1, <1>a, <1>b DEF Order, OrderTask, TypeTask
  <2>2. CASE TaskStart
    <3>1. DateFrom(task.ordered) \in Int
      BY <1>a DEF DateFrom, Month, TypeWorld
    <3> QED
      BY <2>2, <3>1, <1>a DEF TaskStart, TypeTask
  <2>3. CASE TaskLock
    BY <2>3, <1>a DEF TaskLock, Goto, TypeTask
  <2>4. CASE TaskMinId
    <3>1. \A r \in calls : r.id \in Nat
      BY <1>a DEF TypeRows, Row
    <3> QED
      BY <2>4, <3>1, <1>a DEF TaskMinId, Goto, TypeTask
  <2>5. CASE TaskDelete
    BY <2>5, <1>a DEF TaskDelete, Goto, TypeTask, Between
  <2>6. CASE TaskLoad
    BY <2>6, <1>a, <1>b, <1>c DEF TaskLoad, TypeTask, Between
  <2>7. CASE TaskCalcPart
    <3>1. PICK last \in Nat : \E S :
            /\ Cardinality(S) \in Nat /\ task' = task
            /\ run' = [run EXCEPT !.pos = last, !.lastId = @ + Cardinality(S)]
      BY <2>7, <1>d, Zenon
    <3>2. PICK n \in Nat : run' = [run EXCEPT !.pos = last, !.lastId = @ + n]
      BY <3>1
    <3>3. run.lastId + n \in Nat
      BY <1>a DEF TypeTask
    <3> QED
      BY <3>1, <3>2, <3>3, <1>a DEF TypeTask
  <2>8. CASE TaskCalcEnds
    BY <2>8, <1>a DEF TaskCalcEnds, Goto, TypeTask, Between
  <2>9. CASE TaskSwap
    BY <2>9, <1>a DEF TaskSwap, Goto, TypeTask, Between
  <2>10. CASE TaskCentral
    BY <2>10, <1>a DEF TaskCentral, Goto, TypeTask
  <2>14. CASE TaskStats
    BY <2>14, <1>a DEF TaskStats, Goto, TypeTask
  <2>11. CASE TaskDone
    BY <2>11 DEF TaskDone, NoTask, RunIdle, TypeTask
  <2>12. CASE TaskFails \/ CrashRestart
    BY <2>12, <1>a DEF TaskFails, CrashRestart, RunIdle, TypeTask
  <2>13. CASE UNCHANGED <<task, run>>
    BY <2>13, <1>a DEF TypeTask
  <2> QED
    BY <2>1, <2>2, <2>3, <2>4, <2>5, <2>6, <2>7, <2>8, <2>9, <2>10, <2>11, <2>12, <2>13, <2>14,
       Frame
    DEF TaskSteps
<1>4. TypeSync'
  <2>1. CASE SyncBegin
    <3>1. PICK r \in Unsent :
            sync' = [pc |-> "copy", months |-> [i \in 1..3 |-> Month(r.time) - 2 + i]]
      BY <2>1 DEF SyncBegin
    <3>2. r.time \in Int
      BY <1>a DEF Unsent, Row, TypeRows
    <3>3. Month(r.time) \in Int
      BY <3>2 DEF Month
    <3> DEFINE ms == [i \in 1..3 |-> Month(r.time) - 2 + i]
    <3>4. ms \in Seq(Int) /\ ms # <<>>
      BY <3>3
    <3>5. sync' = [pc |-> "copy", months |-> ms]
      BY <3>1
    <3> HIDE DEF ms
    <3> QED
      BY <3>4, <3>5 DEF TypeSync
  <2>2. CASE CopyNothing \/ CopyFails
    BY <2>2, <1>a, NextMonthType DEF CopyNothing, CopyFails
  <2>3. CASE SyncFails \/ CrashRestart
    BY <2>3 DEF SyncFails, CrashRestart, TypeSync
  <2> QED
    BY <2>1, <2>2, <2>3, <1>a, Frame DEF TypeSync
<1>5. TypeCount'
  BY <1>0, <1>a, Frame
  DEF TypeCount, Order, OrderTask, TaskFails, CopyFails, SyncFails, CrashRestart, Fault, Times
<1>6. NobodyAhead'
  <2>1. Len(cdrs') \in Nat /\ version' \in Nat
    BY <1>0, <1>1 DEF TypeWorld
  <2>2. Len(cdrs') >= Len(cdrs) /\ version' >= version
    BY <1>0, <1>a, Frame DEF Insert, InsertCdr, Tick, ChangeLists, TypeWorld
  <2>3. live'.pos <= Len(cdrs')
    <3>1. live'.pos <= Len(cdrs)
      BY <1>a, <1>c, <1>e, Frame DEF LiveSave, TaskDelete, TaskCalcPart, TaskSwap, TaskCentral,
         CopyPart, CrashRestart, NobodyAhead, TypeRows
    <3> QED
      BY <2>1, <2>2, <3>1, <1>2, <1>b DEF TypeRows
  <2>4. run'.pos <= Len(cdrs) /\ run'.ver <= version /\ task'.asked <= version
    <3>1. CASE Order
      BY <3>1, <1>a, <1>b DEF Order, OrderTask, TypeTask, NobodyAhead
    <3>2. CASE TaskStart \/ TaskLock \/ TaskMinId \/ TaskDelete \/ TaskCalcEnds \/ TaskSwap
               \/ TaskCentral \/ TaskStats
      BY <3>2, <1>a DEF TaskStart, TaskLock, TaskMinId, TaskDelete, TaskCalcEnds, TaskSwap,
         TaskCentral, TaskStats, Goto, TypeTask, NobodyAhead
    <3>3. CASE TaskLoad
      BY <3>3, <1>a, <1>b, <1>c DEF TaskLoad, TypeTask, NobodyAhead
    <3>4. CASE TaskCalcPart
      BY <3>4, <1>a, <1>d DEF TypeTask, NobodyAhead
    <3>5. CASE TaskDone \/ TaskFails \/ CrashRestart
      BY <3>5, <1>a, <1>b DEF TaskDone, TaskFails, CrashRestart, NoTask, RunIdle, NobodyAhead
    <3>6. CASE UNCHANGED <<task, run>>
      BY <3>6, <1>a DEF NobodyAhead
    <3> QED
      BY <3>1, <3>2, <3>3, <3>4, <3>5, <3>6, Frame DEF TaskSteps
  <2> QED
    BY <2>1, <2>2, <2>3, <2>4, <1>3, <1>b DEF TypeTask, NobodyAhead
<1> QED
  BY <1>1, <1>2, <1>3, <1>4, <1>5, <1>6 DEF TypeOK

\* Every step keeps what is known of the rows.
LEMMA RowsStep ==
  ASSUME RecalculationAssumption, TypeOK, TypeOK', RowsInv, Next
  PROVE  RowsInv'
<1>1. /\ Len(cdrs) \in Nat /\ version \in Nat /\ live.pos \in Nat /\ live.lastId \in Nat
      /\ run.pos \in Nat /\ run.lastId \in Nat /\ run.ver \in Nat
      /\ CdrsPartitionSize \in Nat
  BY DEF RecalculationAssumption, TypeOK, TypeWorld, TypeRows, TypeTask
<1>2. ASSUME UNCHANGED cdrs, calls' \cup live'.rows \subseteq calls \cup live.rows
      PROVE  RowsInv'
  <2>1. IsFiniteSet({}) /\ 0 \in Nat
    BY FS_EmptySet
  <2> QED
    BY <1>2, <2>1, RowsGrow
<1>3. CASE LiveBill
  <2> DEFINE c == live.pos + 1
             S == ToBill(c, c, version)
             new == Billed(S, live.lastId, version)
  <2>1. c \in Nat /\ c > 0 /\ c <= Len(cdrs) /\ UNCHANGED <<cdrs, calls>>
        /\ live'.rows = live.rows \cup new
    BY <1>1, <1>3 DEF LiveBill
  <2>2. /\ Cardinality(S) \in Nat /\ IsFiniteSet(new) /\ new \subseteq Row
        /\ \A r \in new : r.cdr \in 1..Len(cdrs) /\ r.id > live.lastId
                          /\ r.id <= live.lastId + Cardinality(S)
    <3> HIDE DEF c
    <3> QED
      BY <1>1, <2>1, BilledRows
  <2>4. \A r \in new : r.id > 0
    BY <1>1, <2>2 DEF Row
  <2>5. live.lastId + Cardinality(S) \in Nat
    BY <1>1, <2>2
  <2>6. calls' \cup live'.rows \subseteq calls \cup live.rows \cup new
    BY <2>1
  <2> HIDE DEF new, S
  <2> QED
    BY <2>1, <2>2, <2>4, <2>5, <2>6, RowsGrow
<1>4. CASE TaskCalcPart
  <2> DEFINE last == IF run.pos + CdrsPartitionSize < Len(cdrs)
                     THEN run.pos + CdrsPartitionSize ELSE Len(cdrs)
             S == ToBill(run.pos + 1, last, run.ver)
             new == Billed(S, run.lastId, run.ver)
  <2>1. run.pos + 1 \in Nat /\ run.pos + 1 > 0 /\ last \in Nat /\ last <= Len(cdrs)
    <3>1. run.pos + CdrsPartitionSize \in Nat
      BY <1>1
    <3>2. run.pos + 1 \in Nat /\ run.pos + 1 > 0
      BY <1>1
    <3>3. CASE run.pos + CdrsPartitionSize < Len(cdrs)
      BY <1>1, <3>1, <3>2, <3>3
    <3>4. CASE ~ (run.pos + CdrsPartitionSize < Len(cdrs))
      BY <1>1, <3>2, <3>4
    <3> QED
      BY <3>3, <3>4
  <2>2. UNCHANGED <<cdrs, live>> /\ calls' = calls \cup new
    BY <1>4 DEF TaskCalcPart
  <2> HIDE DEF last
  <2>3. /\ Cardinality(S) \in Nat /\ IsFiniteSet(new) /\ new \subseteq Row
        /\ \A r \in new : r.cdr \in 1..Len(cdrs) /\ r.id > run.lastId
                          /\ r.id <= run.lastId + Cardinality(S)
    BY <1>1, <2>1, BilledRows
  <2>4. \A r \in new : r.id > 0
    BY <1>1, <2>3 DEF Row
  <2>5. run.lastId + Cardinality(S) \in Nat
    BY <1>1, <2>3
  <2>6. calls' \cup live'.rows \subseteq calls \cup live.rows \cup new
    BY <2>2
  <2> HIDE DEF new, S
  <2> QED
    BY <2>2, <2>3, <2>4, <2>5, <2>6, RowsGrow
<1>5. CASE TaskSwap \/ CrashRestart
  BY <1>2, <1>5, LoadedBound DEF TaskSwap, CrashRestart
<1>6. CASE LiveSave
  BY <1>2, <1>6 DEF LiveSave, Below, TypeOK, TypeRows
<1>7. CASE TaskDelete
  BY <1>2, <1>7 DEF TaskDelete, Below
<1>8. CASE UNCHANGED <<calls, live>>
  <2>1. Len(cdrs') \in Nat
    BY DEF TypeOK, TypeWorld
  <2>2. Len(cdrs') >= Len(cdrs)
    BY <1>1, Frame DEF Insert, InsertCdr, Tick, ChangeLists, TypeOK, TypeWorld
  <2> QED
    BY <1>1, <1>8, <2>1, <2>2, RowsQuiet
<1>9. CASE TaskCentral \/ CopyPart
  BY <1>8, <1>9 DEF TaskCentral, CopyPart
<1> QED
  BY <1>3, <1>4, <1>5, <1>6, <1>7, <1>8, <1>9, Frame

\* Every step keeps the two threads apart.
LEMMA LockStep ==
  ASSUME TypeOK, LockInv, Next
  PROVE  LockInv'
<1> USE DEF LockInv, HoldsSyncLock, Between
<1>a. run \in [pc : {"idle", "lock", "min", "delete", "stats", "done"} \cup Between,
               date : Int, from : Nat, pos : Nat, lastId : Nat, ver : Nat]
  BY DEF TypeOK, TypeTask
<1>1. CASE World \/ Live
  BY <1>1 DEF World, Live, Tick, InsertCdr, ChangeLists, OrderTask, LiveBill, LiveSave
<1>2. CASE TaskSteps
  <2>1. CASE TaskStart \/ TaskLock \/ TaskMinId
    BY <2>1, <1>a DEF TaskStart, TaskLock, TaskMinId, Goto
  <2>2. CASE TaskDelete \/ TaskLoad \/ TaskCalcEnds \/ TaskSwap
    BY <2>2, <1>a DEF TaskDelete, TaskLoad, TaskCalcEnds, TaskSwap, Goto
  <2>3. CASE TaskCalcPart
    BY <2>3, <1>a DEF TaskCalcPart
  <2>4. CASE TaskCentral \/ TaskStats \/ TaskDone
    BY <2>4, <1>a DEF TaskCentral, TaskStats, TaskDone, Goto, RunIdle
  <2> QED
    BY <1>2, <2>1, <2>2, <2>3, <2>4 DEF TaskSteps
<1>3. CASE TaskFails \/ CrashRestart
  BY <1>3 DEF TaskFails, CrashRestart, RunIdle
<1>4. CASE Sync
  BY <1>4 DEF Sync, SyncBegin, CopyPart, CopyNothing
<1>5. CASE CopyFails \/ SyncFails
  BY <1>5 DEF CopyFails, SyncFails
<1> QED
  BY <1>1, <1>2, <1>3, <1>4, <1>5 DEF Next

\* Every step keeps what the task knows of the prices: nobody else writes
\* calls_raw while it runs, and it bills with lists read after the order.
LEMMA PriceStep ==
  ASSUME RecalculationAssumption, TypeOK, TypeOK', RowsInv, PriceInv, Next
  PROVE  PriceInv'
<1> USE DEF PriceInv
<1>a. /\ run \in [pc : {"idle", "lock", "min", "delete", "stats", "done"} \cup Between,
                  date : Int, from : Nat, pos : Nat, lastId : Nat, ver : Nat]
      /\ task \in [ordered : {"none", "current", "last"}, asked : Nat]
      /\ version \in Nat /\ task.asked <= version
  BY DEF TypeOK, TypeTask, TypeWorld, NobodyAhead, RecalculationAssumption
<1>b. \A r \in calls : r.id \in Nat /\ r.time \in Int /\ r.ver \in Nat
  BY DEF TypeOK, TypeRows, Row
<1>1. CASE Tick \/ Insert \/ ChangeLists \/ LiveBill
  BY <1>1 DEF Tick, Insert, InsertCdr, ChangeLists, LiveBill
<1>2. CASE Order
  BY <1>2, <1>a DEF Order, OrderTask, Between
<1>3. CASE LiveSave
  BY <1>3 DEF LiveSave, HoldsSaveLock
<1>4. CASE TaskStart \/ TaskLock \/ TaskCalcEnds \/ TaskSwap \/ TaskCentral \/ TaskStats
  BY <1>4, <1>a DEF TaskStart, TaskLock, TaskCalcEnds, TaskSwap, TaskCentral, TaskStats, Goto
<1>5. CASE TaskMinId
  BY <1>5, <1>a DEF TaskMinId, Goto
<1>6. CASE TaskDelete
  BY <1>6, <1>a, <1>b DEF TaskDelete, Goto, Below
<1>7. CASE TaskLoad
  BY <1>7, <1>a DEF TaskLoad
<1>8. CASE TaskCalcPart
  <2>1. PICK S : /\ calls' = calls \cup Billed(S, run.lastId, run.ver)
                 /\ run'.pc = run.pc /\ run'.date = run.date /\ run'.ver = run.ver
                 /\ run.pc = "calc" /\ task' = task
    BY <1>8, <1>a DEF TaskCalcPart
  <2>2. \A r \in Billed(S, run.lastId, run.ver) : r.ver = run.ver
    BY BilledVer
  <2> QED
    BY <2>1, <2>2
<1>9. CASE TaskDone \/ TaskFails \/ CrashRestart
  BY <1>9 DEF TaskDone, TaskFails, CrashRestart, RunIdle
<1>10. CASE UNCHANGED <<calls, task, run>>
  BY <1>10
<1>11. CASE Sync \/ CopyFails \/ SyncFails
  BY <1>10, <1>11 DEF Sync, SyncBegin, CopyPart, CopyNothing, CopyFails, SyncFails
<1> QED
  BY <1>1, <1>2, <1>3, <1>4, <1>5, <1>6, <1>7, <1>8, <1>9, <1>11
  DEF Next, World, Insert, Order, Live, TaskSteps

\* Initially and after every step, whatever fails.
LEMMA GInvInit ==
  ASSUME RecalculationAssumption, Init
  PROVE  GInv
<1>1. TypeWorld /\ TypeRows
  BY DEF Init, RecalculationAssumption, TypeWorld, TypeRows
<1>2. TypeTask /\ TypeSync /\ TypeCount
  BY DEF Init, TypeTask, TypeSync, TypeCount, NoTask, RunIdle
<1>3. NobodyAhead
  BY DEF Init, NobodyAhead, NoTask, RunIdle
<1>4. RowsInv
  BY FS_EmptySet DEF Init, RowsInv
<1>5. LockInv /\ PriceInv
  BY DEF Init, LockInv, HoldsSyncLock, Between, PriceInv, RunIdle
<1> QED
  BY <1>1, <1>2, <1>3, <1>4, <1>5 DEF GInv, TypeOK

LEMMA GInvStep ==
  ASSUME RecalculationAssumption, GInv, [Next]_vars
  PROVE  GInv'
<1>1. CASE Next
  BY <1>1, TypeStep, RowsStep, LockStep, PriceStep DEF GInv
<1>2. CASE UNCHANGED vars
  <2> USE <1>2 DEF vars
  <2>1. TypeOK'
    BY DEF GInv, TypeOK, TypeWorld, TypeRows, TypeTask, TypeSync, TypeCount, NobodyAhead
  <2>2. RowsInv'
    BY DEF GInv, RowsInv
  <2>3. LockInv' /\ PriceInv'
    BY DEF GInv, LockInv, HoldsSyncLock, PriceInv
  <2> QED
    BY <2>1, <2>2, <2>3 DEF GInv
<1> QED
  BY <1>1, <1>2

-----------------------------------------------------------------------------
\* Type correctness, whatever fails: no state of the task, of the copying
\* thread or of the tables is outside its type, and neither container nor
\* task is ahead of the CDRs and the price lists.
THEOREM TypeCorrect == Spec => []TypeOK
<1>1. Spec => []GInv
  BY RecalculationAssumption, GInvInit, GInvStep, PTL DEF Spec
<1>2. GInv => TypeOK
  BY DEF GInv
<1> QED
  BY <1>1, <1>2, PTL

\* Whatever fails and however often the task is run again: when TaskRecalc
\* replaces the live container, no call of the recalculated time has a price
\* from before the order.
THEOREM RepricedAlways == Spec => Repriced
<1>1. Spec => []GInv
  BY RecalculationAssumption, GInvInit, GInvStep, PTL DEF Spec
<1> DEFINE A == run.pc = "swap" /\ run'.pc = "central" =>
       \A r \in calls' \cup live'.rows : r.time >= run.date => r.ver >= task.asked
<1>2. ASSUME GInv, [Next]_vars
      PROVE  [A]_vars
  <2>1. SUFFICES ASSUME Next, run.pc = "swap", run'.pc = "central"
                 PROVE  calls' = calls /\ live'.rows = {}
    BY <1>2 DEF GInv, PriceInv
  <2>2. run \in [pc : {"idle", "lock", "min", "delete", "stats", "done"} \cup Between,
                 date : Int, from : Nat, pos : Nat, lastId : Nat, ver : Nat]
    BY <1>2 DEF GInv, TypeOK, TypeTask
  <2>3. TaskSwap
    BY <2>1, <2>2 DEF Next, World, Tick, InsertCdr, ChangeLists, OrderTask, Live, LiveBill, LiveSave,
       TaskSteps, TaskStart, TaskLock, TaskMinId, TaskDelete, TaskLoad, TaskCalcPart,
       TaskCalcEnds, TaskCentral, TaskStats, TaskDone, TaskFails, Sync, SyncBegin, CopyPart, CopyNothing,
       CopyFails, SyncFails, CrashRestart, Goto, RunIdle
  <2> QED
    BY <2>3 DEF TaskSwap, Loaded
<1> QED
  BY <1>1, <1>2, PTL DEF Spec, Repriced

-----------------------------------------------------------------------------
(* With no failure between the two deletions of the task.                  *)

NeverBetween == "between" \notin FaultKinds

\* A page of CDRs gives the task rows with new ids, up to its new last id.
LEMMA PageIsNew ==
  ASSUME RecalculationAssumption, TypeOK, TaskCalcPart
  PROVE  \E new \in SUBSET Row : \E n \in Nat :
           /\ calls' = calls \cup new
           /\ run' = [run EXCEPT !.pos = run'.pos, !.lastId = n]
           /\ n >= run.lastId
           /\ \A r \in new : r.id > run.lastId /\ r.id <= n
           /\ UNCHANGED <<live, central, sync>>
<1> DEFINE last == IF run.pos + CdrsPartitionSize < Len(cdrs)
                   THEN run.pos + CdrsPartitionSize ELSE Len(cdrs)
           S == ToBill(run.pos + 1, last, run.ver)
           new == Billed(S, run.lastId, run.ver)
<1>1. /\ Len(cdrs) \in Nat /\ run.pos \in Nat /\ run.lastId \in Nat /\ run.ver \in Nat
      /\ CdrsPartitionSize \in Nat
  BY DEF RecalculationAssumption, TypeOK, TypeWorld, TypeTask
<1>2. run.pos + CdrsPartitionSize \in Nat /\ run.pos + 1 \in Nat /\ run.pos + 1 > 0
  <2>1. run.pos + CdrsPartitionSize \in Nat
    BY <1>1
  <2>2. run.pos + 1 \in Nat /\ run.pos + 1 > 0
    BY <1>1
  <2> QED
    BY <2>1, <2>2
<1>3. last \in Nat /\ last <= Len(cdrs)
  <2>1. CASE run.pos + CdrsPartitionSize < Len(cdrs)
    BY <1>1, <1>2, <2>1
  <2>2. CASE ~ (run.pos + CdrsPartitionSize < Len(cdrs))
    BY <1>1, <2>2
  <2> QED
    BY <2>1, <2>2
<1>4. /\ calls' = calls \cup new
      /\ run' = [run EXCEPT !.pos = last, !.lastId = @ + Cardinality(S)]
      /\ UNCHANGED <<live, central, sync>>
  BY DEF TaskCalcPart
<1> HIDE DEF last
<1>5. /\ Cardinality(S) \in Nat /\ new \subseteq Row
      /\ \A r \in new : r.id > run.lastId /\ r.id <= run.lastId + Cardinality(S)
  BY <1>1, <1>2, <1>3, BilledRows
<1> HIDE DEF S, new
<1>6. run'.pos = last
  BY <1>4 DEF TypeOK, TypeTask
<1>7. run.lastId + Cardinality(S) \in Nat /\ run.lastId + Cardinality(S) >= run.lastId
  BY <1>1, <1>5
<1> QED
  BY <1>4, <1>5, <1>6, <1>7

\* Every step keeps the order of the ids.
LEMMA OrderStep ==
  ASSUME RecalculationAssumption, NeverBetween, GInv, GInv', OrderInv, Next
  PROVE  OrderInv'
<1> USE DEF OrderInv
<1>a. /\ run \in [pc : {"idle", "lock", "min", "delete", "stats", "done"} \cup Between,
                  date : Int, from : Nat, pos : Nat, lastId : Nat, ver : Nat]
      /\ live \in [pos : Nat, lastId : Nat, rows : SUBSET Row]
      /\ calls \subseteq Row
  BY DEF GInv, TypeOK, TypeTask, TypeRows
<1>b. /\ Loaded.rows = {} /\ Loaded.lastId \in Nat
      /\ \A r \in calls : r.id <= Loaded.lastId
  BY LoadedBound DEF GInv
<1>c. \A r \in calls \cup live.rows : r.id \in Nat
  BY <1>a DEF Row
<1>1. CASE UNCHANGED <<calls, live, run>>
  BY <1>1
<1>2. CASE LiveBill
  <2> DEFINE c == live.pos + 1
             S == ToBill(c, c, version)
             new == Billed(S, live.lastId, version)
  <2>1. c \in Nat /\ c > 0 /\ c <= Len(cdrs) /\ live.lastId \in Nat /\ version \in Nat
    <3>1. version \in Nat
      BY DEF GInv, TypeOK, TypeWorld, RecalculationAssumption
    <3>2. c <= Len(cdrs)
      BY <1>2 DEF LiveBill
    <3>3. live.pos \in Nat /\ live.lastId \in Nat
      BY <1>a
    <3> QED
      BY <3>1, <3>2, <3>3
  <2>2. /\ live'.rows = live.rows \cup new /\ live'.lastId = live.lastId + Cardinality(S)
        /\ UNCHANGED <<calls, run>>
    BY <1>2 DEF LiveBill
  <2> HIDE DEF c
  <2>3. /\ Cardinality(S) \in Nat /\ new \subseteq Row
        /\ \A r \in new : r.id > live.lastId /\ r.id <= live.lastId + Cardinality(S)
    BY <2>1, BilledRows DEF GInv
  <2> HIDE DEF S, new
  <2>4. \A r \in new : r.id \in Nat
    BY <2>3 DEF Row
  <2>5. SUFFICES ASSUME run.pc \notin {"load", "calc", "swap"}
                 PROVE  /\ \A r \in calls \cup live'.rows : r.id <= live'.lastId
                        /\ \A r \in calls, q \in live'.rows : r.id < q.id
    BY <2>2
  <2>6. \A r \in calls \cup live'.rows : r.id <= live'.lastId
    BY <1>c, <2>1, <2>2, <2>3, <2>4, <2>5
  <2>7. \A r \in calls, q \in live'.rows : r.id < q.id
    BY <1>c, <2>1, <2>2, <2>3, <2>4, <2>5
  <2> QED
    BY <2>6, <2>7
<1>3. CASE LiveSave
  <2>1. PICK last \in Ids(live.rows) :
          /\ calls' = calls \cup Below(live.rows, last + 1)
          /\ live' = [live EXCEPT !.rows = @ \ Below(live.rows, last + 1)]
          /\ run' = run /\ run.pc \notin {"load", "calc", "swap"}
    BY <1>3 DEF LiveSave, HoldsSaveLock
  <2>2. last \in Nat
    BY <1>c DEF Ids
  <2>3. live'.rows = live.rows \ Below(live.rows, last + 1) /\ live'.lastId = live.lastId
    BY <2>1, <1>a
  <2>4. \A r \in Below(live.rows, last + 1), q \in live'.rows : r.id < q.id
    BY <1>c, <2>2, <2>3 DEF Below
  <2>5. Below(live.rows, last + 1) \subseteq live.rows
    BY DEF Below
  <2> QED
    BY <2>1, <2>3, <2>4, <2>5
<1>4. CASE TaskStart \/ TaskLock \/ TaskMinId \/ TaskCentral \/ TaskStats \/ TaskDone
  <2>1. /\ UNCHANGED <<calls, live>>
        /\ run.pc \notin {"load", "calc", "swap"} /\ run'.pc \notin {"load", "calc", "swap"}
    <3> HIDE DEF OrderInv
    <3>1. CASE TaskStart
      BY <3>1, <1>a DEF TaskStart
    <3>2. CASE TaskLock
      BY <3>2, <1>a DEF TaskLock, Goto
    <3>3. CASE TaskMinId
      BY <3>3, <1>a DEF TaskMinId, Goto
    <3>4. CASE TaskCentral
      BY <3>4, <1>a DEF TaskCentral, Goto
    <3>5. CASE TaskDone
      BY <3>5 DEF TaskDone, RunIdle
    <3>6. CASE TaskStats
      BY <3>6, <1>a DEF TaskStats, Goto
    <3> QED
      BY <1>4, <3>1, <3>2, <3>3, <3>4, <3>5, <3>6
  <2> QED
    BY <2>1
<1>5. CASE TaskDelete \/ TaskCalcEnds
  BY <1>5, <1>a DEF TaskDelete, TaskCalcEnds, Goto
<1>6. CASE TaskLoad
  <2>1. run'.pc = "calc" /\ run'.lastId = Loaded.lastId /\ calls' = calls
    BY <1>6, <1>a DEF TaskLoad
  <2> QED
    BY <1>b, <2>1
<1>7. CASE TaskCalcPart
  <2>1. PICK new \in SUBSET Row, n \in Nat :
          /\ calls' = calls \cup new
          /\ run' = [run EXCEPT !.pos = run'.pos, !.lastId = n]
          /\ n >= run.lastId
          /\ \A r \in new : r.id > run.lastId /\ r.id <= n
    BY <1>7, PageIsNew DEF GInv
  <2>2. run'.pc = run.pc /\ run.pc = "calc" /\ run'.lastId = n
    BY <1>7, <2>1, <1>a DEF TaskCalcPart
  <2>3. \A r \in calls' : r.id <= n
    BY <1>a, <1>c, <2>1, <2>2
  <2> QED
    BY <2>2, <2>3
<1>8. CASE TaskSwap
  <2>1. run'.pc = "central" /\ calls' = calls /\ live' = Loaded
    BY <1>8, <1>a DEF TaskSwap, Goto
  <2> QED
    BY <1>b, <2>1
<1>9. CASE CrashRestart
  <2>1. run'.pc = "idle" /\ calls' = calls /\ live' = Loaded
    BY <1>9 DEF CrashRestart, RunIdle
  <2> QED
    BY <1>b, <2>1
<1>10. CASE TaskFails
  <2>1. run.pc \notin Between /\ UNCHANGED <<calls, live>> /\ run'.pc = "idle"
    BY <1>10 DEF TaskFails, Fault, NeverBetween, RunIdle
  <2> QED
    BY <2>1 DEF Between
<1>11. CASE World \/ Sync \/ CopyFails \/ SyncFails
  BY <1>1, <1>11 DEF World, Tick, InsertCdr, ChangeLists, OrderTask, Sync, SyncBegin, CopyPart,
     CopyNothing, CopyFails, SyncFails
<1> QED
  BY <1>2, <1>3, <1>4, <1>5, <1>6, <1>7, <1>8, <1>9, <1>10, <1>11 DEF Next, Live, TaskSteps

\* A copy adds to a prefix of the month the rows that follow it.
LEMMA CopyKeepsPrefix ==
  ASSUME GInv, CentralIsPrefix, CopyPart, RecalculationAssumption
  PROVE  CentralIsPrefix'
<1> DEFINE m == Head(sync.months)
           missing == Missing(m)
           before(r) == {s \in missing : s.id < r.id}
           part == {r \in missing : Cardinality(before(r)) < CopyLimit}
           there == Ids(OfMonth(central, m))
<1>1. /\ sync.pc = "copy" /\ central' = central \cup part
      /\ UNCHANGED <<calls, run>>
  BY DEF CopyPart
<1>2. run.pc \notin Between
  BY <1>1 DEF GInv, LockInv, HoldsSyncLock
<1>3. /\ \A r \in calls : r.id \in Nat /\ r.id > 0
      /\ central \subseteq calls /\ IsFiniteSet(calls)
  BY <1>2 DEF GInv, RowsInv, TypeOK, TypeRows, Row, CentralIsPrefix, Kept
<1>4. PICK n \in Nat : \A r \in calls : r.id <= n
  BY DEF GInv, RowsInv
<1>5. there \subseteq Nat /\ \A x \in there : x <= n
  BY <1>3, <1>4 DEF Ids, OfMonth
<1>6. /\ MaxOf(there) \in Nat /\ (there # {} => MaxOf(there) \in there)
  BY <1>5, MaxOfBound
<1>7. /\ missing \subseteq calls
      /\ \A r \in missing : Month(r.time) = m /\ r.id > MaxOf(there)
      /\ \A r \in calls : Month(r.time) = m /\ r.id > MaxOf(there) => r \in missing
  BY DEF Missing, OfMonth
<1>8. ASSUME NEW s \in part, NEW r \in calls, Month(r.time) = Month(s.time), r.id <= s.id
      PROVE  r \in central'
  <2>1. s \in missing /\ Month(r.time) = m /\ Cardinality(before(s)) < CopyLimit
    BY <1>7, <1>8
  <2>2. CASE r.id > MaxOf(there)
    <3>1. r \in missing
      BY <1>7, <2>1, <2>2
    <3>2. before(r) \subseteq before(s)
      BY <1>3, <1>7, <1>8, <2>1
    <3>3. IsFiniteSet(before(s))
      BY <1>3, <1>7, FS_Subset
    <3>4. Cardinality(before(r)) <= Cardinality(before(s)) /\ IsFiniteSet(before(r))
      BY <3>2, <3>3, FS_Subset
    <3>5. Cardinality(before(r)) \in Nat /\ Cardinality(before(s)) \in Nat
      BY <3>3, <3>4, FS_CardinalityType
    <3>6. CopyLimit \in Nat
      BY DEF RecalculationAssumption
    <3> HIDE DEF before, missing
    <3>7. Cardinality(before(r)) < CopyLimit
      BY <2>1, <3>4, <3>5, <3>6
    <3> QED
      BY <1>1, <3>1, <3>7
  <2>3. CASE ~ (r.id > MaxOf(there))
    <3>1. r.id <= MaxOf(there) /\ r.id > 0
      BY <1>3, <1>6, <2>3
    <3>2. there # {}
      BY <1>3, <3>1 DEF MaxOf
    <3>3. PICK q \in central : q.id = MaxOf(there) /\ Month(q.time) = m
      BY <1>6, <3>2 DEF Ids, OfMonth
    <3> QED
      BY <1>1, <1>2, <2>1, <3>1, <3>3 DEF CentralIsPrefix, Kept
  <2> QED
    BY <2>2, <2>3
<1>9. ASSUME NEW s \in central, NEW r \in calls, Month(r.time) = Month(s.time), r.id <= s.id
      PROVE  r \in central'
  BY <1>1, <1>2, <1>9 DEF CentralIsPrefix, Kept
<1>10. part \subseteq calls
  BY <1>7
<1> HIDE DEF part
<1> QED
  BY <1>1, <1>3, <1>8, <1>9, <1>10 DEF CentralIsPrefix

\* Every step keeps the central database a copy of the region.
LEMMA PrefixStep ==
  ASSUME RecalculationAssumption, NeverBetween, GInv, OrderInv, CentralIsPrefix, Next
  PROVE  CentralIsPrefix'
<1> USE DEF CentralIsPrefix, Kept
<1>a. /\ run \in [pc : {"idle", "lock", "min", "delete", "stats", "done"} \cup Between,
                  date : Int, from : Nat, pos : Nat, lastId : Nat, ver : Nat]
      /\ calls \subseteq Row /\ central \subseteq Row /\ live.rows \subseteq Row
  BY DEF GInv, TypeOK, TypeTask, TypeRows
<1>c. \A r \in calls \cup central \cup live.rows : r.id \in Nat
  BY <1>a DEF Row
<1>1. CASE UNCHANGED <<calls, central, run>>
  BY <1>1
<1>2. CASE LiveSave
  <2>1. PICK last :
          /\ calls' = calls \cup Below(live.rows, last + 1)
          /\ run' = run /\ central' = central /\ run.pc \notin {"load", "calc", "swap"}
    BY <1>2 DEF LiveSave, HoldsSaveLock
  <2>2. \A s \in calls, r \in Below(live.rows, last + 1) : s.id < r.id
    BY <2>1 DEF OrderInv, Below
  <2>3. \A s \in calls, r \in Below(live.rows, last + 1) : ~ (r.id <= s.id)
    BY <1>c, <2>2 DEF Below
  <2> QED
    BY <2>1, <2>3
<1>3. CASE TaskStart \/ TaskLock \/ TaskMinId \/ TaskStats \/ TaskDone
  BY <1>3, <1>a DEF TaskStart, TaskLock, TaskMinId, TaskStats, TaskDone, Goto, RunIdle, Between
<1>4. CASE TaskDelete
  <2>1. /\ calls' = Below(calls, run.from) /\ run'.pc = "load" /\ run'.from = run.from
        /\ central' = central /\ run.pc \notin Between
    BY <1>4, <1>a DEF TaskDelete, Goto, Between
  <2> QED
    BY <2>1 DEF Below, Between
<1>5. CASE TaskLoad \/ TaskCalcEnds \/ TaskSwap
  BY <1>5, <1>a DEF TaskLoad, TaskCalcEnds, TaskSwap, Goto, Between
<1>6. CASE TaskCalcPart
  <2>1. PICK new \in SUBSET Row, n \in Nat :
          /\ calls' = calls \cup new
          /\ run' = [run EXCEPT !.pos = run'.pos, !.lastId = n]
          /\ \A r \in new : r.id > run.lastId
          /\ central' = central
    BY <1>6, PageIsNew DEF GInv
  <2>2. run'.pc = run.pc /\ run.pc = "calc" /\ run'.from = run.from
    BY <1>6, <2>1, <1>a DEF TaskCalcPart
  <2>3. \A s \in calls, r \in new : ~ (r.id <= s.id)
    <3>1. \A r \in new : r.id \in Nat
      BY DEF Row
    <3> QED
      BY <1>a, <1>c, <2>1, <2>2, <3>1 DEF OrderInv
  <2> QED
    BY <2>1, <2>2, <2>3
<1>7. CASE TaskCentral
  <2>1. /\ central' = Below(central, run.from) /\ calls' = calls
        /\ run.pc \in Between /\ run'.pc \notin Between
    BY <1>7, <1>a DEF TaskCentral, Goto, Between
  <2>2. ASSUME NEW s \in central' PROVE s \in central /\ Kept(s) /\ s.id < run.from
    BY <2>1 DEF Below
  <2>3. ASSUME NEW s \in central', NEW r \in calls, Month(r.time) = Month(s.time), r.id <= s.id
        PROVE  r \in central'
    <3>1. r \in central
      BY <2>2, <2>3
    <3>2. r.id < run.from
      BY <1>a, <1>c, <2>2, <2>3
    <3> QED
      BY <2>1, <3>1, <3>2 DEF Below
  <2> QED
    BY <2>1, <2>2, <2>3
<1>8. CASE TaskFails \/ CrashRestart
  <2>1. run.pc \notin Between /\ UNCHANGED <<calls, central>>
    BY <1>8 DEF TaskFails, CrashRestart, Fault, NeverBetween
  <2> QED
    BY <2>1
<1>9. CASE CopyPart
  BY <1>9, CopyKeepsPrefix
<1>10. CASE World \/ LiveBill \/ SyncBegin \/ CopyNothing \/ CopyFails \/ SyncFails
  BY <1>1, <1>10 DEF World, Tick, InsertCdr, ChangeLists, OrderTask, LiveBill, SyncBegin,
     CopyNothing, CopyFails, SyncFails
<1> QED
  BY <1>2, <1>3, <1>4, <1>5, <1>6, <1>7, <1>8, <1>9, <1>10 DEF Next, Live, TaskSteps, Sync

\* As long as no recalculation fails between its deletion in the region and
\* its deletion in the central database, the central calls_raw is, month by
\* month, a prefix of the region's: whatever else fails, in TaskRecalc, in
\* ThreadSyncCalls or in the daemon, no row is skipped and none is stale.
THEOREM CentralAlwaysPrefix ==
  ASSUME NeverBetween
  PROVE  Spec => []CentralIsPrefix
<1> DEFINE OInv == GInv /\ OrderInv /\ CentralIsPrefix
<1>1. Init => OInv
  <2>1. Init => GInv
    BY RecalculationAssumption, GInvInit
  <2>2. Init => OrderInv /\ CentralIsPrefix
    BY DEF Init, OrderInv, CentralIsPrefix
  <2> QED
    BY <2>1, <2>2
<1>2. ASSUME OInv, [Next]_vars
      PROVE  OInv'
  <2>1. GInv'
    BY <1>2, RecalculationAssumption, GInvStep
  <2>2. CASE Next
    BY <1>2, <2>1, <2>2, RecalculationAssumption, OrderStep, PrefixStep
  <2>3. CASE UNCHANGED vars
    BY <1>2, <2>1, <2>3 DEF vars, OrderInv, CentralIsPrefix, Kept
  <2> QED
    BY <1>2, <2>2, <2>3
<1>3. OInv => CentralIsPrefix
  OBVIOUS
<1> QED
  BY <1>1, <1>2, <1>3, PTL DEF Spec

-----------------------------------------------------------------------------
(* Every CDR is billed once.                                               *)

\* Some version of the lists up to w makes CDR c a technical one.
Excused(c, w) == \E v \in 0..w : c \in Unbilled[v]

\* The rows are numbered in the order of their CDRs, each id once.
Ordered(rows) == \A r, s \in rows : (r.id < s.id => r.cdr < s.cdr) /\ (r.id = s.id => r = s)
Covered(rows, n, w) == \A c \in 1..n : (\E r \in rows : r.cdr = c) \/ Excused(c, w)
\* Nothing is left out before the last row, wherever that is.
NoGap(rows, w) == \A m \in rows : Covered(rows, m.cdr, w)
\* These are the rows of the CDRs 1..n.
RowsOf(rows, n, w) == Ordered(rows) /\ (\A r \in rows : r.cdr <= n) /\ Covered(rows, n, w)

\* calls_raw can be loaded from at any moment; outside the task's own billing
\* the live container is right, within it the task's container.
OnceInv ==
  /\ Ordered(calls) /\ NoGap(calls, version)
  /\ run.pc \notin {"load", "calc", "swap"} => RowsOf(calls \cup live.rows, live.pos, version)
  /\ run.pc = "calc" => RowsOf(calls, run.pos, version)

\* The rows up to some id have no gap if all of them have none.
LEMMA LowerRows ==
  ASSUME NEW w, NEW rows \in SUBSET Row, Ordered(rows), NoGap(rows, w),
         NEW low \in SUBSET rows, \A m \in low, r \in rows : r.id < m.id => r \in low
  PROVE  Ordered(low) /\ NoGap(low, w)
<1>1. Ordered(low)
  BY DEF Ordered
<1>2. ASSUME NEW m \in low, NEW c \in 1..m.cdr, ~ Excused(c, w) PROVE \E r \in low : r.cdr = c
  <2>1. PICK r \in rows : r.cdr = c
    BY <1>2 DEF NoGap, Covered
  <2>2. r.id \in Nat /\ m.id \in Nat /\ r.cdr \in Nat /\ m.cdr \in Nat /\ r.cdr <= m.cdr
    BY <2>1 DEF Row
  <2>3. ~ (m.id < r.id)
    <3>1. m.id < r.id => m.cdr < r.cdr
      BY DEF Ordered
    <3> QED
      BY <2>2, <3>1
  <2>4. r.id < m.id \/ r = m
    <3>1. r.id = m.id => r = m
      BY DEF Ordered
    <3> QED
      BY <2>2, <2>3, <3>1
  <2> QED
    BY <2>1, <2>4
<1> QED
  BY <1>1, <1>2 DEF NoGap, Covered

LEMMA RowsOfNoGap ==
  ASSUME NEW w, NEW rows \in SUBSET Row, NEW n \in Nat, RowsOf(rows, n, w)
  PROVE  Ordered(rows) /\ NoGap(rows, w)
<1>1. \A m \in rows : m.cdr \in Nat /\ m.cdr <= n
  BY DEF RowsOf, Row
<1>2. \A m \in rows : 1..m.cdr \subseteq 1..n
  BY <1>1
<1> QED
  BY <1>2 DEF RowsOf, NoGap, Covered

\* A container loaded from rows without gaps stands at the last of their CDRs.
LEMMA LoadedRowsOf ==
  ASSUME TypeOK, RowsInv, Ordered(calls), NoGap(calls, version)
  PROVE  RowsOf(calls, Loaded.pos, version)
<1> DEFINE C == {r.cdr : r \in calls}
<1>1. C \subseteq Nat /\ Len(cdrs) \in Nat /\ \A x \in C : x <= Len(cdrs)
  BY DEF TypeOK, TypeWorld, TypeRows, Row, RowsInv
<1>2. /\ MaxOf(C) \in Nat /\ \A x \in C : x <= MaxOf(C)
      /\ C # {} => MaxOf(C) \in C
      /\ C = {} => MaxOf(C) = 0
  <2>1. C = {} => MaxOf(C) = 0
    BY DEF MaxOf
  <2> QED
    BY <1>1, <2>1, MaxOfBound
<1>3. Loaded.pos = MaxOf(C)
  BY DEF Loaded
<1>4. Covered(calls, MaxOf(C), version)
  <2>1. CASE C = {}
    <3>1. MaxOf(C) = 0 /\ 1..0 = {}
      BY <1>2, <2>1
    <3> HIDE DEF C
    <3> QED
      BY <3>1 DEF Covered
  <2>2. CASE C # {}
    <3>1. PICK m \in calls : m.cdr = MaxOf(C)
      BY <1>2, <2>2
    <3> QED
      BY <3>1 DEF NoGap
  <2> QED
    BY <2>1, <2>2
<1> QED
  BY <1>2, <1>3, <1>4 DEF RowsOf

\* What grows with c keeps its order.
LEMMA SameOrder ==
  ASSUME NEW c \in Nat, NEW d \in Nat, NEW x \in Nat, NEW y \in Nat, NEW base \in Nat,
         c < d => x < y, d < c => y < x, c = d => x = y
  PROVE  (base + x < base + y => c < d) /\ (base + x = base + y => c = d)
OBVIOUS

\* The next CDRs are billed: their rows follow those that are there.
LEMMA BilledRowsOf ==
  ASSUME RecalculationAssumption, TypeOK, NEW rows \in SUBSET Row, NEW pos \in Nat, RowsOf(rows, pos, version),
         NEW last \in Nat, pos <= last, last <= Len(cdrs),
         NEW lastId \in Nat, \A r \in rows : r.id <= lastId, NEW ver \in Nat, ver <= version
  PROVE  RowsOf(rows \cup Billed(ToBill(pos + 1, last, ver), lastId, ver), last, version)
<1> DEFINE S == ToBill(pos + 1, last, ver)
           new == Billed(S, lastId, ver)
           rank(c) == Cardinality({d \in S : d <= c})
           row(c) == [id |-> lastId + rank(c), cdr |-> c, time |-> cdrs[c], ver |-> ver]
<1>1. new = {row(c) : c \in S} /\ S \subseteq (pos + 1)..last /\ S \subseteq Nat /\ IsFiniteSet(S)
  <2>1. S \subseteq (pos + 1)..last
    BY DEF ToBill
  <2>3. IsFiniteSet((pos + 1)..last)
    BY FS_Interval
  <2>2. IsFiniteSet(S)
    BY <2>1, <2>3, FS_Subset
  <2> QED
    BY <2>1, <2>2 DEF Billed
<1>2. new \subseteq Row /\ \A r \in new : r.id > lastId
  <2>1. pos + 1 \in Nat /\ pos + 1 > 0
    OBVIOUS
  <2> QED
    BY <2>1, BilledRows
<1>3. ASSUME NEW c \in S PROVE rank(c) \in Nat
  <2>1. IsFiniteSet({d \in S : d <= c})
    BY <1>1, FS_Subset
  <2> QED
    BY <2>1, FS_CardinalityType
<1>4. ASSUME NEW c \in S, NEW d \in S, c < d PROVE rank(c) < rank(d)
  <2> DEFINE C == {x \in S : x <= c}
             D == {x \in S : x <= d}
  <2>1. C \subseteq D /\ d \in D /\ d \notin C
    BY <1>1, <1>4
  <2>2. IsFiniteSet(D)
    BY <1>1, FS_Subset
  <2>3. Cardinality(C) < Cardinality(D)
    BY <2>1, <2>2, FS_Subset
  <2> QED
    BY <2>3
<1> HIDE DEF rank
<1>5. \A c \in S : row(c).id = lastId + rank(c) /\ row(c).cdr = c
  OBVIOUS
<1> HIDE DEF row, new, S
<1>6. Ordered(new)
  <2> SUFFICES ASSUME NEW r \in new, NEW s \in new
               PROVE  (r.id < s.id => r.cdr < s.cdr) /\ (r.id = s.id => r = s)
    BY DEF Ordered
  <2>1. PICK c \in S : r = row(c)
    BY <1>1
  <2>2. PICK d \in S : s = row(d)
    BY <1>1
  <2>3. rank(c) \in Nat /\ rank(d) \in Nat /\ c \in Nat /\ d \in Nat
    BY <1>1, <1>3
  <2>4. (c < d => rank(c) < rank(d)) /\ (d < c => rank(d) < rank(c))
    BY <1>4
  <2>6. r.id = lastId + rank(c) /\ r.cdr = c /\ s.id = lastId + rank(d) /\ s.cdr = d
    BY <1>5, <2>1, <2>2
  <2>7. (lastId + rank(c) < lastId + rank(d) => c < d) /\ (lastId + rank(c) = lastId + rank(d) => c = d)
    BY <2>3, <2>4, SameOrder, Zenon
  <2> QED
    BY <2>1, <2>2, <2>6, <2>7
<1>7. ASSUME NEW r \in new PROVE r.cdr \in Nat /\ pos < r.cdr /\ r.cdr <= last
  <2>1. PICK c \in S : r = row(c)
    BY <1>1
  <2>2. r.cdr = c /\ c \in Nat /\ c \in (pos + 1)..last
    BY <1>1, <1>5, <2>1
  <2>3. pos < c /\ c <= last
    BY <2>2
  <2> QED
    BY <2>2, <2>3
<1>8. Ordered(rows \cup new)
  <2>1. \A r \in rows, s \in new : r.id < s.id /\ r.cdr < s.cdr
    <3> SUFFICES ASSUME NEW r \in rows, NEW s \in new PROVE r.id < s.id /\ r.cdr < s.cdr
      OBVIOUS
    <3>1. r.id \in Nat /\ r.cdr \in Nat /\ s.id \in Nat /\ s.cdr \in Nat
      BY <1>2 DEF Row
    <3>2. r.id <= lastId /\ lastId < s.id /\ r.cdr <= pos /\ pos < s.cdr
      BY <1>2, <1>7 DEF RowsOf
    <3>3. r.id < s.id
      BY <3>1, <3>2
    <3>4. r.cdr < s.cdr
      BY <3>1, <3>2
    <3> QED
      BY <3>3, <3>4
  <2>2. \A r \in rows \cup new : r.id \in Nat
    BY <1>2 DEF Row
  <2>3. \A r \in rows, s \in new : ~ (s.id < r.id) /\ s.id # r.id
    BY <2>1, <2>2
  <2> QED
    BY <1>6, <2>1, <2>3 DEF RowsOf, Ordered
<1>9. \A r \in rows \cup new : r.cdr <= last
  <2>1. ASSUME NEW r \in rows PROVE r.cdr <= last
    <3>1. r.cdr \in Nat /\ r.cdr <= pos
      BY DEF RowsOf, Row
    <3> QED
      BY <3>1
  <2> QED
    BY <1>7, <2>1
<1>10. Covered(rows \cup new, last, version)
  <2> SUFFICES ASSUME NEW c \in 1..last, ~ Excused(c, version) PROVE \E r \in rows \cup new : r.cdr = c
    BY DEF Covered
  <2>1. CASE c <= pos
    <3>1. c \in 1..pos
      BY <2>1
    <3> QED
      BY <3>1 DEF RowsOf, Covered
  <2>2. CASE ~ (c <= pos)
    <3>1. c \in (pos + 1)..last
      BY <2>2
    <3>2. ver \in 0..version
      BY DEF RecalculationAssumption, TypeOK, TypeWorld
    <3>3. c \in S
      BY <3>1, <3>2 DEF S, ToBill, Excused
    <3> QED
      BY <1>1, <1>5, <3>3
  <2> QED
    BY <2>1, <2>2
<1> QED
  BY <1>8, <1>9, <1>10 DEF RowsOf, new, S

\* A newer version of the lists excuses no less.
LEMMA ExcusedKept ==
  ASSUME NEW w \in Nat, NEW x \in Nat, w <= x, NEW rows, NEW n
  PROVE  /\ Covered(rows, n, w) => Covered(rows, n, x)
         /\ NoGap(rows, w) => NoGap(rows, x)
         /\ RowsOf(rows, n, w) => RowsOf(rows, n, x)
<1>1. 0..w \subseteq 0..x
  OBVIOUS
<1>2. \A c : Excused(c, w) => Excused(c, x)
  BY <1>1 DEF Excused
<1>3. \A k : Covered(rows, k, w) => Covered(rows, k, x)
  BY <1>2 DEF Covered
<1> QED
  BY <1>3 DEF NoGap, RowsOf

\* Every step keeps the rows in order and without gaps.
LEMMA OnceStep ==
  ASSUME RecalculationAssumption, NeverBetween, GInv, GInv', OrderInv, OrderInv', OnceInv, Next
  PROVE  OnceInv'
<1>a. /\ run \in [pc : {"idle", "lock", "min", "delete", "stats", "done"} \cup Between,
                  date : Int, from : Nat, pos : Nat, lastId : Nat, ver : Nat]
      /\ live \in [pos : Nat, lastId : Nat, rows : SUBSET Row]
      /\ calls \subseteq Row /\ version \in Nat /\ version' \in Nat /\ Len(cdrs) \in Nat
  <2>1. TypeTask /\ TypeRows /\ TypeWorld /\ TypeWorld' /\ MaxVersion \in Nat
    BY DEF GInv, TypeOK, RecalculationAssumption
  <2>2. version \in Nat /\ version' \in Nat /\ Len(cdrs) \in Nat
    BY <2>1 DEF TypeWorld
  <2> QED
    BY <2>1, <2>2 DEF TypeTask, TypeRows
<1>b. Ordered(calls) /\ NoGap(calls, version)
  BY DEF OnceInv
<1>c. TypeOK /\ RowsInv
  BY DEF GInv
<1>d. RowsOf(calls, Loaded.pos, version) /\ Loaded.rows = {}
  BY <1>b, <1>c, LoadedRowsOf, LoadedBound
<1>e. \A r \in calls \cup live.rows : r.id \in Nat
  BY <1>a DEF Row
<1>1. CASE UNCHANGED <<calls, live, run>>
  <2>1. version <= version'
    BY <1>a, Frame DEF Insert, InsertCdr, Tick, ChangeLists
  <2>2. NoGap(calls, version') /\ \A rows, n : RowsOf(rows, n, version) => RowsOf(rows, n, version')
    BY <1>a, <1>b, <2>1, ExcusedKept
  <2> QED
    BY <1>1, <1>b, <2>2 DEF OnceInv
<1>2. CASE LiveBill
  <2> DEFINE c == live.pos + 1
             S == ToBill(c, c, version)
             new == Billed(S, live.lastId, version)
  <2>1. /\ c <= Len(cdrs) /\ live'.pos = c /\ live'.rows = live.rows \cup new
        /\ UNCHANGED <<calls, run, version>>
    BY <1>2 DEF LiveBill
  <2>2. ASSUME run.pc \notin {"load", "calc", "swap"}
        PROVE  RowsOf(calls \cup live.rows \cup new, c, version)
    <3>1. /\ RowsOf(calls \cup live.rows, live.pos, version) /\ \A r \in calls \cup live.rows : r.id <= live.lastId
      BY <2>2 DEF OnceInv, OrderInv
    <3>2. /\ calls \cup live.rows \in SUBSET Row /\ live.pos \in Nat /\ live.lastId \in Nat
          /\ c \in Nat /\ live.pos <= c
      BY <1>a
    <3>3. RowsOf((calls \cup live.rows) \cup Billed(ToBill(live.pos + 1, c, version), live.lastId, version), c, version)
      <4> HIDE DEF c
      <4>1. version <= version
        BY <1>a
      <4> QED
        BY <1>a, <1>c, <2>1, <3>1, <3>2, <4>1, BilledRowsOf
    <3> QED
      BY <3>3
  <2> HIDE DEF new, c
  <2>3. calls' \cup live'.rows = calls \cup live.rows \cup new
    BY <2>1
  <2> QED
    BY <1>b, <2>1, <2>2, <2>3 DEF OnceInv
<1>3. CASE LiveSave
  <2>1. PICK last \in Ids(live.rows) :
          /\ calls' = calls \cup Below(live.rows, last + 1)
          /\ live' = [live EXCEPT !.rows = @ \ Below(live.rows, last + 1)]
          /\ run' = run /\ run.pc \notin {"load", "calc", "swap"} /\ version' = version
    BY <1>3 DEF LiveSave, HoldsSaveLock
  <2>2. /\ calls' \cup live'.rows = calls \cup live.rows /\ live'.pos = live.pos
        /\ calls \cup live.rows \in SUBSET Row /\ live.pos \in Nat
    BY <1>a, <2>1 DEF Below
  <2>3. RowsOf(calls \cup live.rows, live.pos, version)
    BY <2>1 DEF OnceInv
  <2>4. Ordered(calls \cup live.rows) /\ NoGap(calls \cup live.rows, version)
    BY <2>2, <2>3, RowsOfNoGap
  <2>5. \A m \in calls', r \in live'.rows : m.id < r.id
    BY <2>1 DEF OrderInv
  <2>6. \A m \in calls', r \in calls \cup live.rows : r.id < m.id => r \in calls'
    BY <1>e, <2>2, <2>5
  <2>7. Ordered(calls') /\ NoGap(calls', version)
    BY <2>2, <2>4, <2>6, LowerRows
  <2> QED
    BY <2>1, <2>2, <2>3, <2>7 DEF OnceInv
<1>4. CASE TaskStart \/ TaskLock \/ TaskMinId \/ TaskCentral \/ TaskStats \/ TaskDone
  <2>1. /\ UNCHANGED <<calls, live, version>>
        /\ run.pc \notin {"load", "calc", "swap"} /\ run'.pc \notin {"load", "calc", "swap"}
    <3>1. CASE TaskStart
      BY <3>1, <1>a DEF TaskStart
    <3>2. CASE TaskLock
      BY <3>2, <1>a DEF TaskLock, Goto
    <3>3. CASE TaskMinId
      BY <3>3, <1>a DEF TaskMinId, Goto
    <3>4. CASE TaskCentral
      BY <3>4, <1>a DEF TaskCentral, Goto
    <3>5. CASE TaskDone
      BY <3>5 DEF TaskDone, RunIdle
    <3>6. CASE TaskStats
      BY <3>6, <1>a DEF TaskStats, Goto
    <3> QED
      BY <1>4, <3>1, <3>2, <3>3, <3>4, <3>5, <3>6
  <2> QED
    BY <1>b, <2>1 DEF OnceInv
<1>5. CASE TaskDelete
  <2>1. calls' = Below(calls, run.from) /\ run'.pc = "load" /\ version' = version
    BY <1>5, <1>a DEF TaskDelete, Goto
  <2>2. calls' \in SUBSET calls /\ \A m \in calls', r \in calls : r.id < m.id => r \in calls'
    BY <1>a, <1>e, <2>1 DEF Below
  <2>3. Ordered(calls') /\ NoGap(calls', version)
    BY <1>a, <1>b, <2>2, LowerRows
  <2> QED
    BY <2>1, <2>3 DEF OnceInv
<1>6. CASE TaskLoad
  <2>1. run'.pc = "calc" /\ run'.pos = Loaded.pos /\ UNCHANGED <<calls, version>>
    BY <1>6, <1>a DEF TaskLoad
  <2> QED
    BY <1>b, <1>d, <2>1 DEF OnceInv
<1>7. CASE TaskCalcPart
  <2> DEFINE last == IF run.pos + CdrsPartitionSize < Len(cdrs)
                     THEN run.pos + CdrsPartitionSize ELSE Len(cdrs)
             S == ToBill(run.pos + 1, last, run.ver)
             new == Billed(S, run.lastId, run.ver)
  <2>1. /\ run.pc = "calc" /\ run.pos < Len(cdrs) /\ calls' = calls \cup new /\ version' = version
        /\ run' = [run EXCEPT !.pos = last, !.lastId = @ + Cardinality(S)]
    BY <1>7 DEF TaskCalcPart
  <2>2. /\ CdrsPartitionSize \in Nat /\ run.pos \in Nat /\ run.lastId \in Nat /\ run.ver \in Nat /\ run.ver <= version
    BY <1>a DEF RecalculationAssumption, GInv, TypeOK, NobodyAhead
  <2>3. last \in Nat /\ run.pos <= last /\ last <= Len(cdrs)
    <3>1. CASE run.pos + CdrsPartitionSize < Len(cdrs)
      BY <1>a, <2>1, <2>2, <3>1
    <3>2. CASE ~ (run.pos + CdrsPartitionSize < Len(cdrs))
      BY <1>a, <2>1, <2>2, <3>2
    <3> QED
      BY <3>1, <3>2
  <2> HIDE DEF last
  <2>4. RowsOf(calls, run.pos, version) /\ \A r \in calls : r.id <= run.lastId
    BY <2>1 DEF OnceInv, OrderInv
  <2>5. RowsOf(calls', last, version)
    BY <1>a, <1>c, <2>1, <2>2, <2>3, <2>4, BilledRowsOf
  <2> HIDE DEF S, new
  <2>6. run'.pc = "calc" /\ run'.pos = last
    BY <1>a, <2>1
  <2>7. calls' \in SUBSET Row
    BY DEF GInv, TypeOK, TypeRows
  <2>8. Ordered(calls') /\ NoGap(calls', version)
    BY <2>3, <2>5, <2>7, RowsOfNoGap
  <2> QED
    BY <2>1, <2>5, <2>6, <2>8 DEF OnceInv
<1>8. CASE TaskCalcEnds
  <2>1. run'.pc = "swap" /\ UNCHANGED <<calls, version>>
    BY <1>8, <1>a DEF TaskCalcEnds, Goto
  <2> QED
    BY <1>b, <2>1 DEF OnceInv
<1>9. CASE TaskSwap \/ CrashRestart
  <2>1. live' = Loaded /\ run'.pc \in {"central", "idle"} /\ UNCHANGED <<calls, version>>
    BY <1>9, <1>a DEF TaskSwap, Goto, CrashRestart, RunIdle
  <2>2. calls' \cup live'.rows = calls
    BY <1>d, <2>1
  <2> QED
    BY <1>b, <1>d, <2>1, <2>2 DEF OnceInv
<1>10. CASE TaskFails
  <2>1. run.pc \notin Between /\ UNCHANGED <<calls, live, version>> /\ run'.pc = "idle"
    BY <1>10 DEF TaskFails, Fault, NeverBetween, RunIdle
  <2> QED
    BY <1>b, <2>1 DEF OnceInv, Between
<1>11. CASE World \/ Sync \/ CopyFails \/ SyncFails
  BY <1>1, <1>11 DEF World, Tick, InsertCdr, ChangeLists, OrderTask, Sync, SyncBegin, CopyPart,
     CopyNothing, CopyFails, SyncFails
<1> QED
  BY <1>2, <1>3, <1>4, <1>5, <1>6, <1>7, <1>8, <1>9, <1>10, <1>11 DEF Next, Live, TaskSteps

\* As long as no recalculation fails between its deletion in the region and
\* its deletion in the central database, every CDR the live container has
\* passed has exactly one row and every id is used once, however often
\* recalculations are ordered, fail and are repeated.
THEOREM BilledOnceAlways ==
  ASSUME NeverBetween
  PROVE  Spec => []BilledOnce
<1> DEFINE Inv == GInv /\ OrderInv /\ OnceInv
<1>1. Init => Inv
  <2>1. Init => GInv
    BY RecalculationAssumption, GInvInit
  <2>2. Init => OrderInv
    BY DEF Init, OrderInv
  <2>3. Init => OnceInv
    <3>1. 1..0 = {}
      OBVIOUS
    <3> QED
      BY <3>1 DEF Init, RunIdle, OnceInv, Ordered, NoGap, RowsOf, Covered
  <2> QED
    BY <2>1, <2>2, <2>3
<1>2. ASSUME Inv, [Next]_vars
      PROVE  Inv'
  <2>1. GInv'
    BY <1>2, RecalculationAssumption, GInvStep
  <2>2. CASE Next
    BY <1>2, <2>1, <2>2, RecalculationAssumption, OrderStep, OnceStep
  <2>3. CASE UNCHANGED vars
    BY <1>2, <2>1, <2>3 DEF vars, OrderInv, OnceInv
  <2> QED
    BY <1>2, <2>2, <2>3
<1>3. Inv => BilledOnce
  <2> SUFFICES ASSUME Inv, run.pc \notin Between
               PROVE  LET rows == calls \cup live.rows IN
                        /\ \A r, s \in rows : r.id = s.id \/ r.cdr = s.cdr => r = s
                        /\ \A c \in 1..live.pos :
                             (\E r \in rows : r.cdr = c) \/ (\E v \in 0..version : c \in Unbilled[v])
    BY DEF BilledOnce
  <2>1. RowsOf(calls \cup live.rows, live.pos, version)
    BY DEF OnceInv, Between
  <2>2. \A r \in calls \cup live.rows : r.id \in Nat /\ r.cdr \in Nat
    BY DEF GInv, TypeOK, TypeRows, Row
  <2>3. ASSUME NEW r \in calls \cup live.rows, NEW s \in calls \cup live.rows, r.id = s.id \/ r.cdr = s.cdr
        PROVE  r = s
    <3>1. /\ r.id < s.id => r.cdr < s.cdr
          /\ s.id < r.id => s.cdr < r.cdr
          /\ r.id = s.id => r = s
      BY <2>1 DEF RowsOf, Ordered
    <3> QED
      BY <2>2, <2>3, <3>1
  <2> QED
    BY <2>1, <2>3 DEF RowsOf, Covered, Excused
<1> QED
  BY <1>1, <1>2, <1>3, PTL DEF Spec
=============================================================================
