--------------------------- MODULE Recalculation ---------------------------
(***************************************************************************)
(* The recalculation of a month (TaskRecalc, run by the thread "tasks")    *)
(* against the threads it has to shut out: "fetch_cdr", "runtime" and      *)
(* "save", which go on billing new calls into the live container, and      *)
(* "sync_calls", which copies calls_raw to the central database.           *)
(*                                                                         *)
(* A CDR is billed to one row here, numbered by the order of billing.  The *)
(* row remembers the version of the price lists it was billed with, which  *)
(* is what a recalculation is for.  The steps of the live pipeline are the *)
(* subject of BillingPipeline: here one step bills a CDR, another saves a  *)
(* partition.                                                              *)
(*                                                                         *)
(* Time is counted in half months, so that the twelve hours by which a     *)
(* recalculation reaches into the month before are a time of their own.    *)
(***************************************************************************)
EXTENDS Integers, Sequences, FiniteSets

CONSTANTS
  Unbilled,           \* per version of the lists: the CDRs not billed, as technical
  CdrsPartitionSize,  \* CDRS_PARTITION_SIZE, CdrManager.h
  CallsMaxQueueSize,  \* CALLS_MAX_QUEUE_SIZE, CallsManager.h
  CopyLimit,          \* the limit ThreadSyncCalls::run copies with
  MaxCdr,             \* bound: CDRs ever written
  MaxTime,            \* bound: the clock
  MaxVersion,         \* bound: versions of the price lists are 0..MaxVersion
  MaxTasks,           \* bound: tasks ever ordered
  FaultKinds,         \* the kinds of fault that may happen
  MaxFaults           \* bound: faults in one behaviour

ASSUME RecalculationAssumption ==
  /\ {MaxCdr, MaxTime, MaxVersion, MaxTasks, MaxFaults} \subseteq Nat
  /\ {CdrsPartitionSize, CallsMaxQueueSize, CopyLimit} \subseteq Nat \ {0}
  /\ Unbilled \in [0..MaxVersion -> SUBSET Nat]
  /\ FaultKinds \subseteq {"outside", "between", "copy", "sync", "crash"}

VARIABLES
  now,      \* the clock
  cdrs,     \* calls_cdr.cdr: the connect_time of each, in the order of their ids
  version,  \* the version of the price lists
  calls,    \* calls_raw.calls_raw of the region
  live,     \* the live container: cdrs' lastId, calls' lastId, calls not saved
  task,     \* the row of billing.tasks, and the version it was ordered at
  run,      \* where TaskRecalc::run is and what it holds
  sync,     \* where ThreadSyncCalls::run is, and the months it has still to copy
  central,  \* calls_raw.calls_raw of the central database, this server's rows
  count     \* how often each bounded thing has happened

vars == <<now, cdrs, version, calls, live, task, run, sync, central, count>>

-----------------------------------------------------------------------------
(* Data.                                                                   *)

Month(time) == time \div 2

Row == [id : Nat, cdr : Nat, time : Int, ver : Nat]

MaxOf(S) == IF S = {} THEN 0 ELSE CHOOSE m \in S : \A x \in S : x <= m
Ids(rows) == {r.id : r \in rows}
OfMonth(rows, m) == {r \in rows : Month(r.time) = m}
Below(rows, id) == {r \in rows : r.id < id}

\* DataBillingContainer::loadAll: the container starts behind the last row.
LoadedKeepsCalls ==  \* mutant: the calls in memory are kept
  [pos |-> MaxOf({r.cdr : r \in calls}), lastId |-> MaxOf(Ids(calls)), rows |-> live.rows]
Loaded == [pos |-> MaxOf({r.cdr : r \in calls}), lastId |-> MaxOf(Ids(calls)), rows |-> {}]

\* Billing::calc on the CDRs first..last with lists of version ver: the ones
\* that give a row, and the rows, numbered in the order of the CDRs.
ToBill(first, last, ver) == (first..last) \ Unbilled[ver]
Billed(S, lastId, ver) ==
  {[id   |-> lastId + Cardinality({d \in S : d <= c}),
    cdr  |-> c, time |-> cdrs[c], ver |-> ver] : c \in S}

RunIdle == [pc |-> "idle", date |-> 0, from |-> 0, pos |-> 0, lastId |-> 0, ver |-> 0]
NoTask == [ordered |-> "none", asked |-> 0]
SyncIdle == [pc |-> "idle", months |-> <<>>]

\* From the deletion in the region to the deletion in the central database.
Between == {"load", "calc", "swap", "central"}
HoldsSaveLock == run.pc \in {"lock", "min", "delete", "load", "calc", "swap"}
HoldsSyncLock == run.pc \in {"min", "delete", "stats"} \cup Between

Times(what, max) == count[what] < max /\ count' = [count EXCEPT ![what] = @ + 1]
Fault(kind) == kind \in FaultKinds /\ Times("faults", MaxFaults)

-----------------------------------------------------------------------------
(* The world: time passes, calls end, the price lists change, a            *)
(* recalculation is ordered.                                               *)

Tick ==
  /\ now < MaxTime
  /\ now' = now + 1
  /\ UNCHANGED <<cdrs, version, calls, live, task, run, sync, central, count>>

\* A call that has ended was connected some time ago.
InsertCdr(time) ==
  /\ Len(cdrs) < MaxCdr
  /\ cdrs' = Append(cdrs, time)
  /\ UNCHANGED <<now, version, calls, live, task, run, sync, central, count>>

ChangeLists ==
  /\ version < MaxVersion
  /\ version' = version + 1
  /\ UNCHANGED <<now, cdrs, calls, live, task, run, sync, central, count>>

OrderTask(kind) ==
  /\ task.ordered = "none"
  /\ Times("tasks", MaxTasks)
  /\ task' = [task EXCEPT !.ordered = kind, !.asked = version]
  /\ UNCHANGED <<now, cdrs, version, calls, live, run, sync, central>>

-----------------------------------------------------------------------------
(* The live threads.  "fetch_cdr" and "runtime" are shut out only while    *)
(* the live container is loaded again, "save" from the first step on.      *)

LiveBill ==
  LET c == live.pos + 1
      S == ToBill(c, c, version)
  IN  /\ c <= Len(cdrs)
      /\ Cardinality(live.rows) < CallsMaxQueueSize
      /\ live' = [pos    |-> c,
                  lastId |-> live.lastId + Cardinality(S),
                  rows   |-> live.rows \cup Billed(S, live.lastId, version)]
      /\ UNCHANGED <<now, cdrs, version, calls, task, run, sync, central, count>>

\* A partition is saved; the primary key of a month's table refuses a row
\* whose id is there.
LiveSave ==
  /\ ~ HoldsSaveLock
  /\ \E last \in Ids(live.rows) :
       LET part == Below(live.rows, last + 1) IN
       /\ \A r \in part, s \in calls : r.id = s.id => Month(r.time) # Month(s.time)
       /\ calls' = calls \cup part
       /\ live' = [live EXCEPT !.rows = @ \ part]
  /\ UNCHANGED <<now, cdrs, version, task, run, sync, central, count>>

-----------------------------------------------------------------------------
(* Thread "tasks": TaskRecalc::run, one action per numbered status.        *)

\* The first moment of the month the task names, less twelve hours.
DateFrom(kind) ==
  LET month == IF kind = "current" THEN Month(now) ELSE Month(now) - 1
  IN  2 * month - 1

Goto(pc) == run' = [run EXCEPT !.pc = pc]

TaskStart ==
  /\ task.ordered # "none"
  /\ run.pc = "idle"
  /\ run' = [run EXCEPT !.pc = "lock", !.date = DateFrom(task.ordered)]
  /\ UNCHANGED <<now, cdrs, version, calls, live, task, sync, central, count>>

TaskLock ==
  /\ run.pc = "lock"
  /\ sync.pc = "idle"
  /\ Goto("min")
  /\ UNCHANGED <<now, cdrs, version, calls, live, task, sync, central, count>>

\* select min(id) from calls_raw where connect_time >= date_from; with nothing
\* to do the locks are released and the task is done.
TaskMinId ==
  LET due == {r \in calls : r.time >= run.date} IN
  /\ run.pc = "min"
  /\ \/ due = {} /\ Goto("done")
     \/ \E r \in due :
          /\ \A s \in due : r.id <= s.id
          /\ run' = [run EXCEPT !.pc = "delete", !.from = r.id]
  /\ UNCHANGED <<now, cdrs, version, calls, live, task, sync, central, count>>

TaskDeleteAfter ==  \* mutant: "id > from"
  /\ run.pc = "delete"
  /\ calls' = Below(calls, run.from + 1)
  /\ Goto("load")
  /\ UNCHANGED <<now, cdrs, version, live, task, sync, central, count>>
TaskDelete ==
  /\ run.pc = "delete"
  /\ calls' = Below(calls, run.from)
  /\ Goto("load")
  /\ UNCHANGED <<now, cdrs, version, live, task, sync, central, count>>

TaskLoad ==
  /\ run.pc = "load"
  /\ run' = [run EXCEPT !.pc = "calc", !.ver = version,
                        !.pos = Loaded.pos, !.lastId = Loaded.lastId]
  /\ UNCHANGED <<now, cdrs, version, calls, live, task, sync, central, count>>

\* One round of the loop: a page of CDRs is loaded, billed and saved.
TaskCalcPart ==
  LET last == IF run.pos + CdrsPartitionSize < Len(cdrs)
              THEN run.pos + CdrsPartitionSize ELSE Len(cdrs)
      S == ToBill(run.pos + 1, last, run.ver)
  IN  /\ run.pc = "calc"
      /\ run.pos < Len(cdrs)
      /\ calls' = calls \cup Billed(S, run.lastId, run.ver)
      /\ run' = [run EXCEPT !.pos = last, !.lastId = @ + Cardinality(S)]
      /\ UNCHANGED <<now, cdrs, version, live, task, sync, central, count>>

TaskCalcEnds ==
  /\ run.pc = "calc"
  /\ run.pos >= Len(cdrs)
  /\ Goto("swap")
  /\ UNCHANGED <<now, cdrs, version, calls, live, task, sync, central, count>>

\* With fetch_cdr, runtime and save shut out the live container is loaded.
TaskSwap ==
  /\ run.pc = "swap"
  /\ live' = Loaded
  /\ Goto("central")
  /\ UNCHANGED <<now, cdrs, version, calls, task, sync, central, count>>

TaskCentralSkipped ==  \* mutant: nothing is deleted
  /\ run.pc = "central"
  /\ Goto("stats")
  /\ UNCHANGED <<now, cdrs, version, calls, live, task, sync, central, count>>
TaskCentral ==
  /\ run.pc = "central"
  /\ central' = Below(central, run.from)
  /\ Goto("stats")
  /\ UNCHANGED <<now, cdrs, version, calls, live, task, sync, count>>

\* The aggregates and the statistics in the central database are replaced, one
\* transaction each; the end of run releases the lock of "sync_calls".
TaskStats ==
  /\ run.pc = "stats"
  /\ Goto("done")
  /\ UNCHANGED <<now, cdrs, version, calls, live, task, sync, central, count>>

\* ThreadTasks::run deletes the task.
TaskDoneKept ==  \* mutant: the row stays
  /\ run.pc = "done"
  /\ run' = RunIdle
  /\ UNCHANGED <<now, cdrs, version, calls, live, task, sync, central, count>>
TaskDone ==
  /\ run.pc = "done"
  /\ task' = NoTask
  /\ run' = RunIdle
  /\ UNCHANGED <<now, cdrs, version, calls, live, sync, central, count>>

\* A statement, setStatus's included, throws: the locks are released, and the
\* task is run from its beginning five seconds later.
TaskFails ==
  /\ run.pc # "idle"
  /\ Fault(IF run.pc \in Between THEN "between" ELSE "outside")
  /\ run' = RunIdle
  /\ UNCHANGED <<now, cdrs, version, calls, live, task, sync, central>>

-----------------------------------------------------------------------------
(* Thread "sync_calls".                                                    *)

Unsent == {r \in calls : r.id > MaxOf(Ids(central))}

\* getCurrentMonths: the month of the first row that is not there, and those
\* around it.
SyncBegin ==
  /\ ~ HoldsSyncLock
  /\ sync.pc = "idle"
  /\ \E r \in Unsent :
       /\ \A s \in Unsent : r.id <= s.id
       /\ sync' = [pc |-> "copy", months |-> [i \in 1..3 |-> Month(r.time) - 2 + i]]
  /\ UNCHANGED <<now, cdrs, version, calls, live, task, run, central, count>>

MissingAnyMonth(m) ==  \* mutant: "above the last id of all months"
  {r \in OfMonth(calls, m) : r.id > MaxOf(Ids(central))}
Missing(m) ==
  {r \in OfMonth(calls, m) : r.id > MaxOf(Ids(OfMonth(central, m)))}

NextMonth ==
  sync' = IF Len(sync.months) = 1 THEN SyncIdle ELSE [sync EXCEPT !.months = Tail(@)]

\* One COPY of at most CopyLimit rows, in the order of their ids.
CopyPart ==
  LET missing == Missing(Head(sync.months)) IN
  /\ sync.pc = "copy"
  /\ missing # {}
  /\ central' = central \cup
       {r \in missing : Cardinality({s \in missing : s.id < r.id}) < CopyLimit}
  /\ UNCHANGED <<now, cdrs, version, calls, live, task, run, sync, count>>

CopyNothing ==
  /\ sync.pc = "copy"
  /\ Missing(Head(sync.months)) = {}
  /\ NextMonth
  /\ UNCHANGED <<now, cdrs, version, calls, live, task, run, central, count>>

\* COPY fails: copyCallsPart catches it, and the next month has its turn.
CopyFails ==
  /\ sync.pc = "copy"
  /\ Missing(Head(sync.months)) # {}
  /\ Fault("copy")
  /\ NextMonth
  /\ UNCHANGED <<now, cdrs, version, calls, live, task, run, central>>

\* Another query fails: run is left and the lock released.
SyncFails ==
  /\ sync.pc = "copy"
  /\ Fault("sync")
  /\ sync' = SyncIdle
  /\ UNCHANGED <<now, cdrs, version, calls, live, task, run, central>>

-----------------------------------------------------------------------------
\* The daemon dies and is started again.
CrashRestart ==
  /\ run.pc \in Between => "between" \in FaultKinds
  /\ Fault("crash")
  /\ live' = Loaded
  /\ run' = RunIdle
  /\ sync' = SyncIdle
  /\ UNCHANGED <<now, cdrs, version, calls, task, central>>

Init ==
  /\ now = 3  \* the second half of a month
  /\ cdrs = <<>>
  /\ version = 0
  /\ calls = {}
  /\ live = [pos |-> 0, lastId |-> 0, rows |-> {}]
  /\ task = NoTask
  /\ run = RunIdle
  /\ sync = SyncIdle
  /\ central = {}
  /\ count = [tasks |-> 0, faults |-> 0]

World ==
  \/ Tick
  \/ \E time \in {now - 1, now} : InsertCdr(time)
  \/ ChangeLists
  \/ \E kind \in {"current", "last"} : OrderTask(kind)

Live == LiveBill \/ LiveSave

TaskSteps ==
  \/ TaskStart \/ TaskLock \/ TaskMinId \/ TaskDelete \/ TaskLoad \/ TaskCalcPart
  \/ TaskCalcEnds \/ TaskSwap \/ TaskCentral \/ TaskStats \/ TaskDone

Sync == SyncBegin \/ CopyPart \/ CopyNothing

Next == World \/ Live \/ TaskSteps \/ TaskFails \/ Sync \/ CopyFails \/ SyncFails \/ CrashRestart

\* Every thread's run is called again and again.  The task waits for the lock
\* of "sync_calls" in mutex::lock, and that thread sleeps without it between
\* its runs: the task gets it in the end.
Fairness ==
  /\ WF_vars(LiveBill) /\ WF_vars(LiveSave)
  /\ WF_vars(TaskSteps) /\ SF_vars(TaskLock)
  /\ WF_vars(Sync)

Spec == Init /\ [][Next]_vars
FairSpec == Spec /\ Fairness

-----------------------------------------------------------------------------
(* Properties.                                                             *)

TypeWorld == now \in Nat /\ version \in 0..MaxVersion /\ cdrs \in Seq(Int)
TypeRows ==
  /\ calls \subseteq Row /\ central \subseteq Row
  /\ live \in [pos : Nat, lastId : Nat, rows : SUBSET Row]
TypeTask ==
  /\ task \in [ordered : {"none", "current", "last"}, asked : Nat]
  /\ run \in [pc : {"idle", "lock", "min", "delete", "stats", "done"} \cup Between,
              date : Int, from : Nat, pos : Nat, lastId : Nat, ver : Nat]
TypeSync == sync \in {SyncIdle} \cup [pc : {"copy"}, months : Seq(Int) \ {<<>>}]
TypeCount == count \in [tasks : 0..MaxTasks, faults : 0..MaxFaults]
NobodyAhead ==
  /\ live.pos <= Len(cdrs) /\ run.pos <= Len(cdrs)
  /\ task.asked <= version /\ run.ver <= version

\* Every variable has its type; nobody is ahead of the CDRs or of the lists.
TypeOK == TypeWorld /\ TypeRows /\ TypeTask /\ TypeSync /\ TypeCount /\ NobodyAhead

\* A row that a recalculation under way does not replace.
Kept(r) == run.pc \in Between => r.id < run.from

\* In every month the central database has the rows of the region up to some
\* id, all of them and as they are now: no copy leaves one out, and no
\* recalculation leaves a row there that the region has billed again.
CentralIsPrefix ==
  \A s \in central : Kept(s) =>
    /\ s \in calls
    /\ \A r \in calls : Month(r.time) = Month(s.time) /\ r.id <= s.id => r \in central

\* Whenever no recalculation is between its two deletions, the CDRs the live
\* container has passed have one row each, in the region or waiting to be
\* saved, unless some version of the lists made them technical; and no id
\* is used twice.
BilledOnce ==
  run.pc \notin Between =>
    LET rows == calls \cup live.rows IN
    /\ \A r, s \in rows : r.id = s.id \/ r.cdr = s.cdr => r = s
    /\ \A c \in 1..live.pos :
         (\E r \in rows : r.cdr = c) \/ (\E v \in 0..version : c \in Unbilled[v])

\* When the recalculated data take the place of the live ones, no call of the
\* recalculated time is left with a price from before the order, in the
\* region or in memory.
Repriced ==
  [][run.pc = "swap" /\ run'.pc = "central" =>
       \A r \in calls' \cup live'.rows : r.time >= run.date => r.ver >= task.asked]_vars

\* The newest call reaches the central database.
NewestReachesCentral == <>[](MaxOf(Ids(central)) = MaxOf(Ids(calls)))

\* A task that is ordered is carried out.
TaskEnds == task.ordered # "none" ~> task.ordered = "none"
=============================================================================
