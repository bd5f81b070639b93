-------------------------- MODULE BillingPipeline --------------------------
(***************************************************************************)
(* The billing pipeline of the regional daemon: the threads "fetch_cdr",   *)
(* "runtime" and "save", the in-memory container they share and the        *)
(* regional PostgreSQL database.                                           *)
(*                                                                         *)
(*   calls_cdr.cdr --fetch--> queue --calc--> parts --save--> calls_raw    *)
(*                                                                         *)
(* A CDR is its id.  Every CDR that is not a technical leg of a mega-trunk *)
(* gives two calls, an originating and a terminating one.  Calls collect   *)
(* in partitions; "save" writes the first partition, with the account      *)
(* statistics as they stood when that partition was last added to, in one  *)
(* transaction.  Account statistics are abstracted to one running count of *)
(* the calls charged.                                                      *)
(***************************************************************************)
EXTENDS Naturals, Sequences, FiniteSets

CONSTANTS
  Technical,           \* ids of the CDRs StateMegaTrunk marks as technical
  CdrsPartitionSize,   \* CDRS_PARTITION_SIZE, CdrManager.h
  CdrsMaxQueueSize,    \* CDRS_MAX_QUEUE_SIZE, CdrManager.h
  CallsPartitionSize,  \* CALLS_PARTITION_SIZE, CallsManager.h
  CallsMaxQueueSize,   \* CALLS_MAX_QUEUE_SIZE, CallsManager.h
  MaxCdr,              \* bound: CDRs ever written
  FaultKinds,          \* the kinds of fault that may happen
  MaxFaults            \* bound: faults in one behaviour

AllFaultKinds == {"late", "crash", "outage", "reconnect", "lostReply"}

ASSUME PipelineAssumption ==
  /\ Technical \subseteq Nat
  /\ CdrsPartitionSize \in Nat \ {0}
  /\ CdrsMaxQueueSize \in Nat \ {0}
  /\ CallsPartitionSize \in Nat \ {0}
  /\ CallsMaxQueueSize \in Nat \ {0}
  /\ MaxCdr \in Nat
  /\ FaultKinds \subseteq AllFaultKinds
  /\ MaxFaults \in Nat

VARIABLES
  cdrCount,        \* calls_cdr.cdr: ids 1..cdrCount have been allocated
  held,            \* allocated ids whose inserting transaction is still open
  queue,           \* CdrManager::queue
  cdrLastId,       \* CdrManager::lastId
  fetchPc,         \* "idle" or "push": the query of loadPart has been answered
  fetchRes,        \* the answer of that query
  calcPc,          \* "idle", "orig", "term" or "remove"
  lastCallId,      \* the local of Billing::calc
  realtimeLastId,  \* CallsManager::realtimeLastId
  storedLastId,    \* CallsManager::storedLastId
  parts,           \* CallsManager::realtimeCallsParts with the statistics' parts
  statsSum,        \* the statistics in memory: calls charged so far
  savePc,          \* "idle" or the statement DataBillingContainer::save is at
  saveBuf,         \* the queries it has prepared
  server,          \* the database: committed tables and save's session
  faults           \* the faults so far: how many, and of which kinds

fetchVars  == <<fetchPc, fetchRes>>
cdrVars    == <<queue, cdrLastId>>
calcVars   == <<calcPc, lastCallId>>
callVars   == <<realtimeLastId, parts, statsSum>>
saveVars   == <<savePc, saveBuf>>
vars == <<cdrCount, held, cdrVars, fetchVars, calcVars, callVars,
          storedLastId, saveVars, server, faults>>

-----------------------------------------------------------------------------
(* Data.                                                                   *)

\* A row of calls_raw, reduced to its keys.
Leg == [id : Nat, peer_id : Nat, cdr_id : Nat, leg : {"orig", "term"}]

\* A partition: the calls (their order is the order of their ids) and the
\* statistics copied into the same partition by StatsAccountManager::add.
Part == [calls : SUBSET Leg, stats : Nat]
EmptyPart == [calls |-> {}, stats |-> 0]

Server == [calls : SUBSET Leg, stats : Nat,          \* committed
           inTx : BOOLEAN,                           \* BEGIN is in force
           txCalls : SUBSET Leg, txStats : Nat]      \* as the transaction sees it

\* SELECT MAX(column): 0 stands for the NULL of an empty table (get_ll).
MaxOrZero(S) == IF S = {} THEN 0 ELSE CHOOSE m \in S : \A x \in S : x <= m
MaxId(calls) == MaxOrZero({c.id : c \in calls})
MaxCdrIdForgotten(calls) == 0  \* mutant: the position is not loaded
MaxCdrIdPlusOne(calls) == MaxOrZero({c.cdr_id : c \in calls}) + 1  \* mutant
MaxCdrId(calls) == MaxOrZero({c.cdr_id : c \in calls})

MemoryCalls == UNION {parts[i].calls : i \in 1..Len(parts)}
callsQueueSize == Cardinality(MemoryCalls)

Visible == (1..cdrCount) \ held

Fault(kind) ==
  /\ kind \in FaultKinds
  /\ faults.count < MaxFaults
  /\ faults' = [count |-> faults.count + 1, kinds |-> faults.kinds \cup {kind}]

-----------------------------------------------------------------------------
(* calls_cdr.cdr is written by insert_cdr, called by the RADIUS accounting *)
(* and by the CDR parser: the id comes from a sequence when the row is     *)
(* built, the row is visible when its transaction commits.                 *)

InsertCdr ==
  /\ cdrCount < MaxCdr
  /\ cdrCount' = cdrCount + 1
  /\ UNCHANGED <<held, cdrVars, fetchVars, calcVars, callVars, storedLastId,
                 saveVars, server, faults>>

InsertCdrLate ==
  /\ cdrCount < MaxCdr
  /\ Fault("late")
  /\ cdrCount' = cdrCount + 1
  /\ held' = held \cup {cdrCount + 1}
  /\ UNCHANGED <<cdrVars, fetchVars, calcVars, callVars, storedLastId,
                 saveVars, server>>

CommitCdr(c) ==
  /\ held' = held \ {c}
  /\ UNCHANGED <<cdrCount, cdrVars, fetchVars, calcVars, callVars, storedLastId,
                 saveVars, server, faults>>

-----------------------------------------------------------------------------
(* Thread "fetch_cdr": CdrManager::loadPart.  The query is answered        *)
(* outside the lock, its rows are queued under it.                         *)

\* page is what "where id > lastId order by id limit n" returns.
IsPageFrom(page, lastId, n) ==  \* mutant: "id >= lastId"
  /\ \A i, j \in 1..Len(page) : i < j => page[i] < page[j]
  /\ \A i \in 1..Len(page) : page[i] >= lastId
  /\ \A c \in Visible : c >= lastId =>
        \/ \E i \in 1..Len(page) : page[i] = c
        \/ Len(page) = n /\ c > page[n]
IsPage(page, lastId, n) ==
  /\ \A i, j \in 1..Len(page) : i < j => page[i] < page[j]
  /\ \A i \in 1..Len(page) : page[i] > lastId
  /\ \A c \in Visible : c > lastId =>
        \/ \E i \in 1..Len(page) : page[i] = c
        \/ Len(page) = n /\ c > page[n]

FetchQuery ==
  /\ fetchPc = "idle"
  /\ Len(queue) < CdrsMaxQueueSize
  /\ \E n \in 1..CdrsPartitionSize : \E page \in [1..n -> Visible] :
        /\ IsPage(page, cdrLastId, CdrsPartitionSize)
        /\ fetchRes' = page
  /\ fetchPc' = "push"
  /\ UNCHANGED <<cdrCount, held, cdrVars, calcVars, callVars, storedLastId,
                 saveVars, server, faults>>

FetchPush ==
  /\ fetchPc = "push"
  /\ queue' = queue \o fetchRes
  /\ cdrLastId' = fetchRes[Len(fetchRes)]
  /\ fetchPc' = "idle"
  /\ fetchRes' = <<>>
  /\ UNCHANGED <<cdrCount, held, calcVars, callVars, storedLastId, saveVars,
                 server, faults>>

-----------------------------------------------------------------------------
(* Thread "runtime": one iteration of the loop of Billing::calc.           *)

CallsQueueHasRoom == callsQueueSize < CallsMaxQueueSize

CalcFirstCdr ==
  /\ calcPc = "idle"
  /\ CallsQueueHasRoom
  /\ queue # <<>>
  /\ lastCallId' = realtimeLastId
  /\ calcPc' = IF Head(queue) \in Technical THEN "remove" ELSE "orig"
  /\ UNCHANGED <<cdrCount, held, cdrVars, fetchVars, callVars, storedLastId,
                 saveVars, server, faults>>

OrigCallSwapped(cdr, last) == [id |-> last + 2, peer_id |-> last + 1,  \* mutant
                               cdr_id |-> cdr, leg |-> "orig"]
OrigCall(cdr, last) == [id |-> last + 1, peer_id |-> last + 2,
                        cdr_id |-> cdr, leg |-> "orig"]
TermCall(cdr, last) == [id |-> last + 2, peer_id |-> last + 1,
                        cdr_id |-> cdr, leg |-> "term"]

\* What StatsAccountManager::add leaves in the last partition.
StatsCopyBeforeAdd == statsSum  \* mutant: the copy is taken before the addition
StatsCopy == statsSum + 1

\* The partitions after a call: the call and the new statistics go into the
\* last one, and a new one is opened when that one is full.
PartsWith(call) ==
  LET n     == Len(parts)
      grown == [calls |-> parts[n].calls \cup {call}, stats |-> StatsCopy]
      added == [parts EXCEPT ![n] = grown]
  IN  IF Cardinality(grown.calls) >= CallsPartitionSize
      THEN Append(added, EmptyPart)
      ELSE added

addCall(call) ==
  /\ parts' = PartsWith(call)
  /\ statsSum' = statsSum + 1
  /\ realtimeLastId' = call.id

CalcAddOrig ==
  /\ calcPc = "orig"
  /\ addCall(OrigCall(Head(queue), lastCallId))
  /\ calcPc' = "term"
  /\ UNCHANGED <<cdrCount, held, cdrVars, fetchVars, lastCallId, storedLastId,
                 saveVars, server, faults>>

CalcAddTerm ==
  /\ calcPc = "term"
  /\ addCall(TermCall(Head(queue), lastCallId))
  /\ calcPc' = "remove"
  /\ UNCHANGED <<cdrCount, held, cdrVars, fetchVars, lastCallId, storedLastId,
                 saveVars, server, faults>>

CalcRemoveCdr ==
  /\ calcPc = "remove"
  /\ queue' = Tail(queue)
  /\ calcPc' = "idle"
  /\ lastCallId' = 0
  /\ UNCHANGED <<cdrCount, held, cdrLastId, fetchVars, callVars, storedLastId,
                 saveVars, server, faults>>

-----------------------------------------------------------------------------
(* The database as BDb::exec sees it.  A server state s runs one statement *)
(* of save; statements take effect at once outside a transaction.          *)

Writes(s, calls, stats) ==
  IF s.inTx THEN [s EXCEPT !.txCalls = calls, !.txStats = stats]
            ELSE [s EXCEPT !.calls = calls, !.stats = stats]

SeenCalls(s) == IF s.inTx THEN s.txCalls ELSE s.calls
SeenStats(s) == IF s.inTx THEN s.txStats ELSE s.stats

\* The primary key of calls_raw_YYYYMM.
Refused(stmt, s) ==
  /\ stmt = "calls"
  /\ \E new \in saveBuf.calls, old \in SeenCalls(s) : new.id = old.id

\* The session ends: an open transaction is rolled back.
Dropped(s) == [s EXCEPT !.inTx = FALSE, !.txCalls = {}, !.txStats = 0]

RunStmt(stmt, s) ==
  CASE stmt = "begin"  -> [s EXCEPT !.inTx = TRUE, !.txCalls = s.calls, !.txStats = s.stats]
    [] stmt = "create" -> s
    [] stmt = "calls"  -> Writes(s, SeenCalls(s) \cup saveBuf.calls, SeenStats(s))
    [] stmt = "stats"  -> Writes(s, SeenCalls(s), saveBuf.stats)
    [] stmt = "commit" -> IF s.inTx
                          THEN Dropped([s EXCEPT !.calls = s.txCalls, !.stats = s.txStats])
                          ELSE s

NextStmt(stmt) ==
  CASE stmt = "begin"  -> "create"
    [] stmt = "create" -> "calls"
    [] stmt = "calls"  -> "stats"
    [] stmt = "stats"  -> "commit"
    [] stmt = "commit" -> "remove"

Stmts == {"begin", "create", "calls", "stats", "commit"}

FirstPart == parts[1]

\* A statement succeeds and save goes on; building the queries from the first
\* partition belongs to the "create" step.
Succeeds(stmt, s) ==
  /\ ~ Refused(stmt, s)
  /\ server' = RunStmt(stmt, s)
  /\ savePc' = NextStmt(stmt)
  /\ saveBuf' = IF stmt = "create" THEN FirstPart ELSE saveBuf

\* BDb::exec throws: the transaction guard rolls back, the thread's loop
\* logs the exception and runs save again later.
Ignores(s) ==  \* mutant: the failure goes unnoticed
  /\ server' = Dropped(s)
  /\ savePc' = "remove"
  /\ saveBuf' = saveBuf
Throws(s) ==
  /\ server' = Dropped(s)
  /\ savePc' = "idle"
  /\ saveBuf' = EmptyPart

\* The second attempt of BDb::exec, on a new connection.
SecondAttempt(stmt, s) ==
  \/ Succeeds(stmt, Dropped(s))
  \/ Refused(stmt, Dropped(s)) /\ Throws(s)

-----------------------------------------------------------------------------
(* Thread "save": DataBillingContainer::save.                              *)

isNeedSaveWhenFull == Len(parts) > 1  \* mutant: only full partitions
isNeedSave == FirstPart.calls # {} \/ Len(parts) > 1

PartsBeforeSave == IF Len(parts) = 1 THEN Append(parts, EmptyPart) ELSE parts

SaveStart ==
  /\ savePc = "idle"
  /\ isNeedSave
  /\ parts' = PartsBeforeSave
  /\ savePc' = "begin"
  /\ UNCHANGED <<cdrCount, held, cdrVars, fetchVars, calcVars, realtimeLastId,
                 statsSum, storedLastId, saveBuf, server, faults>>

AtStmt(stmt) ==
  /\ savePc = stmt
  /\ UNCHANGED <<cdrCount, held, cdrVars, fetchVars, calcVars, callVars,
                 storedLastId>>

\* The statement is answered: with success, or with the refusal of a key that
\* exists already, which the second attempt meets again.
ExecAnswered(stmt) ==
  /\ AtStmt(stmt)
  /\ \/ Succeeds(stmt, server)
     \/ Refused(stmt, server) /\ SecondAttempt(stmt, server)
  /\ UNCHANGED faults

\* The connection is lost before the server runs the statement, and the
\* second attempt cannot connect.
ExecOutage(stmt) ==
  /\ AtStmt(stmt)
  /\ Fault("outage")
  /\ Throws(server)

\* The connection is lost before the server runs the statement; the second
\* attempt runs it on a new connection.
ExecReconnect(stmt) ==
  /\ AtStmt(stmt)
  /\ Fault("reconnect")
  /\ SecondAttempt(stmt, server)

\* The server runs the statement but the answer is lost; the second attempt
\* runs it again on a new connection, or cannot connect.
ExecLostReply(stmt) ==
  /\ AtStmt(stmt)
  /\ Fault("lostReply")
  /\ ~ Refused(stmt, server)
  /\ \/ SecondAttempt(stmt, RunStmt(stmt, server))
     \/ Throws(RunStmt(stmt, server))

StoredAfterSave ==
  IF FirstPart.calls # {} THEN MaxId(FirstPart.calls) ELSE storedLastId

\* removePartitionAfterSave.
SaveRemove ==
  /\ savePc = "remove"
  /\ storedLastId' = StoredAfterSave
  /\ parts' = Tail(parts)
  /\ savePc' = "idle"
  /\ saveBuf' = EmptyPart
  /\ UNCHANGED <<cdrCount, held, cdrVars, fetchVars, calcVars, realtimeLastId,
                 statsSum, server, faults>>

-----------------------------------------------------------------------------
(* The daemon dies and is started again: DataBillingContainer::loadAll.    *)

CrashRestart ==
  /\ Fault("crash")
  /\ server' = Dropped(server)
  /\ queue' = <<>>
  /\ cdrLastId' = MaxCdrId(server.calls)
  /\ fetchPc' = "idle"
  /\ fetchRes' = <<>>
  /\ calcPc' = "idle"
  /\ lastCallId' = 0
  /\ realtimeLastId' = MaxId(server.calls)
  /\ storedLastId' = MaxId(server.calls)
  /\ parts' = <<EmptyPart>>
  /\ statsSum' = server.stats
  /\ savePc' = "idle"
  /\ saveBuf' = EmptyPart
  /\ UNCHANGED <<cdrCount, held>>

-----------------------------------------------------------------------------
Init ==
  /\ cdrCount = 0
  /\ held = {}
  /\ queue = <<>>
  /\ cdrLastId = 0
  /\ fetchPc = "idle"
  /\ fetchRes = <<>>
  /\ calcPc = "idle"
  /\ lastCallId = 0
  /\ realtimeLastId = 0
  /\ storedLastId = 0
  /\ parts = <<EmptyPart>>
  /\ statsSum = 0
  /\ savePc = "idle"
  /\ saveBuf = EmptyPart
  /\ server = [calls |-> {}, stats |-> 0, inTx |-> FALSE, txCalls |-> {}, txStats |-> 0]
  /\ faults = [count |-> 0, kinds |-> {}]

Insert == InsertCdr \/ InsertCdrLate \/ \E c \in held : CommitCdr(c)
Fetch  == FetchQuery \/ FetchPush
Calc   == CalcFirstCdr \/ CalcAddOrig \/ CalcAddTerm \/ CalcRemoveCdr
Save   == SaveStart \/ (\E stmt \in Stmts : ExecAnswered(stmt)) \/ SaveRemove
DbFault == \E stmt \in Stmts : ExecOutage(stmt) \/ ExecReconnect(stmt) \/ ExecLostReply(stmt)

Next == Insert \/ Fetch \/ Calc \/ Save \/ DbFault \/ CrashRestart

\* Thread::operator() calls each thread's run again and again, so a step a
\* thread can take it takes in the end.  Nothing is assumed of CDR arrivals
\* (but a transaction left open is closed) and nothing of faults.
Fairness ==
  /\ WF_vars(Fetch)
  /\ WF_vars(Calc)
  /\ WF_vars(Save)
  /\ WF_vars(\E c \in held : CommitCdr(c))

Spec == Init /\ [][Next]_vars
FairSpec == Spec /\ Fairness
-----------------------------------------------------------------------------
(* Properties.                                                             *)

\* Every variable has its type and the program counters their values.
TypeOK ==
  /\ cdrCount \in Nat
  /\ held \subseteq 1..cdrCount
  /\ queue \in Seq(Nat)
  /\ cdrLastId \in Nat
  /\ fetchPc \in {"idle", "push"}
  /\ fetchRes \in Seq(Nat)
  /\ calcPc \in {"idle", "orig", "term", "remove"}
  /\ lastCallId \in Nat
  /\ realtimeLastId \in Nat
  /\ storedLastId \in Nat
  /\ parts \in Seq(Part) /\ parts # <<>>
  /\ statsSum \in Nat
  /\ savePc \in Stmts \cup {"idle", "remove"}
  /\ saveBuf \in Part
  /\ server \in Server
  /\ faults \in [count : 0..MaxFaults, kinds : SUBSET FaultKinds]

\* a is billed before b: by CDR, and the originating leg first.
Before(a, b) ==
  \/ a.cdr_id < b.cdr_id
  \/ a.cdr_id = b.cdr_id /\ a.leg = "orig" /\ b.leg = "term"

\* Whatever fails and whenever the daemon is restarted, calls_raw never holds
\* two rows for one leg of one CDR: the restart point MAX(cdr_id) and the order
\* in which partitions are saved never bill a CDR again.
BilledOnce ==
  \A a, b \in server.calls : a.cdr_id = b.cdr_id /\ a.leg = b.leg => a = b

\* The ids that calc hands out from realtimeLastId number the legs, saved or
\* still in memory, in the order of their CDRs, across restarts and faults.
IdsFollowCdrs ==
  \A a, b \in server.calls \cup MemoryCalls :
    /\ a.id < b.id <=> Before(a, b)
    /\ a.id = b.id => a = b

\* calls_raw only grows, and at its end: ThreadSyncCalls and the statistics'
\* synchronisation ask the region for "id > the last id I have" and would never
\* see a row that appears below it.
CallsRawAppendOnly ==
  [][/\ server.calls \subseteq server'.calls
     /\ \A new \in server'.calls \ server.calls, old \in server.calls :
          new.id > old.id /\ new.cdr_id >= old.cdr_id]_vars

\* The partition removed after the commit is the one the queries were built
\* from, although calc keeps adding calls while save talks to the database.
SavedIsRemoved ==
  savePc \in {"calls", "stats", "commit", "remove"} => saveBuf = parts[1]

\* Where the rows of one CDR are looked for.
HasLeg(c, l) == \E a \in server.calls \cup MemoryCalls : a.cdr_id = c /\ a.leg = l

\* CDRs the pipeline has finished with: fetched and no longer queued.
Finished == {c \in Visible \ Technical :
               c <= cdrLastId /\ \A i \in 1..Len(queue) : queue[i] # c}

\* A CDR that has left the queue has both its calls in memory or in calls_raw.
NothingLost == \A c \in Finished : HasLeg(c, "orig") /\ HasLeg(c, "term")

\* The same of the originating call alone: a restart may lose the terminating
\* call of the CDR it interrupts, never a whole CDR.
OrigNeverLost == \A c \in Finished : HasLeg(c, "orig")
\* That holds across crashes and outages: DataBillingContainer::loadAll resumes
\* after the last CDR of calls_raw.
OrigSurvives == faults.kinds \subseteq {"crash", "outage"} => OrigNeverLost

\* The statistics in the database count exactly the calls in the database: the
\* two are written in one transaction, from partitions cut at the same call.
StatsMatchCalls == server.stats = Cardinality(server.calls)
\* That holds as long as no statement is repeated on a new connection
\* (DataBillingContainer::save, BDb::exec).
StatsSurvive == faults.kinds \cap {"reconnect", "lostReply"} = {} => StatsMatchCalls

\* Every CDR that reaches calls_cdr.cdr has both its calls in calls_raw in the
\* end, although fetch, calc and save stop at their limits and retry.
EveryCdrSaved ==
  \A c \in (1..MaxCdr) \ Technical :
    c <= cdrCount ~> \A l \in {"orig", "term"} :
                       \E a \in server.calls : a.cdr_id = c /\ a.leg = l

\* What the pipeline promises: see BillingLedger.
Ledger == INSTANCE BillingLedger WITH
            ledger <- {<<a.cdr_id, a.leg>> : a \in server.calls}
\* The pipeline implements the ledger: rows of calls_raw appear in batches with
\* no leg missing below the last one, and all of them in the end.
ImplementsLedger == Ledger!FairSpec
=============================================================================
