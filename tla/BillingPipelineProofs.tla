----------------------- MODULE BillingPipelineProofs -----------------------
(***************************************************************************)
(* TLAPS proofs about BillingPipeline, for every size of the queues and    *)
(* partitions, every number of CDRs and every kind and number of faults.   *)
(***************************************************************************)
EXTENDS BillingPipeline, TLAPS, WellFoundedInduction, FiniteSetTheorems

-----------------------------------------------------------------------------
(* The inductive invariant.                                                *)

Known == server.calls \cup MemoryCalls

\* The CDR queue and the page being queued are sorted, the page above the queue.
FetchInv ==
  /\ \A i, j \in 1..Len(queue) : i < j => queue[i] < queue[j]
  /\ \A i \in 1..Len(queue) : queue[i] <= cdrLastId
  /\ fetchPc = "push" =>
       /\ Len(fetchRes) > 0
       /\ \A i, j \in 1..Len(fetchRes) : i < j => fetchRes[i] < fetchRes[j]
       /\ \A i \in 1..Len(fetchRes) : fetchRes[i] > cdrLastId

\* Where calc stands: what it has billed of the first CDR of the queue, and that
\* every call known is below the CDRs still to be billed.
CalcInv ==
  /\ calcPc # "idle" => Len(queue) > 0
  /\ calcPc = "orig" => lastCallId = realtimeLastId
  /\ calcPc = "term" => realtimeLastId = lastCallId + 1
  /\ \A a \in Known : a.id <= realtimeLastId /\ a.cdr_id <= cdrLastId
  /\ \A a \in Known : \A i \in 1..Len(queue) :
       \/ a.cdr_id < queue[i]
       \/ i = 1 /\ a.cdr_id = queue[1] /\ calcPc = "term" /\ a.leg = "orig"
       \/ i = 1 /\ a.cdr_id = queue[1] /\ calcPc = "remove"

\* Partitions hold ascending ids, above those of calls_raw unless saved already.
PartsInv ==
  /\ \A i, j \in 1..Len(parts) : i < j =>
       \A a \in parts[i].calls, b \in parts[j].calls : a.id < b.id
  /\ \A old \in server.calls, new \in MemoryCalls :
       new \in server.calls \/ old.id < new.id

\* What save has under way: the first partition, cut off from the one calc fills.
SaveInv ==
  /\ savePc # "idle" => Len(parts) > 1
  /\ SavedIsRemoved
  /\ server.inTx => server.txCalls \in {server.calls, server.calls \cup parts[1].calls}
  /\ ~ server.inTx => server.txCalls = {}
  /\ server.inTx => savePc \notin {"idle", "begin", "remove"}

IInv == TypeOK /\ FetchInv /\ CalcInv /\ IdsFollowCdrs /\ PartsInv /\ SaveInv

-----------------------------------------------------------------------------
(* Lemmas about the operators.                                             *)

\* What MAX returns for a bounded set of numbers: none of them is larger, and
\* it is one of them, if there is one.
LEMMA MaxOrZeroBound ==
  ASSUME NEW S, S \subseteq Nat, NEW n \in Nat, \A x \in S : x <= n
  PROVE  /\ MaxOrZero(S) \in Nat /\ \A x \in S : x <= MaxOrZero(S)
         /\ S # {} => MaxOrZero(S) \in S
<1>1. CASE S = {}
  BY <1>1 DEF MaxOrZero
<1>2. CASE S # {}
  <2> DEFINE T == {n - x : x \in S}
  <2>1. T \subseteq Nat /\ T # {}
    <3>1. \A x \in S : n - x \in Nat
      OBVIOUS
    <3> QED
      BY <1>2, <3>1
  <2>2. PICK t \in T : \A y \in T : ~ (<<y, t>> \in OpToRel(<, Nat))
    BY <2>1, NatLessThanWellFounded, WFMin, Zenon
  <2>3. \A y \in T : ~ (y < t)
    BY <2>1, <2>2 DEF OpToRel
  <2>4. PICK m \in S : t = n - m
    BY <2>2
  <2>5. \A x \in S : x <= m
    <3> SUFFICES ASSUME NEW x \in S PROVE x <= m
      OBVIOUS
    <3>1. n - x \in T
      OBVIOUS
    <3>2. ~ (n - x < n - m)
      BY <2>3, <2>4, <3>1
    <3> QED
      BY <3>2, <2>4
  <2>6. \E k \in S : \A x \in S : x <= k
    BY <2>5
  <2> QED
    BY <1>2, <2>6 DEF MaxOrZero
<1> QED
  BY <1>1, <1>2

\* Nothing that happens to the session shrinks calls_raw, and all that save can
\* add to it is the first partition.
SoundServer(s) ==
  /\ s \in Server
  /\ s.calls \in {server.calls, server.calls \cup parts[1].calls}
  /\ s.inTx => s.txCalls \in {s.calls, s.calls \cup parts[1].calls}
  /\ ~ s.inTx => s.txCalls = {}

\* Losing the session keeps the server sound and ends the transaction.
LEMMA DroppedSound ==
  ASSUME NEW s, SoundServer(s)
  PROVE  SoundServer(Dropped(s)) /\ ~ Dropped(s).inTx
BY DEF SoundServer, Dropped, Server

\* So does running a statement of save; COMMIT ends the transaction too.
LEMMA RunStmtSound ==
  ASSUME NEW s, SoundServer(s), TypeOK, SavedIsRemoved, NEW stmt \in Stmts, savePc = stmt
  PROVE  /\ SoundServer(RunStmt(stmt, s))
         /\ stmt = "commit" => ~ RunStmt(stmt, s).inTx
<1>0. saveBuf.calls \subseteq Leg /\ saveBuf.stats \in Nat
  BY DEF TypeOK, Part
<1> USE <1>0 DEF SoundServer, Server, Writes, SeenCalls, SeenStats
<1>1. CASE stmt = "begin"
  BY <1>1 DEF RunStmt
<1>2. CASE stmt = "create"
  BY <1>2 DEF RunStmt
<1>3. CASE stmt = "calls"
  <2>1. saveBuf = parts[1]
    BY <1>3 DEF SavedIsRemoved
  <2>2. RunStmt(stmt, s) = Writes(s, SeenCalls(s) \cup saveBuf.calls, SeenStats(s))
    BY <1>3 DEF RunStmt
  <2> DEFINE r == RunStmt(stmt, s)
  <2>3. CASE s.inTx
    <3>1. r = [s EXCEPT !.txCalls = s.txCalls \cup saveBuf.calls, !.txStats = s.txStats]
      BY <2>2, <2>3
    <3>2. /\ r \in Server /\ r.calls = s.calls /\ r.inTx
          /\ r.txCalls = s.txCalls \cup saveBuf.calls
      BY <2>3, <3>1
    <3> HIDE DEF r
    <3>3. SoundServer(r)
      BY <2>1, <2>3, <3>2
    <3> QED
      BY <1>3, <3>3 DEF r
  <2>4. CASE ~ s.inTx
    <3>1. r = [s EXCEPT !.calls = s.calls \cup saveBuf.calls, !.stats = s.stats]
      BY <2>2, <2>4
    <3>2. /\ r \in Server /\ r.txCalls = s.txCalls /\ ~ r.inTx
          /\ r.calls = s.calls \cup saveBuf.calls
      BY <2>4, <3>1
    <3> HIDE DEF r
    <3>3. SoundServer(r)
      BY <2>1, <2>4, <3>2
    <3> QED
      BY <1>3, <3>3 DEF r
  <2> QED
    BY <2>3, <2>4
<1>4. CASE stmt = "stats"
  <2>1. RunStmt(stmt, s) = Writes(s, SeenCalls(s), saveBuf.stats)
    BY <1>4 DEF RunStmt
  <2> QED
    BY <1>4, <2>1
<1>5. CASE stmt = "commit"
  <2>1. RunStmt(stmt, s) = IF s.inTx THEN Dropped([s EXCEPT !.calls = s.txCalls, !.stats = s.txStats]) ELSE s
    BY <1>5 DEF RunStmt
  <2> DEFINE r == RunStmt(stmt, s)
  <2>2. CASE s.inTx
    <3>1. r = [s EXCEPT !.calls = s.txCalls, !.stats = s.txStats,
                        !.inTx = FALSE, !.txCalls = {}, !.txStats = 0]
      BY <2>1, <2>2 DEF Dropped
    <3>2. r.calls = s.txCalls /\ ~ r.inTx /\ r.txCalls = {}
      BY <3>1
    <3>3. r \in Server
      <4>1. r = [calls |-> s.txCalls, stats |-> s.txStats, inTx |-> FALSE,
                 txCalls |-> {}, txStats |-> 0]
        BY <3>1
      <4> QED
        BY <4>1
    <3> HIDE DEF r
    <3>4. SoundServer(r)
      BY <2>2, <3>2, <3>3
    <3> QED
      BY <3>2, <3>4 DEF r
  <2>3. CASE ~ s.inTx
    BY <2>1, <2>3
  <2> QED
    BY <2>2, <2>3
<1> QED
  BY <1>1, <1>2, <1>3, <1>4, <1>5 DEF Stmts

-----------------------------------------------------------------------------
(* Steps that leave calls_raw alone.                                       *)

\* A sequence of partitions with an empty one opened behind it.
LEMMA AppendEmpty ==
  ASSUME NEW ps \in Seq(Part)
  PROVE  LET qs == Append(ps, EmptyPart) IN
         /\ qs \in Seq(Part) /\ qs # <<>> /\ Len(qs) = Len(ps) + 1
         /\ \A i \in 1..Len(ps) : qs[i] = ps[i]
         /\ qs[Len(ps) + 1].calls = {}
<1>1. EmptyPart \in Part /\ EmptyPart.calls = {}
  BY DEF EmptyPart, Part
<1> QED
  BY <1>1

\* The memory of the pipeline after addCall: the call is in the last partition.
LEMMA AddCallParts ==
  ASSUME TypeOK, NEW call \in Leg, addCall(call)
  PROVE  /\ parts' \in Seq(Part) /\ parts' # <<>>
         /\ Len(parts') \in {Len(parts), Len(parts) + 1}
         /\ \A i \in 1..(Len(parts) - 1) : parts'[i] = parts[i]
         /\ parts'[Len(parts)].calls = parts[Len(parts)].calls \cup {call}
         /\ parts'[Len(parts)].stats = StatsCopy
         /\ Len(parts') = Len(parts) + 1 => parts'[Len(parts) + 1].calls = {}
         /\ MemoryCalls' = MemoryCalls \cup {call}
<1> DEFINE n     == Len(parts)
           grown == [calls |-> parts[n].calls \cup {call}, stats |-> StatsCopy]
           added == [parts EXCEPT ![n] = grown]
<1>1. n \in Nat \ {0} /\ parts \in Seq(Part)
  BY DEF TypeOK
<1>2. grown \in Part
  <2>1. parts[n] \in Part
    BY <1>1
  <2>2. StatsCopy \in Nat
    BY DEF TypeOK, StatsCopy
  <2> QED
    BY <2>1, <2>2 DEF Part
<1>3. /\ added \in Seq(Part) /\ Len(added) = n
      /\ \A i \in 1..(n - 1) : added[i] = parts[i]
      /\ added[n].calls = parts[n].calls \cup {call} /\ added[n].stats = StatsCopy
  BY <1>1, <1>2
<1>5. parts' = added \/ parts' = Append(added, EmptyPart)
  BY DEF addCall, PartsWith
<1>6. /\ parts' \in Seq(Part) /\ parts' # <<>> /\ Len(parts') \in {n, n + 1}
      /\ \A i \in 1..(n - 1) : parts'[i] = parts[i]
      /\ parts'[n].calls = parts[n].calls \cup {call} /\ parts'[n].stats = StatsCopy
      /\ Len(parts') = n + 1 => parts'[n + 1].calls = {}
  <2> HIDE DEF n, grown, added
  <2>1. CASE parts' = added
    BY <1>1, <1>3, <2>1
  <2>2. CASE parts' = Append(added, EmptyPart)
    BY <1>1, <1>3, <2>2, AppendEmpty
  <2> QED
    BY <1>5, <2>1, <2>2
<1> HIDE DEF n, grown, added
<1>7. MemoryCalls' = MemoryCalls \cup {call}
  <2>1. \A x : x \in MemoryCalls' <=> \E i \in 1..Len(parts') : x \in parts'[i].calls
    BY DEF MemoryCalls
  <2>2. \A x : x \in MemoryCalls <=> \E i \in 1..n : x \in parts[i].calls
    BY DEF MemoryCalls, n
  <2>3. ASSUME NEW x \in MemoryCalls' PROVE x \in MemoryCalls \cup {call}
    <3>1. PICK i \in 1..Len(parts') : x \in parts'[i].calls
      BY <2>1, <2>3
    <3>2. i \in 1..(n - 1) \/ i = n \/ i = n + 1
      BY <1>1, <1>6
    <3>3. n \in 1..n /\ \A j \in 1..(n - 1) : j \in 1..n
      BY <1>1
    <3>4. CASE i \in 1..(n - 1)
      BY <1>6, <2>2, <3>1, <3>3, <3>4
    <3>5. CASE i = n
      BY <1>6, <2>2, <3>1, <3>3, <3>5
    <3>6. CASE i = n + 1
      <4>1. Len(parts') = n + 1
        BY <1>1, <1>6, <3>6
      <4> QED
        BY <1>6, <3>1, <3>6, <4>1
    <3> QED
      BY <3>2, <3>4, <3>5, <3>6
  <2>4. ASSUME NEW x \in MemoryCalls \cup {call} PROVE x \in MemoryCalls'
    <3>1. CASE x = call
      BY <1>1, <1>6, <2>1, <3>1
    <3>2. CASE x \in MemoryCalls
      <4>1. PICK i \in 1..n : x \in parts[i].calls
        BY <2>2, <3>2
      <4>2. x \in parts'[i].calls /\ i \in 1..Len(parts')
        BY <1>1, <1>6, <4>1
      <4> QED
        BY <2>1, <4>2
    <3> QED
      BY <2>4, <3>1, <3>2
  <2> QED
    BY <2>3, <2>4
<1> QED
  BY <1>6, <1>7 DEF n

\* Opening an empty partition changes no call in memory.
LEMMA SaveStartParts ==
  ASSUME TypeOK, SaveStart
  PROVE  /\ parts' \in Seq(Part) /\ Len(parts') > 1
         /\ Len(parts') >= Len(parts)
         /\ \A i \in 1..Len(parts) : parts'[i] = parts[i]
         /\ \A i \in 1..Len(parts') : i > Len(parts) => parts'[i].calls = {}
         /\ MemoryCalls' = MemoryCalls
<1>2. Len(parts) \in Nat \ {0} /\ parts \in Seq(Part)
  BY DEF TypeOK
<1>3. /\ parts' \in Seq(Part) /\ Len(parts') > 1 /\ Len(parts') >= Len(parts)
      /\ \A i \in 1..Len(parts) : parts'[i] = parts[i]
      /\ \A i \in 1..Len(parts') : i > Len(parts) => parts'[i].calls = {}
  <2>1. CASE Len(parts) = 1
    <3>1. parts' = Append(parts, EmptyPart)
      BY <2>1 DEF SaveStart, PartsBeforeSave
    <3>2. /\ parts' \in Seq(Part) /\ Len(parts') = Len(parts) + 1
          /\ \A i \in 1..Len(parts) : parts'[i] = parts[i]
          /\ parts'[Len(parts) + 1].calls = {}
      BY <1>2, <3>1, AppendEmpty
    <3>3. \A i \in 1..Len(parts') : i > Len(parts) => i = Len(parts) + 1
      BY <1>2, <3>2
    <3>4. Len(parts') > 1 /\ Len(parts') >= Len(parts)
      BY <1>2, <2>1, <3>2
    <3> QED
      BY <3>2, <3>3, <3>4
  <2>2. CASE Len(parts) # 1
    <3>1. parts' = parts
      BY <2>2 DEF SaveStart, PartsBeforeSave
    <3>2. Len(parts) > 1 /\ Len(parts) >= Len(parts)
      BY <1>2, <2>2
    <3>3. \A i \in 1..Len(parts) : ~ (i > Len(parts))
      BY <1>2
    <3> QED
      BY <1>2, <3>1, <3>2, <3>3
  <2> QED
    BY <2>1, <2>2
<1>4. MemoryCalls' = MemoryCalls
  <2>1. \A x : x \in MemoryCalls' <=> \E i \in 1..Len(parts') : x \in parts'[i].calls
    BY DEF MemoryCalls
  <2>2. \A x : x \in MemoryCalls <=> \E i \in 1..Len(parts) : x \in parts[i].calls
    BY DEF MemoryCalls
  <2> HIDE DEF SaveStart
  <2>3. \A x : x \in MemoryCalls' => x \in MemoryCalls
    BY <1>2, <1>3, <2>1, <2>2
  <2>4. \A x : x \in MemoryCalls => x \in MemoryCalls'
    BY <1>2, <1>3, <2>1, <2>2
  <2> QED
    BY <2>3, <2>4
<1> QED
  BY <1>3, <1>4

\* Dropping the first partition.
LEMMA SaveRemoveParts ==
  ASSUME TypeOK, SaveInv, SaveRemove
  PROVE  /\ parts' \in Seq(Part) /\ parts' # <<>>
         /\ Len(parts') = Len(parts) - 1
         /\ \A i \in 1..Len(parts') : parts'[i] = parts[i + 1]
         /\ MemoryCalls' \subseteq MemoryCalls
<1>1. Len(parts) \in Nat /\ Len(parts) > 1 /\ parts \in Seq(Part) /\ parts' = Tail(parts)
  BY DEF TypeOK, SaveInv, SaveRemove
<1>2. /\ parts' \in Seq(Part) /\ parts' # <<>> /\ Len(parts') = Len(parts) - 1
      /\ \A i \in 1..Len(parts') : parts'[i] = parts[i + 1]
  BY <1>1
<1>3. MemoryCalls' \subseteq MemoryCalls
  <2> SUFFICES ASSUME NEW x \in MemoryCalls' PROVE x \in MemoryCalls
    OBVIOUS
  <2>1. PICK i \in 1..Len(parts') : x \in parts'[i].calls
    BY DEF MemoryCalls
  <2>2. i + 1 \in 1..Len(parts) /\ x \in parts[i + 1].calls
    BY <1>1, <1>2, <2>1
  <2> QED
    BY <2>2 DEF MemoryCalls
<1> QED
  BY <1>2, <1>3

-----------------------------------------------------------------------------
(* Statements of save.                                                     *)

\* What any outcome of a statement leaves behind.
ExecPost ==
  /\ SoundServer(server')
  /\ savePc' \in Stmts \cup {"idle", "remove"}
  /\ savePc' \in {"calls", "stats", "commit", "remove"} => saveBuf' = parts[1]
  /\ server'.inTx => savePc' \notin {"idle", "begin", "remove"}
  /\ saveBuf' \in Part

\* A statement that succeeds, on whatever connection it ran.
LEMMA SucceedsPost ==
  ASSUME TypeOK, SaveInv, NEW stmt \in Stmts, savePc = stmt,
         NEW s, SoundServer(s), Succeeds(stmt, s)
  PROVE  ExecPost
<1>1. SoundServer(server') /\ (stmt = "commit" => ~ server'.inTx)
  BY RunStmtSound DEF Succeeds, SaveInv
<1>2. savePc' = NextStmt(stmt) /\ saveBuf' = IF stmt = "create" THEN parts[1] ELSE saveBuf
  BY DEF Succeeds, FirstPart
<1>3. savePc' \in {"create", "calls", "stats", "commit", "remove"} /\ (savePc' = "remove" => stmt = "commit")
      /\ (savePc' # "create" => stmt # "begin")
  BY <1>2 DEF NextStmt, Stmts
<1>4. parts[1] \in Part /\ saveBuf \in Part
  BY DEF TypeOK
<1>5. stmt \in {"calls", "stats", "commit"} => saveBuf = parts[1]
  BY DEF SaveInv, SavedIsRemoved
<1> QED
  BY <1>1, <1>2, <1>3, <1>4, <1>5 DEF ExecPost, Stmts

\* A statement after which BDb::exec throws.
LEMMA ThrowsPost ==
  ASSUME NEW s, SoundServer(s), Throws(s)
  PROVE  ExecPost
<1>1. EmptyPart \in Part
  BY DEF EmptyPart, Part
<1> QED
  BY <1>1, DroppedSound DEF Throws, ExecPost, Stmts

\* All outcomes of a statement, with and without a fault.
LEMMA ExecStep ==
  ASSUME TypeOK, SaveInv, NEW stmt \in Stmts,
         ExecAnswered(stmt) \/ ExecOutage(stmt) \/ ExecReconnect(stmt) \/ ExecLostReply(stmt)
  PROVE  /\ ExecPost
         /\ faults' \in [count : 0..MaxFaults, kinds : SUBSET FaultKinds]
         /\ UNCHANGED <<cdrCount, held, cdrVars, fetchVars, calcVars, callVars, storedLastId>>
         /\ savePc = stmt
<1>1. AtStmt(stmt)
  BY DEF ExecAnswered, ExecOutage, ExecReconnect, ExecLostReply
<1>2. savePc = stmt
  BY <1>1 DEF AtStmt
<1>3. SoundServer(server)
  BY DEF SoundServer, TypeOK, SaveInv
<1>4. SoundServer(RunStmt(stmt, server))
  BY <1>2, <1>3, RunStmtSound DEF SaveInv
<1>5. ASSUME NEW s, SoundServer(s), SecondAttempt(stmt, s) PROVE ExecPost
  <2>1. SoundServer(Dropped(s))
    BY <1>5, DroppedSound
  <2> QED
    BY <1>2, <1>5, <2>1, SucceedsPost, ThrowsPost DEF SecondAttempt
<1>6. ExecPost
  <2>1. CASE ExecAnswered(stmt)
    BY <1>2, <1>3, <1>5, <2>1, SucceedsPost DEF ExecAnswered
  <2>2. CASE ExecOutage(stmt)
    BY <1>3, <2>2, ThrowsPost DEF ExecOutage
  <2>3. CASE ExecReconnect(stmt)
    BY <1>3, <1>5, <2>3 DEF ExecReconnect
  <2>4. CASE ExecLostReply(stmt)
    BY <1>4, <1>5, <2>4, ThrowsPost DEF ExecLostReply
  <2> QED
    BY <2>1, <2>2, <2>3, <2>4
<1>7. faults' \in [count : 0..MaxFaults, kinds : SUBSET FaultKinds]
  BY PipelineAssumption DEF ExecAnswered, ExecOutage, ExecReconnect, ExecLostReply, Fault, TypeOK
<1> QED
  BY <1>1, <1>2, <1>6, <1>7 DEF AtStmt

-----------------------------------------------------------------------------
(* The invariant is inductive.                                             *)

\* Every call in memory or in calls_raw is a row with its keys.
LEMMA KnownLegs ==
  ASSUME TypeOK
  PROVE  Known \subseteq Leg
<1>1. server.calls \subseteq Leg
  BY DEF TypeOK, Server
<1>2. ASSUME NEW i \in 1..Len(parts) PROVE parts[i].calls \subseteq Leg
  <2>1. parts[i] \in Part
    BY DEF TypeOK
  <2> QED
    BY <2>1 DEF Part
<1> QED
  BY <1>1, <1>2 DEF Known, MemoryCalls

\* Steps of the CDR table only: nothing the invariant relates to moves.
LEMMA QuietStep ==
  ASSUME IInv, TypeOK',
         UNCHANGED <<cdrVars, fetchVars, calcVars, callVars, saveVars, server>>
  PROVE  IInv'
<1>1. Known' = Known /\ MemoryCalls' = MemoryCalls
  BY DEF Known, MemoryCalls, callVars
<1>2. FetchInv' /\ SaveInv'
  BY DEF IInv, FetchInv, SaveInv, SavedIsRemoved, cdrVars, fetchVars, callVars, saveVars
<1>3. CalcInv'
  BY <1>1 DEF IInv, CalcInv, cdrVars, calcVars, callVars
<1>4. IdsFollowCdrs' /\ PartsInv'
  BY <1>1 DEF IInv, IdsFollowCdrs, PartsInv, Before, callVars
<1> QED
  BY <1>2, <1>3, <1>4 DEF IInv

\* A call that calc adds: it is numbered next, and above every call known.
LEMMA AddCallStep ==
  ASSUME IInv, NEW call \in Leg, addCall(call),
         UNCHANGED <<cdrCount, held, cdrVars, fetchVars, storedLastId, saveVars, server, faults>>,
         lastCallId' \in Nat, calcPc' \in {"idle", "orig", "term", "remove"},
         \A a \in Known : a.id < call.id /\ Before(a, call)
  PROVE  /\ TypeOK' /\ FetchInv' /\ IdsFollowCdrs' /\ PartsInv' /\ SaveInv'
         /\ Known' = Known \cup {call}
<1> DEFINE n == Len(parts)
<1>1. /\ parts' \in Seq(Part) /\ parts' # <<>>
      /\ Len(parts') \in {n, n + 1}
      /\ \A i \in 1..(n - 1) : parts'[i] = parts[i]
      /\ parts'[n].calls = parts[n].calls \cup {call}
      /\ Len(parts') = n + 1 => parts'[n + 1].calls = {}
      /\ MemoryCalls' = MemoryCalls \cup {call}
  BY AddCallParts DEF IInv
<1>2. n \in Nat /\ n > 0 /\ n = Len(parts)
  BY DEF IInv, TypeOK
<1>3. server' = server /\ realtimeLastId' = call.id /\ statsSum' = statsSum + 1
  BY DEF addCall
<1>4. Known' = Known \cup {call}
  BY <1>1, <1>3 DEF Known
<1>5. TypeOK'
  BY <1>1, <1>3 DEF IInv, TypeOK, cdrVars, fetchVars, saveVars, Leg
<1>6. FetchInv'
  BY DEF IInv, FetchInv, cdrVars, fetchVars
<1>7. IdsFollowCdrs'
  <2> SUFFICES ASSUME NEW a \in Known', NEW b \in Known'
               PROVE  (a.id < b.id <=> Before(a, b)) /\ (a.id = b.id => a = b)
    BY DEF IdsFollowCdrs, Known, Before
  <2>1. Known \subseteq Leg
    BY KnownLegs DEF IInv
  <2>2. CASE a \in Known /\ b \in Known
    BY <2>2 DEF IInv, IdsFollowCdrs, Known
  <2>3. CASE a \in Known /\ b = call
    BY <2>1, <2>3 DEF Before, Leg
  <2>4. CASE a = call /\ b \in Known
    <3>1. b.id < a.id /\ Before(b, a)
      BY <2>4
    <3> QED
      BY <2>1, <2>4, <3>1 DEF Before, Leg
  <2>5. CASE a = call /\ b = call
    BY <2>5 DEF Before, Leg
  <2> QED
    BY <1>4, <2>2, <2>3, <2>4, <2>5
<1>8. PartsInv'
  <2>1. ASSUME NEW i \in 1..Len(parts'), NEW j \in 1..Len(parts'), i < j,
               NEW a \in parts'[i].calls, NEW b \in parts'[j].calls
        PROVE  a.id < b.id
    <3>1. j \in 1..n /\ i \in 1..(n - 1)
      <4>1. j # n + 1
        <5>1. SUFFICES ASSUME j = n + 1 PROVE FALSE
          OBVIOUS
        <5>2. Len(parts') = n + 1
          BY <1>1, <1>2, <5>1
        <5> QED
          BY <1>1, <2>1, <5>1, <5>2
      <4>2. Len(parts') \in Nat /\ Len(parts') <= n + 1
        BY <1>1, <1>2
      <4> HIDE DEF n
      <4>3. j \in 1..n
        BY <1>2, <4>1, <4>2
      <4> QED
        BY <1>2, <2>1, <4>3
    <3>2. a \in parts[i].calls
      BY <1>1, <2>1, <3>1
    <3>3. CASE b \in parts[j].calls
      BY <2>1, <3>1, <3>2, <3>3, <1>2 DEF IInv, PartsInv
    <3>4. CASE b = call
      <4>1. a \in Known
        BY <1>2, <3>1, <3>2 DEF Known, MemoryCalls
      <4> QED
        BY <3>4, <4>1
    <3>5. b \in parts[j].calls \/ b = call
      BY <1>1, <1>2, <2>1, <3>1
    <3> QED
      BY <3>3, <3>4, <3>5
  <2>2. ASSUME NEW old \in server.calls, NEW new \in MemoryCalls \cup {call}
        PROVE  new \in server.calls \/ old.id < new.id
    BY <2>2 DEF IInv, PartsInv, Known
  <2> QED
    BY <1>1, <1>3, <2>1, <2>2 DEF PartsInv
<1>9. SaveInv'
  <2>1. savePc # "idle" => n > 1 /\ parts'[1] = parts[1]
    BY <1>1, <1>2 DEF IInv, SaveInv
  <2>3. savePc' = savePc /\ saveBuf' = saveBuf /\ Len(parts') >= n
    BY <1>1, <1>2 DEF saveVars
  <2> HIDE DEF n
  <2>4. savePc' # "idle" => Len(parts') > 1
    <3>1. Len(parts') \in Nat
      BY <1>1
    <3> QED
      BY <1>2, <2>1, <2>3, <3>1
  <2>5. SavedIsRemoved'
    BY <2>1, <2>3 DEF IInv, SaveInv, SavedIsRemoved
  <2> QED
    BY <1>3, <2>1, <2>3, <2>4, <2>5 DEF IInv, SaveInv
<1> QED
  BY <1>4, <1>5, <1>6, <1>7, <1>8, <1>9

\* Every step of the pipeline keeps the invariant.
LEMMA IInvStep ==
  ASSUME IInv, [Next]_vars
  PROVE  IInv'
<1>0. /\ TypeOK /\ FetchInv /\ CalcInv /\ IdsFollowCdrs /\ PartsInv /\ SaveInv
      /\ Known \subseteq Leg
  BY KnownLegs DEF IInv
<1>1. CASE InsertCdr
  <2>1. TypeOK'
    BY <1>0, <1>1 DEF InsertCdr, TypeOK, cdrVars, fetchVars, calcVars, callVars, saveVars
  <2> QED
    BY <1>1, <2>1, QuietStep DEF InsertCdr
<1>2. CASE InsertCdrLate
  <2>1. TypeOK'
    BY <1>0, <1>2, PipelineAssumption
       DEF InsertCdrLate, Fault, TypeOK, cdrVars, fetchVars, calcVars, callVars, saveVars
  <2> QED
    BY <1>2, <2>1, QuietStep DEF InsertCdrLate
<1>3. ASSUME NEW c \in held, CommitCdr(c) PROVE IInv'
  <2>1. TypeOK'
    BY <1>0, <1>3 DEF CommitCdr, TypeOK, cdrVars, fetchVars, calcVars, callVars, saveVars
  <2> QED
    BY <1>3, <2>1, QuietStep DEF CommitCdr
<1>4. CASE FetchQuery
  <2> USE <1>4 DEF FetchQuery, cdrVars, calcVars, callVars, saveVars
  <2>0. PICK n \in 1..CdrsPartitionSize : \E page \in [1..n -> Visible] :
          IsPage(page, cdrLastId, CdrsPartitionSize) /\ fetchRes' = page
    OBVIOUS
  <2>1. PICK page \in [1..n -> Visible] :
          IsPage(page, cdrLastId, CdrsPartitionSize) /\ fetchRes' = page
    BY <2>0
  <2>2. page \in Seq(Nat) /\ Len(page) = n /\ n > 0
    <3>1. Visible \subseteq Nat
      BY <1>0 DEF Visible, TypeOK
    <3>2. n \in Nat /\ n > 0
      BY PipelineAssumption
    <3>3. page \in [1..n -> Nat]
      BY <2>1, <3>1
    <3> QED
      BY <3>2, <3>3
  <2>3. TypeOK'
    BY <1>0, <2>1, <2>2 DEF TypeOK
  <2>4. FetchInv'
    BY <1>0, <2>1, <2>2 DEF FetchInv, IsPage
  <2>5. Known' = Known /\ MemoryCalls' = MemoryCalls
    BY DEF Known, MemoryCalls
  <2>6. CalcInv' /\ SaveInv'
    BY <1>0, <2>5 DEF CalcInv, SaveInv, SavedIsRemoved
  <2>7. IdsFollowCdrs' /\ PartsInv'
    BY <1>0, <2>5 DEF IdsFollowCdrs, PartsInv, Before
  <2> QED
    BY <2>3, <2>4, <2>6, <2>7 DEF IInv
<1>5. CASE FetchPush
  <2> USE <1>5 DEF FetchPush, calcVars, callVars, saveVars
  <2> DEFINE m == Len(queue)  k == Len(fetchRes)
  <2>1. m \in Nat /\ k \in Nat /\ k > 0 /\ queue \in Seq(Nat) /\ fetchRes \in Seq(Nat)
        /\ cdrLastId \in Nat /\ cdrLastId' = fetchRes[k]
    BY <1>0 DEF TypeOK, FetchInv
  <2>2. /\ queue' \in Seq(Nat) /\ Len(queue') = m + k
        /\ \A i \in 1..m : queue'[i] = queue[i]
        /\ \A i \in 1..(m + k) : i > m => queue'[i] = fetchRes[i - m]
    BY <2>1
  <2>3. \A i \in 1..k : fetchRes[i] \in Nat /\ fetchRes[i] <= fetchRes[k] /\ fetchRes[i] > cdrLastId
    BY <1>0, <2>1 DEF FetchInv
  <2>4. cdrLastId' \in Nat /\ cdrLastId' > cdrLastId
    BY <2>1, <2>3
  <2>5. TypeOK'
    BY <1>0, <2>2, <2>4 DEF TypeOK
  <2>6. FetchInv'
    <3>1. ASSUME NEW i \in 1..(m + k), NEW j \in 1..(m + k), i < j
          PROVE  queue'[i] < queue'[j]
      <4>1. CASE j <= m
        BY <1>0, <2>1, <2>2, <3>1, <4>1 DEF FetchInv
      <4>2. CASE i <= m /\ j > m
        <5>1. queue'[i] = queue[i] /\ queue[i] \in Nat /\ queue[i] <= cdrLastId
          BY <1>0, <2>1, <2>2, <4>2 DEF FetchInv
        <5>2. j - m \in 1..k /\ queue'[j] = fetchRes[j - m]
          BY <2>1, <2>2, <4>2
        <5>3. fetchRes[j - m] \in Nat /\ fetchRes[j - m] > cdrLastId
          BY <2>3, <5>2
        <5>4. \A x, y, z \in Nat : x <= y /\ z > y => x < z
          OBVIOUS
        <5> QED
          BY <2>1, <5>1, <5>2, <5>3, <5>4
      <4>3. CASE i > m
        <5>1. /\ i - m \in 1..k /\ j - m \in 1..k /\ i - m < j - m
              /\ queue'[i] = fetchRes[i - m] /\ queue'[j] = fetchRes[j - m]
          BY <2>1, <2>2, <3>1, <4>3
        <5> QED
          BY <1>0, <5>1 DEF FetchInv
      <4>4. j <= m \/ (i <= m /\ j > m) \/ i > m
        BY <2>1
      <4> QED
        BY <4>1, <4>2, <4>3, <4>4
    <3>2. ASSUME NEW i \in 1..(m + k) PROVE queue'[i] <= cdrLastId'
      <4>1. CASE i <= m
        <5>1. queue'[i] = queue[i] /\ queue[i] \in Nat /\ queue[i] <= cdrLastId
          BY <1>0, <2>1, <2>2, <4>1 DEF FetchInv
        <5> QED
          BY <2>1, <2>4, <5>1
      <4>2. CASE i > m
        <5>1. i - m \in 1..k /\ queue'[i] = fetchRes[i - m]
          BY <2>1, <2>2, <4>2
        <5> QED
          BY <2>1, <2>3, <5>1
      <4> QED
        BY <2>1, <4>1, <4>2
    <3> HIDE DEF m, k
    <3> QED
      BY <2>2, <3>1, <3>2 DEF FetchInv
  <2>7. Known' = Known /\ MemoryCalls' = MemoryCalls
    BY DEF Known, MemoryCalls
  <2>8. CalcInv'
    <3>1. ASSUME NEW a \in Known PROVE a.id <= realtimeLastId /\ a.cdr_id <= cdrLastId'
      <4>1. a.cdr_id \in Nat /\ a.cdr_id <= cdrLastId /\ a.id <= realtimeLastId
        BY <1>0 DEF CalcInv, Leg
      <4> QED
        BY <2>1, <2>4, <4>1
    <3>2. ASSUME NEW a \in Known, NEW i \in 1..(m + k), i > m PROVE a.cdr_id < queue'[i]
      <4>1. i - m \in 1..k /\ queue'[i] = fetchRes[i - m]
        BY <2>1, <2>2, <3>2
      <4>2. a.cdr_id \in Nat /\ a.cdr_id <= cdrLastId
        BY <1>0 DEF CalcInv, Leg
      <4>3. fetchRes[i - m] \in Nat /\ fetchRes[i - m] > cdrLastId
        BY <2>3, <4>1
      <4>4. \A x, y, z \in Nat : x <= y /\ z > y => x < z
        OBVIOUS
      <4> QED
        BY <2>1, <4>1, <4>2, <4>3, <4>4
    <3>3. m > 0 => queue'[1] = queue[1]
      BY <2>1, <2>2
    <3>4. calcPc # "idle" => m > 0
      BY <1>0 DEF CalcInv
    <3>5. ASSUME NEW a \in Known, NEW i \in 1..(m + k)
          PROVE  \/ a.cdr_id < queue'[i]
                 \/ i = 1 /\ a.cdr_id = queue'[1] /\ calcPc = "term" /\ a.leg = "orig"
                 \/ i = 1 /\ a.cdr_id = queue'[1] /\ calcPc = "remove"
      <4>1. CASE i > m
        BY <3>2, <4>1
      <4>2. CASE i <= m
        <5>1. i \in 1..m /\ queue'[i] = queue[i] /\ m > 0
          BY <2>1, <2>2, <4>2
        <5> QED
          BY <1>0, <3>3, <5>1 DEF CalcInv
      <4> QED
        BY <2>1, <4>1, <4>2
    <3> HIDE DEF m, k
    <3>6. Len(queue') > 0
      BY <2>1, <2>2
    <3> QED
      BY <1>0, <2>2, <2>7, <3>1, <3>5, <3>6 DEF CalcInv
  <2>9. IdsFollowCdrs' /\ PartsInv' /\ SaveInv'
    BY <1>0, <2>7 DEF IdsFollowCdrs, PartsInv, Before, SaveInv, SavedIsRemoved
  <2> QED
    BY <2>5, <2>6, <2>8, <2>9 DEF IInv
<1>6. CASE CalcFirstCdr
  <2> USE <1>6 DEF CalcFirstCdr, cdrVars, fetchVars, callVars, saveVars
  <2>1. TypeOK'
    BY <1>0 DEF TypeOK
  <2>2. Known' = Known /\ MemoryCalls' = MemoryCalls
    BY DEF Known, MemoryCalls
  <2>3. Len(queue) > 0
    BY <1>0 DEF TypeOK
  <2>4. CalcInv'
    BY <1>0, <2>2, <2>3 DEF CalcInv
  <2>5. FetchInv' /\ SaveInv'
    BY <1>0 DEF FetchInv, SaveInv, SavedIsRemoved
  <2>6. IdsFollowCdrs' /\ PartsInv'
    BY <1>0, <2>2 DEF IdsFollowCdrs, PartsInv, Before
  <2> QED
    BY <2>1, <2>4, <2>5, <2>6 DEF IInv
<1>7. CASE CalcAddOrig
  <2> DEFINE call == OrigCall(Head(queue), lastCallId)
  <2>1. /\ calcPc = "orig" /\ Len(queue) > 0 /\ queue \in Seq(Nat)
        /\ Head(queue) = queue[1] /\ queue[1] \in Nat
        /\ lastCallId = realtimeLastId /\ realtimeLastId \in Nat
    BY <1>0, <1>7 DEF CalcAddOrig, CalcInv, TypeOK
  <2>2. /\ call \in Leg /\ call.id = realtimeLastId + 1
        /\ call.cdr_id = queue[1] /\ call.leg = "orig"
    BY <2>1 DEF OrigCall, Leg
  <2>3. addCall(call) /\ lastCallId' = lastCallId /\ calcPc' = "term"
    BY <1>7 DEF CalcAddOrig
  <2> HIDE DEF call
  <2>4. \A a \in Known : a.id < call.id /\ Before(a, call)
    <3> SUFFICES ASSUME NEW a \in Known PROVE a.id < call.id /\ Before(a, call)
      OBVIOUS
    <3>1. a.id \in Nat /\ a.cdr_id \in Nat /\ a.id <= realtimeLastId
      BY <1>0 DEF CalcInv, Leg
    <3>2. a.cdr_id < queue[1]
      BY <1>0, <2>1 DEF CalcInv
    <3> QED
      BY <2>1, <2>2, <3>1, <3>2 DEF Before
  <2>5. /\ TypeOK' /\ FetchInv' /\ IdsFollowCdrs' /\ PartsInv' /\ SaveInv'
        /\ Known' = Known \cup {call}
    BY <1>0, <1>7, <2>1, <2>2, <2>3, <2>4, AddCallStep DEF CalcAddOrig
  <2>6. realtimeLastId' = realtimeLastId + 1 /\ queue' = queue /\ cdrLastId' = cdrLastId
    BY <1>7, <2>2, <2>3 DEF CalcAddOrig, addCall, cdrVars
  <2>7. CalcInv'
    <3>1. ASSUME NEW a \in Known'
          PROVE  a.id <= realtimeLastId + 1 /\ a.cdr_id <= cdrLastId
      <4>1. CASE a \in Known
        BY <1>0, <2>1, <4>1 DEF CalcInv, Leg
      <4>2. CASE a = call
        BY <1>0, <2>1, <2>2, <4>2 DEF FetchInv
      <4> QED
        BY <2>5, <4>1, <4>2
    <3>2. ASSUME NEW a \in Known', NEW i \in 1..Len(queue)
          PROVE  a.cdr_id < queue[i] \/ (i = 1 /\ a.cdr_id = queue[1] /\ a.leg = "orig")
      <4>1. CASE a \in Known
        BY <1>0, <2>1, <4>1 DEF CalcInv
      <4>2. CASE a = call /\ i = 1
        BY <2>2, <4>2
      <4>3. CASE a = call /\ i # 1
        BY <1>0, <2>1, <2>2, <4>3 DEF FetchInv
      <4> QED
        BY <2>5, <4>1, <4>2, <4>3
    <3> QED
      BY <2>1, <2>3, <2>6, <3>1, <3>2 DEF CalcInv
  <2> QED
    BY <2>5, <2>7 DEF IInv
<1>8. CASE CalcAddTerm
  <2> DEFINE call == TermCall(Head(queue), lastCallId)
  <2>1. /\ calcPc = "term" /\ Len(queue) > 0 /\ queue \in Seq(Nat)
        /\ Head(queue) = queue[1] /\ queue[1] \in Nat
        /\ realtimeLastId = lastCallId + 1 /\ lastCallId \in Nat /\ realtimeLastId \in Nat
    BY <1>0, <1>8 DEF CalcAddTerm, CalcInv, TypeOK
  <2>2. /\ call \in Leg /\ call.id = realtimeLastId + 1
        /\ call.cdr_id = queue[1] /\ call.leg = "term"
    BY <2>1 DEF TermCall, Leg
  <2>3. addCall(call) /\ lastCallId' = lastCallId /\ calcPc' = "remove"
    BY <1>8 DEF CalcAddTerm
  <2> HIDE DEF call
  <2>4. \A a \in Known : a.id < call.id /\ Before(a, call)
    <3> SUFFICES ASSUME NEW a \in Known PROVE a.id < call.id /\ Before(a, call)
      OBVIOUS
    <3>1. a.id \in Nat /\ a.cdr_id \in Nat /\ a.id <= realtimeLastId
      BY <1>0 DEF CalcInv, Leg
    <3>2. a.cdr_id < queue[1] \/ (a.cdr_id = queue[1] /\ a.leg = "orig")
      BY <1>0, <2>1 DEF CalcInv
    <3> QED
      BY <2>1, <2>2, <3>1, <3>2 DEF Before
  <2>5. /\ TypeOK' /\ FetchInv' /\ IdsFollowCdrs' /\ PartsInv' /\ SaveInv'
        /\ Known' = Known \cup {call}
    BY <1>0, <1>8, <2>1, <2>2, <2>3, <2>4, AddCallStep DEF CalcAddTerm
  <2>6. realtimeLastId' = realtimeLastId + 1 /\ queue' = queue /\ cdrLastId' = cdrLastId
    BY <1>8, <2>2, <2>3 DEF CalcAddTerm, addCall, cdrVars
  <2>7. CalcInv'
    <3>1. ASSUME NEW a \in Known'
          PROVE  a.id <= realtimeLastId + 1 /\ a.cdr_id <= cdrLastId
      <4>1. CASE a \in Known
        BY <1>0, <2>1, <4>1 DEF CalcInv, Leg
      <4>2. CASE a = call
        BY <1>0, <2>1, <2>2, <4>2 DEF FetchInv
      <4> QED
        BY <2>5, <4>1, <4>2
    <3>2. ASSUME NEW a \in Known', NEW i \in 1..Len(queue)
          PROVE  a.cdr_id < queue[i] \/ (i = 1 /\ a.cdr_id = queue[1])
      <4>1. CASE a \in Known
        BY <1>0, <2>1, <4>1 DEF CalcInv
      <4>2. CASE a = call /\ i = 1
        BY <2>2, <4>2
      <4>3. CASE a = call /\ i # 1
        BY <1>0, <2>1, <2>2, <4>3 DEF FetchInv
      <4> QED
        BY <2>5, <4>1, <4>2, <4>3
    <3> QED
      BY <2>1, <2>3, <2>6, <3>1, <3>2 DEF CalcInv
  <2> QED
    BY <2>5, <2>7 DEF IInv
<1>9. CASE CalcRemoveCdr
  <2> USE <1>9 DEF CalcRemoveCdr, fetchVars, callVars, saveVars
  <2>1. queue \in Seq(Nat) /\ Len(queue) \in Nat /\ Len(queue) > 0 /\ calcPc = "remove"
    BY <1>0 DEF TypeOK, CalcInv
  <2>2. /\ queue' \in Seq(Nat) /\ Len(queue') = Len(queue) - 1
        /\ \A i \in 1..Len(queue') : queue'[i] = queue[i + 1] /\ i + 1 \in 1..Len(queue)
    BY <2>1
  <2>3. TypeOK'
    BY <1>0, <2>2 DEF TypeOK
  <2>4. FetchInv'
    <3>1. ASSUME NEW i \in 1..Len(queue'), NEW j \in 1..Len(queue'), i < j
          PROVE  queue'[i] < queue'[j]
      <4>1. i + 1 < j + 1
        BY <3>1
      <4> QED
        BY <1>0, <2>2, <4>1 DEF FetchInv
    <3>2. \A i \in 1..Len(queue') : queue'[i] <= cdrLastId
      BY <1>0, <2>2 DEF FetchInv
    <3> QED
      BY <1>0, <3>1, <3>2 DEF FetchInv
  <2>5. Known' = Known /\ MemoryCalls' = MemoryCalls
    BY DEF Known, MemoryCalls
  <2>6. CalcInv'
    <3>1. ASSUME NEW a \in Known, NEW i \in 1..Len(queue') PROVE a.cdr_id < queue'[i]
      <4>1. i + 1 # 1
        OBVIOUS
      <4> QED
        BY <1>0, <2>2, <4>1 DEF CalcInv
    <3> QED
      BY <1>0, <2>5, <3>1 DEF CalcInv
  <2>7. IdsFollowCdrs' /\ PartsInv' /\ SaveInv'
    BY <1>0, <2>5 DEF IdsFollowCdrs, PartsInv, Before, SaveInv, SavedIsRemoved
  <2> QED
    BY <2>3, <2>4, <2>6, <2>7 DEF IInv
<1>10. CASE SaveStart
  <2> USE <1>10 DEF cdrVars, fetchVars, calcVars
  <2>1. /\ parts' \in Seq(Part) /\ Len(parts') > 1 /\ Len(parts') >= Len(parts)
        /\ \A i \in 1..Len(parts) : parts'[i] = parts[i]
        /\ \A i \in 1..Len(parts') : i > Len(parts) => parts'[i].calls = {}
        /\ MemoryCalls' = MemoryCalls
    BY <1>0, SaveStartParts
  <2>2. /\ UNCHANGED <<cdrCount, held, queue, cdrLastId, fetchPc, fetchRes, calcPc, lastCallId,
                       realtimeLastId, statsSum, storedLastId, saveBuf, server, faults>>
        /\ savePc = "idle" /\ savePc' = "begin"
    BY DEF SaveStart
  <2>3. Len(parts) \in Nat /\ Len(parts) > 0 /\ Len(parts') \in Nat
    BY <1>0, <2>1 DEF TypeOK
  <2>4. TypeOK'
    BY <1>0, <2>1, <2>2, <2>3 DEF TypeOK, Stmts
  <2>5. FetchInv'
    BY <1>0, <2>2 DEF FetchInv
  <2>6. Known' = Known
    BY <2>1, <2>2 DEF Known
  <2>7. CalcInv'
    BY <1>0, <2>2, <2>6 DEF CalcInv
  <2>8. IdsFollowCdrs'
    BY <1>0, <2>1, <2>2 DEF IdsFollowCdrs, Before
  <2>9. PartsInv'
    <3>1. ASSUME NEW i \in 1..Len(parts'), NEW j \in 1..Len(parts'), i < j,
                 NEW a \in parts'[i].calls, NEW b \in parts'[j].calls
          PROVE  a.id < b.id
      <4>1. j \in 1..Len(parts) /\ i \in 1..Len(parts)
        BY <2>1, <2>3, <3>1
      <4> QED
        BY <1>0, <2>1, <3>1, <4>1 DEF PartsInv
    <3> QED
      BY <1>0, <2>1, <2>2, <3>1 DEF PartsInv
  <2>10. SaveInv'
    <3>1. parts'[1] = parts[1]
      BY <2>1, <2>3
    <3> QED
      BY <1>0, <2>1, <2>2, <3>1 DEF SaveInv, SavedIsRemoved
  <2> QED
    BY <2>4, <2>5, <2>7, <2>8, <2>9, <2>10 DEF IInv
<1>11. ASSUME NEW stmt \in Stmts,
              ExecAnswered(stmt) \/ ExecOutage(stmt) \/ ExecReconnect(stmt) \/ ExecLostReply(stmt)
       PROVE  IInv'
  <2>1. /\ ExecPost
        /\ faults' \in [count : 0..MaxFaults, kinds : SUBSET FaultKinds]
        /\ UNCHANGED <<cdrCount, held, queue, cdrLastId, fetchPc, fetchRes, calcPc, lastCallId,
                       realtimeLastId, parts, statsSum, storedLastId>>
        /\ savePc # "idle"
    BY <1>0, <1>11, ExecStep DEF cdrVars, fetchVars, calcVars, callVars, Stmts
  <2>2. Len(parts) \in Nat /\ Len(parts) > 1 /\ MemoryCalls' = MemoryCalls
    BY <1>0, <2>1 DEF SaveInv, TypeOK, MemoryCalls
  <2>3. parts[1].calls \subseteq MemoryCalls
    BY <2>2 DEF MemoryCalls
  <2>4. /\ server'.calls \in {server.calls, server.calls \cup parts[1].calls}
        /\ server' \in Server
    BY <2>1 DEF ExecPost, SoundServer
  <2>5. Known' = Known
    BY <2>2, <2>3, <2>4 DEF Known
  <2>6. TypeOK'
    BY <1>0, <2>1, <2>4 DEF TypeOK, ExecPost
  <2>7. FetchInv'
    BY <1>0, <2>1 DEF FetchInv
  <2>8. CalcInv'
    BY <1>0, <2>1, <2>5 DEF CalcInv
  <2>9. IdsFollowCdrs'
    <3>1. \A a, b \in Known : (a.id < b.id <=> Before(a, b)) /\ (a.id = b.id => a = b)
      BY <1>0 DEF IdsFollowCdrs, Known
    <3>2. \A a, b \in Known' : (a.id < b.id <=> Before(a, b)) /\ (a.id = b.id => a = b)
      BY <2>5, <3>1
    <3> QED
      BY <3>2 DEF IdsFollowCdrs, Known, Before
  <2>10. PartsInv'
    <3>1. ASSUME NEW old \in server'.calls, NEW new \in MemoryCalls
          PROVE  new \in server'.calls \/ old.id < new.id
      <4>1. CASE old \in server.calls
        BY <1>0, <2>4, <4>1 DEF PartsInv
      <4>2. CASE old \in parts[1].calls /\ old \notin server.calls
        <5>1. PICK j \in 1..Len(parts) : new \in parts[j].calls
          BY DEF MemoryCalls
        <5>2. CASE j > 1
          <6>1. 1 \in 1..Len(parts) /\ 1 < j
            BY <2>2, <5>2
          <6> QED
            BY <1>0, <4>2, <5>1, <6>1 DEF PartsInv
        <5>3. CASE j = 1
          <6>1. new \in server'.calls \/ new.id > old.id
            <7>1. CASE server'.calls = server.calls
              BY <3>1, <4>2, <7>1
            <7>2. CASE server'.calls = server.calls \cup parts[1].calls
              BY <5>1, <5>3, <7>2
            <7> QED
              BY <2>4, <7>1, <7>2
          <6>2. new \in Leg /\ old \in Leg
            BY <1>0, <2>3, <4>2 DEF Known
          <6> QED
            BY <6>1, <6>2 DEF Leg
        <5> QED
          BY <5>1, <5>2, <5>3
      <4> QED
        BY <2>4, <4>1, <4>2
    <3> QED
      BY <1>0, <2>1, <2>2, <3>1 DEF PartsInv
  <2>11. SaveInv'
    BY <2>1, <2>2, <2>4 DEF SaveInv, SavedIsRemoved, ExecPost, SoundServer
  <2> QED
    BY <2>6, <2>7, <2>8, <2>9, <2>10, <2>11 DEF IInv
<1>12. CASE SaveRemove
  <2>1. /\ parts' \in Seq(Part) /\ parts' # <<>> /\ Len(parts') = Len(parts) - 1
        /\ \A i \in 1..Len(parts') : parts'[i] = parts[i + 1]
        /\ MemoryCalls' \subseteq MemoryCalls
    BY <1>0, <1>12, SaveRemoveParts
  <2>2. /\ UNCHANGED <<cdrCount, held, queue, cdrLastId, fetchPc, fetchRes, calcPc, lastCallId,
                       realtimeLastId, statsSum, server, faults>>
        /\ savePc = "remove" /\ savePc' = "idle" /\ saveBuf' = EmptyPart
        /\ storedLastId' = StoredAfterSave
    BY <1>12 DEF SaveRemove, cdrVars, fetchVars, calcVars
  <2>3. Len(parts) \in Nat /\ Len(parts) > 1
    BY <1>0, <2>2 DEF SaveInv, TypeOK
  <2>4. storedLastId' \in Nat
    <3>1. \A a \in parts[1].calls : a \in Known
      BY <2>3 DEF Known, MemoryCalls
    <3>2. \A a \in parts[1].calls : a.id \in Nat /\ a.id <= realtimeLastId
      BY <1>0, <3>1 DEF CalcInv, Leg
    <3>3. realtimeLastId \in Nat /\ storedLastId \in Nat
      BY <1>0 DEF TypeOK
    <3>4. MaxId(parts[1].calls) \in Nat
      <4> DEFINE S == {a.id : a \in parts[1].calls}
      <4>1. S \subseteq Nat /\ \A x \in S : x <= realtimeLastId
        BY <3>2
      <4> HIDE DEF S
      <4>2. MaxOrZero(S) \in Nat
        BY <3>3, <4>1, MaxOrZeroBound
      <4> QED
        BY <4>2 DEF MaxId, S
    <3> QED
      BY <2>2, <3>3, <3>4 DEF StoredAfterSave, FirstPart
  <2>5. TypeOK'
    <3>1. EmptyPart \in Part
      BY DEF EmptyPart, Part
    <3> QED
      BY <1>0, <2>1, <2>2, <2>4, <3>1 DEF TypeOK
  <2>6. FetchInv'
    BY <1>0, <2>2 DEF FetchInv
  <2>7. Known' \subseteq Known
    BY <2>1, <2>2 DEF Known
  <2>8. CalcInv'
    BY <1>0, <2>2, <2>7 DEF CalcInv
  <2>9. IdsFollowCdrs'
    BY <1>0, <2>1, <2>2 DEF IdsFollowCdrs, Before
  <2>10. PartsInv'
    <3>1. ASSUME NEW i \in 1..Len(parts'), NEW j \in 1..Len(parts'), i < j,
                 NEW a \in parts'[i].calls, NEW b \in parts'[j].calls
          PROVE  a.id < b.id
      <4>1. /\ i + 1 \in 1..Len(parts) /\ j + 1 \in 1..Len(parts) /\ i + 1 < j + 1
            /\ a \in parts[i + 1].calls /\ b \in parts[j + 1].calls
        BY <2>1, <2>3, <3>1
      <4> QED
        BY <1>0, <4>1 DEF PartsInv
    <3> QED
      BY <1>0, <2>1, <2>2, <3>1 DEF PartsInv
  <2>11. SaveInv'
    BY <1>0, <2>2 DEF SaveInv, SavedIsRemoved
  <2> QED
    BY <2>5, <2>6, <2>8, <2>9, <2>10, <2>11 DEF IInv
<1>13. CASE CrashRestart
  <2> DEFINE ids == {a.id : a \in server.calls}
             cids == {a.cdr_id : a \in server.calls}
  <2>1. /\ server' = Dropped(server) /\ queue' = <<>> /\ cdrLastId' = MaxOrZero(cids)
        /\ fetchPc' = "idle" /\ fetchRes' = <<>> /\ calcPc' = "idle" /\ lastCallId' = 0
        /\ realtimeLastId' = MaxOrZero(ids) /\ storedLastId' = MaxOrZero(ids)
        /\ parts' = <<EmptyPart>> /\ statsSum' = server.stats /\ savePc' = "idle"
        /\ saveBuf' = EmptyPart /\ cdrCount' = cdrCount /\ held' = held
    BY <1>13 DEF CrashRestart, MaxId, MaxCdrId
  <2>2. \A a \in server.calls : /\ a.id \in Nat /\ a.id <= realtimeLastId
                                /\ a.cdr_id \in Nat /\ a.cdr_id <= cdrLastId
    BY <1>0 DEF CalcInv, Known, Leg
  <2>3. realtimeLastId \in Nat /\ cdrLastId \in Nat
    BY <1>0 DEF TypeOK
  <2>4. /\ ids \subseteq Nat /\ \A x \in ids : x <= realtimeLastId
        /\ cids \subseteq Nat /\ \A x \in cids : x <= cdrLastId
    BY <2>2
  <2>5. \A a \in server.calls : a.id \in ids /\ a.cdr_id \in cids
    OBVIOUS
  <2> HIDE DEF ids, cids
  <2>6. /\ MaxOrZero(ids) \in Nat /\ \A x \in ids : x <= MaxOrZero(ids)
        /\ MaxOrZero(cids) \in Nat /\ \A x \in cids : x <= MaxOrZero(cids)
    BY <2>3, <2>4, MaxOrZeroBound
  <2>7. EmptyPart \in Part /\ EmptyPart.calls = {}
    BY DEF EmptyPart, Part
  <2>8. /\ server' \in Server /\ server'.calls = server.calls
        /\ ~ server'.inTx /\ server'.txCalls = {}
    BY <1>0, <2>1 DEF Dropped, Server, TypeOK
  <2>9. TypeOK'
    <3>1. faults' \in [count : 0..MaxFaults, kinds : SUBSET FaultKinds]
      BY <1>0, <1>13, PipelineAssumption DEF CrashRestart, Fault, TypeOK
    <3>2. statsSum' \in Nat
      BY <1>0, <2>1 DEF TypeOK, Server
    <3>3. parts' \in Seq(Part) /\ parts' # <<>>
      BY <2>1, <2>7
    <3> QED
      BY <1>0, <2>1, <2>6, <2>7, <2>8, <3>1, <3>2, <3>3 DEF TypeOK
  <2>10. FetchInv'
    BY <2>1 DEF FetchInv
  <2>11. MemoryCalls' = {}
    <3>1. Len(parts') = 1 /\ parts'[1].calls = {}
      BY <2>1, <2>7
    <3> QED
      BY <3>1 DEF MemoryCalls
  <2>12. Known' = server.calls
    BY <2>8, <2>11 DEF Known
  <2>13. CalcInv'
    BY <2>1, <2>5, <2>6, <2>12 DEF CalcInv
  <2>14. IdsFollowCdrs'
    BY <1>0, <2>8, <2>11 DEF IdsFollowCdrs, Before
  <2>15. PartsInv'
    BY <2>1, <2>11 DEF PartsInv
  <2>16. SaveInv'
    BY <2>1, <2>8 DEF SaveInv, SavedIsRemoved
  <2> QED
    BY <2>9, <2>10, <2>13, <2>14, <2>15, <2>16 DEF IInv
<1>14. CASE UNCHANGED vars
  <2>1. TypeOK'
    BY <1>0, <1>14 DEF vars, TypeOK, cdrVars, fetchVars, calcVars, callVars, saveVars
  <2> QED
    BY <1>14, <2>1, QuietStep DEF vars
<1> QED
  BY <1>1, <1>2, <1>3, <1>4, <1>5, <1>6, <1>7, <1>8, <1>9, <1>10, <1>11, <1>12, <1>13, <1>14
     DEF Next, Insert, Fetch, Calc, Save, DbFault

-----------------------------------------------------------------------------
(* What the pipeline keeps whatever fails.                                 *)

\* The invariant holds in every reachable state.
THEOREM PipelineInvariant == Spec => []IInv
<1>1. Init => IInv
  <2> SUFFICES ASSUME Init PROVE IInv
    OBVIOUS
  <2>1. EmptyPart \in Part /\ EmptyPart.calls = {}
    BY DEF EmptyPart, Part
  <2>2. /\ parts \in Seq(Part) /\ parts # <<>> /\ Len(parts) = 1 /\ parts[1].calls = {}
        /\ queue \in Seq(Nat) /\ Len(queue) = 0 /\ fetchRes \in Seq(Nat)
    BY <2>1 DEF Init
  <2>3. server \in Server /\ server.calls = {} /\ ~ server.inTx /\ server.txCalls = {}
    BY DEF Init, Server
  <2>4. MemoryCalls = {} /\ Known = {}
    BY <2>2, <2>3 DEF MemoryCalls, Known
  <2>5. TypeOK
    BY <2>1, <2>2, <2>3, PipelineAssumption DEF Init, TypeOK
  <2>6. FetchInv /\ CalcInv /\ IdsFollowCdrs /\ PartsInv /\ SaveInv
    BY <2>2, <2>3, <2>4
       DEF Init, FetchInv, CalcInv, IdsFollowCdrs, PartsInv, SaveInv, SavedIsRemoved, Known
  <2> QED
    BY <2>5, <2>6 DEF IInv
<1>2. IInv /\ [Next]_vars => IInv'
  BY IInvStep
<1> QED
  BY <1>1, <1>2, PTL DEF Spec

\* Type correctness, under every fault.
THEOREM TypeCorrect == Spec => []TypeOK
<1>1. IInv => TypeOK
  BY DEF IInv
<1> QED
  BY <1>1, PipelineInvariant, PTL

\* The ids of calls follow the order of their CDRs, in memory and in calls_raw.
THEOREM IdsAlwaysFollowCdrs == Spec => []IdsFollowCdrs
<1>1. IInv => IdsFollowCdrs
  BY DEF IInv
<1> QED
  BY <1>1, PipelineInvariant, PTL

\* The partition that is removed is the one that was written.
THEOREM SavedIsAlwaysRemoved == Spec => []SavedIsRemoved
<1>1. IInv => SavedIsRemoved
  BY DEF IInv, SaveInv
<1> QED
  BY <1>1, PipelineInvariant, PTL

\* No leg of a CDR is ever in calls_raw twice, whatever fails and restarts.
THEOREM NeverBilledTwice == Spec => []BilledOnce
<1>1. IInv => BilledOnce
  <2> SUFFICES ASSUME IInv, NEW a \in server.calls, NEW b \in server.calls,
                      a.cdr_id = b.cdr_id, a.leg = b.leg
               PROVE  a = b
    BY DEF BilledOnce
  <2>1. a \in Leg /\ b \in Leg
    BY DEF IInv, TypeOK, Server
  <2>2. ~ Before(a, b) /\ ~ Before(b, a)
    BY <2>1 DEF Before, Leg
  <2>3. ~ (a.id < b.id) /\ ~ (b.id < a.id)
    BY <2>2 DEF IInv, IdsFollowCdrs
  <2>4. a.id = b.id
    BY <2>1, <2>3 DEF Leg
  <2> QED
    BY <2>4 DEF IInv, IdsFollowCdrs
<1> QED
  BY <1>1, PipelineInvariant, PTL

\* calls_raw only ever grows, and at its end.
THEOREM AppendOnlyAlways == Spec => CallsRawAppendOnly
<1> DEFINE Grows == /\ server.calls \subseteq server'.calls
                    /\ \A new \in server'.calls \ server.calls, old \in server.calls :
                         new.id > old.id /\ new.cdr_id >= old.cdr_id
<1>1. ASSUME IInv, [Next]_vars PROVE Grows
  <2>1. ASSUME server'.calls = server.calls PROVE Grows
    BY <2>1
  <2>2. ASSUME NEW stmt \in Stmts,
               ExecAnswered(stmt) \/ ExecOutage(stmt) \/ ExecReconnect(stmt) \/ ExecLostReply(stmt)
        PROVE  Grows
    <3>1. ExecPost
      BY <1>1, <2>2, ExecStep DEF IInv
    <3>2. server'.calls \in {server.calls, server.calls \cup parts[1].calls}
      BY <3>1 DEF ExecPost, SoundServer
    <3>3. ASSUME NEW new \in parts[1].calls, new \notin server.calls, NEW old \in server.calls
          PROVE  new.id > old.id /\ new.cdr_id >= old.cdr_id
      <4>1. new \in MemoryCalls
        BY <1>1 DEF IInv, TypeOK, MemoryCalls
      <4>2. new \in Leg /\ old \in Leg
        BY <1>1, <4>1, KnownLegs DEF IInv, Known
      <4>3. old.id < new.id
        BY <1>1, <3>3, <4>1 DEF IInv, PartsInv
      <4>4. Before(old, new)
        BY <1>1, <4>1, <4>3 DEF IInv, IdsFollowCdrs
      <4> QED
        BY <4>2, <4>3, <4>4 DEF Before, Leg
    <3> QED
      BY <3>2, <3>3
  <2>3. CASE CrashRestart
    <3>1. server'.calls = server.calls
      BY <1>1, <2>3 DEF CrashRestart, Dropped, IInv, TypeOK, Server
    <3> QED
      BY <2>1, <3>1
  <2>4. CASE Insert \/ Fetch \/ Calc \/ SaveStart \/ SaveRemove \/ UNCHANGED vars
    <3>1. server' = server
      BY <2>4 DEF Insert, Fetch, Calc, InsertCdr, InsertCdrLate, CommitCdr, FetchQuery, FetchPush,
                  CalcFirstCdr, CalcAddOrig, CalcAddTerm, CalcRemoveCdr, SaveStart, SaveRemove, vars
    <3> QED
      BY <2>1, <3>1
  <2> HIDE DEF Grows
  <2> QED
    BY <1>1, <2>2, <2>3, <2>4 DEF Next, Save, DbFault
<1>2. IInv /\ [Next]_vars => [Grows]_vars
  BY <1>1
<1> QED
  BY <1>2, PipelineInvariant, PTL DEF Spec, CallsRawAppendOnly

-----------------------------------------------------------------------------
(* What it keeps after some kinds of faults only.                          *)

\* No statement has been repeated on a new connection.
Tame == faults.kinds \cap {"reconnect", "lostReply"} = {}

\* The database side of save: the transaction is open from BEGIN to COMMIT and
\* sees the first partition once its rows have been inserted.
TxInv ==
  /\ savePc \in {"create", "calls", "stats", "commit"} => server.inTx
  /\ savePc \in {"create", "calls"} => server.txCalls = server.calls
  /\ savePc \in {"stats", "commit"} => server.txCalls = server.calls \cup parts[1].calls
  /\ savePc = "remove" => parts[1].calls \subseteq server.calls

\* The CDR side, for the given legs of a CDR: no CDR is skipped by a page or
\* lost on its way through calc.
LossInv(legs) ==
  /\ held = {}
  /\ cdrLastId <= cdrCount
  /\ fetchPc = "push" =>
       /\ \A i \in 1..Len(fetchRes) : fetchRes[i] \in 1..cdrCount
       /\ \A c \in 1..cdrCount : c > cdrLastId =>
            \/ \E i \in 1..Len(fetchRes) : fetchRes[i] = c
            \/ c > fetchRes[Len(fetchRes)]
  /\ calcPc = "term" => HasLeg(queue[1], "orig")
  /\ calcPc = "remove" => queue[1] \in Technical \/ \A l \in legs : HasLeg(queue[1], l)
  /\ calcPc \in {"orig", "term"} => queue[1] \notin Technical
  /\ \A c \in Finished, l \in legs : HasLeg(c, l)

\* A fault is remembered, and so are the ones before it.
LEMMA FaultRemembered ==
  ASSUME NEW kind, Fault(kind)
  PROVE  kind \in faults'.kinds /\ faults.kinds \subseteq faults'.kinds
BY DEF Fault

\* No step forgets a fault.
LEMMA KindsGrow ==
  ASSUME [Next]_vars
  PROVE  faults.kinds \subseteq faults'.kinds
<1>1. ASSUME UNCHANGED faults PROVE faults.kinds \subseteq faults'.kinds
  BY <1>1
<1>2. CASE Insert
  BY <1>1, <1>2, FaultRemembered DEF Insert, InsertCdr, InsertCdrLate, CommitCdr
<1>3. CASE Fetch \/ Calc \/ Save \/ UNCHANGED vars
  BY <1>1, <1>3 DEF Fetch, Calc, Save, FetchQuery, FetchPush, CalcFirstCdr, CalcAddOrig, CalcAddTerm,
                    CalcRemoveCdr, SaveStart, ExecAnswered, SaveRemove, vars
<1>4. CASE DbFault \/ CrashRestart
  BY <1>4, FaultRemembered DEF DbFault, ExecOutage, ExecReconnect, ExecLostReply, CrashRestart
<1> QED
  BY <1>2, <1>3, <1>4 DEF Next

\* One statement of save.
LEMMA TxStep ==
  ASSUME IInv, TxInv, NEW stmt \in Stmts, ExecAnswered(stmt) \/ ExecOutage(stmt)
  PROVE  TxInv'
<1>1. savePc = stmt /\ parts' = parts
  BY DEF ExecAnswered, ExecOutage, AtStmt, callVars
<1>2. server \in Server
  BY DEF IInv, TypeOK
<1>3. ASSUME Throws(server) PROVE TxInv'
  BY <1>3 DEF Throws, TxInv
<1>4. ASSUME Succeeds(stmt, server) PROVE TxInv'
  <2> USE <1>1, <1>2, <1>4 DEF Succeeds, Server
  <2>1. CASE stmt = "begin"
    BY <2>1 DEF RunStmt, NextStmt, TxInv
  <2>2. CASE stmt = "create"
    BY <2>2 DEF RunStmt, NextStmt, TxInv
  <2>3. CASE stmt = "calls"
    <3>1. server.inTx /\ server.txCalls = server.calls /\ saveBuf = parts[1]
      BY <2>3 DEF TxInv, IInv, SaveInv, SavedIsRemoved
    <3>2. server' = [server EXCEPT !.txCalls = server.txCalls \cup saveBuf.calls, !.txStats = server.txStats]
      BY <2>3, <3>1 DEF RunStmt, Writes, SeenCalls, SeenStats
    <3>3. /\ server'.inTx /\ server'.calls = server.calls
          /\ server'.txCalls = server.calls \cup parts[1].calls
      BY <3>1, <3>2
    <3>4. savePc' = "stats"
      BY <2>3 DEF NextStmt
    <3> QED
      BY <3>3, <3>4 DEF TxInv
  <2>4. CASE stmt = "stats"
    <3>1. server.inTx /\ server.txCalls = server.calls \cup parts[1].calls
      BY <2>4 DEF TxInv
    <3>2. server' = [server EXCEPT !.txCalls = server.txCalls, !.txStats = saveBuf.stats]
      BY <2>4, <3>1 DEF RunStmt, Writes, SeenCalls
    <3>3. savePc' = "commit"
      BY <2>4 DEF NextStmt
    <3> QED
      BY <3>1, <3>2, <3>3 DEF TxInv
  <2>5. CASE stmt = "commit"
    <3>1. server.inTx /\ server.txCalls = server.calls \cup parts[1].calls
      BY <2>5 DEF TxInv
    <3>2. server'.calls = server.txCalls
      BY <2>5, <3>1 DEF RunStmt, Dropped
    <3>3. savePc' = "remove"
      BY <2>5 DEF NextStmt
    <3> QED
      BY <3>1, <3>2, <3>3 DEF TxInv
  <2> QED
    BY <2>1, <2>2, <2>3, <2>4, <2>5 DEF Stmts
<1>5. ASSUME Refused(stmt, server), SecondAttempt(stmt, server) PROVE Throws(server)
  <2>1. stmt = "calls" /\ SeenCalls(server) = server.calls
    BY <1>1, <1>5 DEF Refused, SeenCalls, TxInv
  <2>2. SeenCalls(Dropped(server)) = server.calls
    BY <1>2 DEF SeenCalls, Dropped, Server
  <2>3. Refused(stmt, Dropped(server))
    BY <1>5, <2>1, <2>2 DEF Refused
  <2> QED
    BY <1>5, <2>3 DEF SecondAttempt, Succeeds
<1> QED
  BY <1>3, <1>4, <1>5 DEF ExecAnswered, ExecOutage

\* Every step, as long as no statement is repeated on a new connection.
LEMMA TxInvStep ==
  ASSUME IInv, TxInv, Tame', [Next]_vars
  PROVE  TxInv'
<1>0. TypeOK /\ SaveInv
  BY DEF IInv
<1>1. CASE Insert \/ Fetch \/ CalcFirstCdr \/ CalcRemoveCdr \/ UNCHANGED vars
  <2>1. UNCHANGED <<savePc, server, parts>>
    BY <1>1 DEF Insert, Fetch, InsertCdr, InsertCdrLate, CommitCdr, FetchQuery, FetchPush,
                CalcFirstCdr, CalcRemoveCdr, vars, callVars, saveVars
  <2> QED
    BY <2>1 DEF TxInv
<1>2. CASE CalcAddOrig \/ CalcAddTerm
  <2> DEFINE call == IF calcPc = "orig" THEN OrigCall(Head(queue), lastCallId)
                                        ELSE TermCall(Head(queue), lastCallId)
  <2>1. addCall(call) /\ UNCHANGED <<savePc, server>> /\ calcPc \in {"orig", "term"}
    BY <1>2 DEF CalcAddOrig, CalcAddTerm, saveVars
  <2>2. Head(queue) = queue[1] /\ queue[1] \in Nat /\ lastCallId \in Nat
    BY <2>1 DEF IInv, TypeOK, CalcInv
  <2>3. call \in Leg
    BY <2>1, <2>2 DEF OrigCall, TermCall, Leg
  <2> HIDE DEF call
  <2>4. \A i \in 1..(Len(parts) - 1) : parts'[i] = parts[i]
    BY <1>0, <2>1, <2>3, AddCallParts
  <2>5. savePc # "idle" => Len(parts) \in Nat /\ Len(parts) > 1
    BY <1>0 DEF SaveInv, TypeOK
  <2>6. savePc # "idle" => parts'[1] = parts[1]
    BY <2>4, <2>5
  <2> QED
    BY <2>1, <2>6 DEF TxInv
<1>3. CASE SaveStart \/ SaveRemove \/ CrashRestart
  <2>1. savePc' \in {"idle", "begin"}
    BY <1>3 DEF SaveStart, SaveRemove, CrashRestart
  <2> QED
    BY <2>1 DEF TxInv
<1>4. ASSUME NEW stmt \in Stmts, ExecAnswered(stmt) \/ ExecOutage(stmt) PROVE TxInv'
  BY <1>4, TxStep
<1>5. ASSUME NEW stmt \in Stmts, ExecReconnect(stmt) \/ ExecLostReply(stmt) PROVE FALSE
  BY <1>5, FaultRemembered DEF ExecReconnect, ExecLostReply, Tame
<1> QED
  BY <1>1, <1>2, <1>3, <1>4, <1>5 DEF Next, Calc, Save, DbFault

\* A leg that is known stays known; so does a CDR that is billed.
LEMMA HasLegGrows ==
  ASSUME Known \subseteq Known', NEW c, NEW l, HasLeg(c, l)
  PROVE  HasLeg(c, l)'
BY DEF HasLeg, Known

\* A step that forgets no call, moves no CDR and leaves calc where it is.
LEMMA LossQuiet ==
  ASSUME NEW legs, LossInv(legs), Known \subseteq Known',
         UNCHANGED <<cdrCount, held, cdrVars, fetchVars, calcVars>>
  PROVE  LossInv(legs)'
<1>1. Finished' = Finished
  BY DEF Finished, Visible, cdrVars
<1>2. \A c \in Finished', l \in legs : HasLeg(c, l)'
  BY <1>1, HasLegGrows DEF LossInv
<1> QED
  BY <1>2, HasLegGrows DEF LossInv, cdrVars, fetchVars, calcVars

\* What is in calls_raw is a lower part of what is known: a leg before one that is
\* saved is saved, or not known at all.
LEMMA SavedFirst ==
  ASSUME IInv, NEW b \in server.calls, NEW a \in Known, Before(a, b)
  PROVE  a \in server.calls
<1>1. a.id < b.id /\ a \in Leg /\ b \in Leg
  BY KnownLegs DEF IInv, IdsFollowCdrs, Known
<1>2. ~ (b.id < a.id)
  BY <1>1 DEF Leg
<1> QED
  BY <1>2 DEF IInv, PartsInv, Known

\* A CDR that calc has come to, or has passed, has its legs among the known.
LEMMA KnownClosed ==
  ASSUME IInv, NEW legs, {"orig"} \subseteq legs, legs \subseteq {"orig", "term"}, LossInv(legs),
         NEW b \in Known, NEW c \in 1..b.cdr_id, c \notin Technical, NEW l \in legs,
         c < b.cdr_id \/ l = "orig"
  PROVE  HasLeg(c, l)
<1>1. b \in Leg /\ b.cdr_id \in Nat /\ c \in Nat /\ b.cdr_id <= cdrLastId /\ cdrLastId \in Nat
  BY KnownLegs DEF IInv, Leg, CalcInv, TypeOK
<1>2. c \in Visible \ Technical /\ c <= cdrLastId
  BY <1>1 DEF LossInv, Visible, IInv, TypeOK
<1>3. CASE \A i \in 1..Len(queue) : queue[i] # c
  BY <1>2, <1>3 DEF Finished, LossInv
<1>4. ASSUME NEW i \in 1..Len(queue), queue[i] = c PROVE HasLeg(c, l)
  <2>1. ~ (b.cdr_id < queue[i])
    BY <1>1, <1>4
  <2>2. i = 1 /\ b.cdr_id = queue[1]
    BY <2>1 DEF IInv, CalcInv
  <2>3. l = "orig"
    BY <1>1, <1>4, <2>2
  <2>4. CASE calcPc = "remove"
    BY <1>4, <2>2, <2>4 DEF LossInv
  <2>5. CASE calcPc # "remove"
    BY <1>4, <2>1, <2>2, <2>3, <2>5 DEF IInv, CalcInv, HasLeg, Known
  <2> QED
    BY <2>4, <2>5
<1> QED
  BY <1>3, <1>4

\* Every step keeps the loss invariant, a restart that of the originating legs.
LEMMA LossStep ==
  ASSUME IInv, TxInv, NEW legs, {"orig"} \subseteq legs, legs \subseteq {"orig", "term"}, LossInv(legs),
         [Next]_vars, faults'.kinds \subseteq {"crash", "outage"},
         "crash" \in faults'.kinds => legs = {"orig"}
  PROVE  LossInv(legs)'
<1>0. /\ TypeOK /\ FetchInv /\ CalcInv /\ SaveInv /\ held = {} /\ Visible = 1..cdrCount
      /\ cdrCount \in Nat /\ cdrLastId \in Nat
  BY DEF IInv, TypeOK, LossInv, Visible
<1>1. CASE InsertCdr
  <2> USE <1>1 DEF InsertCdr, cdrVars, fetchVars, calcVars, callVars, saveVars
  <2>1. Known' = Known
    BY DEF Known, MemoryCalls
  <2>2. Finished' = Finished
    <3>1. Visible' = 1..(cdrCount + 1)
      BY <1>0 DEF Visible
    <3>2. cdrLastId < cdrCount + 1
      BY <1>0 DEF LossInv
    <3>3. \A c \in 1..(cdrCount + 1) : c <= cdrLastId => c \in 1..cdrCount
      BY <1>0, <3>2
    <3> QED
      BY <1>0, <3>1, <3>3 DEF Finished
  <2>3. \A c \in Finished', l \in legs : HasLeg(c, l)'
    BY <2>1, <2>2, HasLegGrows DEF LossInv
  <2>4. fetchPc = "push" =>
          /\ \A i \in 1..Len(fetchRes) : fetchRes[i] \in 1..(cdrCount + 1)
          /\ \A c \in 1..(cdrCount + 1) : c > cdrLastId =>
               \/ \E i \in 1..Len(fetchRes) : fetchRes[i] = c
               \/ c > fetchRes[Len(fetchRes)]
    <3> SUFFICES ASSUME fetchPc = "push" PROVE
          /\ \A i \in 1..Len(fetchRes) : fetchRes[i] \in 1..(cdrCount + 1)
          /\ \A c \in 1..(cdrCount + 1) : c > cdrLastId =>
               \/ \E i \in 1..Len(fetchRes) : fetchRes[i] = c
               \/ c > fetchRes[Len(fetchRes)]
      OBVIOUS
    <3>1. \A i \in 1..Len(fetchRes) : fetchRes[i] \in 1..cdrCount
      BY DEF LossInv
    <3>2. Len(fetchRes) \in 1..Len(fetchRes)
      BY <1>0 DEF FetchInv, TypeOK
    <3>3. fetchRes[Len(fetchRes)] \in 1..cdrCount
      BY <3>1, <3>2
    <3>4. cdrCount + 1 > fetchRes[Len(fetchRes)]
      BY <1>0, <3>3
    <3>5. \A c \in 1..(cdrCount + 1) : c \in 1..cdrCount \/ c = cdrCount + 1
      BY <1>0
    <3>6. 1..cdrCount \subseteq 1..(cdrCount + 1)
      BY <1>0
    <3> QED
      BY <3>1, <3>4, <3>5, <3>6 DEF LossInv
  <2>5. cdrLastId <= cdrCount + 1
    BY <1>0 DEF LossInv
  <2> QED
    BY <2>1, <2>3, <2>4, <2>5, HasLegGrows DEF LossInv
<1>2. ASSUME InsertCdrLate PROVE FALSE
  BY <1>2, FaultRemembered DEF InsertCdrLate
<1>3. ASSUME NEW c \in held, CommitCdr(c) PROVE FALSE
  BY <1>0, <1>3
<1>4. CASE FetchQuery
  <2> USE <1>4 DEF FetchQuery, cdrVars, calcVars, callVars, saveVars
  <2>0. PICK n \in 1..CdrsPartitionSize : \E page \in [1..n -> Visible] :
          IsPage(page, cdrLastId, CdrsPartitionSize) /\ fetchRes' = page
    OBVIOUS
  <2>1. PICK page \in [1..n -> Visible] :
          IsPage(page, cdrLastId, CdrsPartitionSize) /\ fetchRes' = page
    BY <2>0
  <2>2. Len(page) = n /\ n \in Nat
    BY PipelineAssumption
  <2>3. Known' = Known
    BY DEF Known, MemoryCalls
  <2>4. Finished' = Finished
    BY DEF Finished, Visible
  <2>5. \A c \in Finished', l \in legs : HasLeg(c, l)'
    BY <2>3, <2>4, HasLegGrows DEF LossInv
  <2>6. \A i \in 1..Len(page) : page[i] \in 1..cdrCount
    BY <1>0, <2>1, <2>2
  <2>7. \A c \in 1..cdrCount : c > cdrLastId =>
          \/ \E i \in 1..Len(page) : page[i] = c
          \/ c > page[Len(page)]
    BY <1>0, <2>1 DEF IsPage
  <2> QED
    BY <2>1, <2>3, <2>5, <2>6, <2>7, HasLegGrows DEF LossInv
<1>5. CASE FetchPush
  <2> USE <1>5 DEF FetchPush, calcVars, callVars, saveVars
  <2> DEFINE m == Len(queue)  k == Len(fetchRes)
  <2>1. /\ m \in Nat /\ k \in Nat /\ k > 0 /\ queue \in Seq(Nat) /\ fetchRes \in Seq(Nat)
        /\ cdrLastId' = fetchRes[k]
    BY <1>0 DEF TypeOK, FetchInv
  <2>2. /\ Len(queue') = m + k
        /\ \A i \in 1..m : queue'[i] = queue[i]
        /\ \A i \in 1..k : queue'[m + i] = fetchRes[i] /\ m + i \in 1..(m + k)
    BY <2>1
  <2>3. Known' = Known
    BY DEF Known, MemoryCalls
  <2> HIDE DEF m, k
  <2>4. Finished' \subseteq Finished
    <3> SUFFICES ASSUME NEW c \in Finished' PROVE c \in Finished
      OBVIOUS
    <3>1. /\ c \in 1..cdrCount /\ c \notin Technical /\ c <= fetchRes[k]
          /\ \A i \in 1..(m + k) : queue'[i] # c
      BY <1>0, <2>1, <2>2 DEF Finished, Visible
    <3>2. \A i \in 1..k : fetchRes[i] # c
      BY <2>2, <3>1
    <3>3. c <= cdrLastId
      <4>1. CASE c > cdrLastId
        <5>1. c > fetchRes[k]
          BY <3>1, <3>2, <4>1 DEF LossInv, k
        <5>2. fetchRes[k] \in Nat /\ c \in Nat
          <6>1. k \in 1..Len(fetchRes)
            BY <2>1 DEF k
          <6> QED
            BY <2>1, <3>1, <6>1
        <5> QED
          BY <3>1, <5>1, <5>2
      <4>2. CASE ~ (c > cdrLastId)
        BY <1>0, <3>1, <4>2
      <4> QED
        BY <4>1, <4>2
    <3>4. \A i \in 1..m : queue[i] # c
      <4>1. \A i \in 1..m : i \in 1..(m + k)
        BY <2>1
      <4> QED
        BY <2>2, <3>1, <4>1
    <3> QED
      BY <1>0, <3>1, <3>3, <3>4 DEF Finished, m
  <2>5. \A c \in Finished', l \in legs : HasLeg(c, l)'
    BY <2>3, <2>4, HasLegGrows DEF LossInv
  <2>6. cdrLastId' <= cdrCount
    <3>1. k \in 1..k
      BY <2>1
    <3>2. fetchRes[k] \in 1..cdrCount
      BY <3>1 DEF LossInv, k
    <3> QED
      BY <1>0, <2>1, <3>2
  <2>7. calcPc # "idle" => queue'[1] = queue[1]
    <3>1. calcPc # "idle" => m > 0
      BY <1>0, <2>1 DEF CalcInv, m
    <3>2. calcPc # "idle" => 1 \in 1..m
      BY <2>1, <3>1
    <3> QED
      BY <2>2, <3>2
  <2>8. UNCHANGED <<calcPc, cdrCount, held>> /\ fetchPc' = "idle"
    OBVIOUS
  <2>9. PICK q : q = queue[1]
    OBVIOUS
  <2>10. calcPc # "idle" => queue'[1] = q
    BY <2>7, <2>9
  <2>11. /\ calcPc = "term" => HasLeg(q, "orig")
         /\ calcPc = "remove" => q \in Technical \/ \A l \in legs : HasLeg(q, l)
         /\ calcPc \in {"orig", "term"} => q \notin Technical
    BY <2>9 DEF LossInv
  <2>12. \A l : HasLeg(q, l) => \E a \in Known' : a.cdr_id = q /\ a.leg = l
    BY <2>3 DEF HasLeg, Known
  <2>13. held' = {} /\ cdrLastId' <= cdrCount' /\ fetchPc' # "push"
    BY <1>0, <2>6, <2>8
  <2>14. \A l : HasLeg(q, l) => (calcPc # "idle" => HasLeg(queue[1], l)')
    BY <2>10, <2>12 DEF HasLeg, Known
  <2>15. /\ calcPc' = "term" => HasLeg(queue[1], "orig")'
         /\ calcPc' = "remove" => queue'[1] \in Technical \/ \A l \in legs : HasLeg(queue[1], l)'
         /\ calcPc' \in {"orig", "term"} => queue'[1] \notin Technical
    BY <2>8, <2>10, <2>11, <2>14
  <2> QED
    BY <2>5, <2>13, <2>15 DEF LossInv
<1>6. CASE CalcFirstCdr
  <2> USE <1>6 DEF CalcFirstCdr, cdrVars, fetchVars, callVars, saveVars
  <2>1. Known' = Known
    BY DEF Known, MemoryCalls
  <2>2. Finished' = Finished
    BY DEF Finished, Visible
  <2>3. \A c \in Finished', l \in legs : HasLeg(c, l)'
    BY <2>1, <2>2, HasLegGrows DEF LossInv
  <2>4. Head(queue) = queue[1]
    BY <1>0 DEF TypeOK
  <2> QED
    BY <2>1, <2>3, <2>4 DEF LossInv
<1>7. CASE CalcAddOrig \/ CalcAddTerm
  <2> DEFINE call == IF calcPc = "orig" THEN OrigCall(Head(queue), lastCallId)
                                        ELSE TermCall(Head(queue), lastCallId)
  <2>1. /\ calcPc \in {"orig", "term"}
        /\ calcPc = "orig" => call = OrigCall(Head(queue), lastCallId) /\ calcPc' = "term"
        /\ calcPc = "term" => call = TermCall(Head(queue), lastCallId) /\ calcPc' = "remove"
        /\ addCall(call)
        /\ UNCHANGED <<cdrCount, held, queue, cdrLastId, fetchPc, fetchRes, lastCallId, savePc,
                       saveBuf, server>>
    BY <1>7 DEF CalcAddOrig, CalcAddTerm, cdrVars, fetchVars, saveVars
  <2>2. Head(queue) = queue[1] /\ queue[1] \in Nat /\ lastCallId \in Nat
    BY <1>0, <2>1 DEF TypeOK, CalcInv
  <2>3. /\ call \in Leg /\ call.cdr_id = queue[1]
        /\ calcPc = "orig" => call.leg = "orig"
        /\ calcPc = "term" => call.leg = "term"
    BY <2>1, <2>2 DEF OrigCall, TermCall, Leg
  <2> HIDE DEF call
  <2>4. /\ MemoryCalls' = MemoryCalls \cup {call}
        /\ \A i \in 1..(Len(parts) - 1) : parts'[i] = parts[i]
    BY <1>0, <2>1, <2>3, AddCallParts
  <2>5. Known \subseteq Known' /\ call \in Known'
    BY <2>1, <2>4 DEF Known
  <2>7. Finished' = Finished
    BY <2>1 DEF Finished, Visible
  <2>8. \A c \in Finished', l \in legs : HasLeg(c, l)'
    BY <2>5, <2>7, HasLegGrows DEF LossInv
  <2>9. PICK q : q = queue[1]
    OBVIOUS
  <2>10. \E a \in Known' : a.cdr_id = q /\ a.leg = call.leg
    BY <2>3, <2>5, <2>9
  <2>11. calcPc = "term" => \E a \in Known' : a.cdr_id = q /\ a.leg = "orig"
    BY <2>5, <2>9 DEF LossInv, HasLeg, Known
  <2>12. queue'[1] = q /\ q \notin Technical
    BY <2>1, <2>9 DEF LossInv
  <2>13. /\ held' = {} /\ cdrLastId' <= cdrCount'
         /\ fetchPc' = "push" =>
              /\ \A i \in 1..Len(fetchRes') : fetchRes'[i] \in 1..cdrCount'
              /\ \A c \in 1..cdrCount' : c > cdrLastId' =>
                   \/ \E i \in 1..Len(fetchRes') : fetchRes'[i] = c
                   \/ c > fetchRes'[Len(fetchRes')]
    BY <2>1 DEF LossInv
  <2> QED
    BY <2>1, <2>3, <2>8, <2>10, <2>11, <2>12, <2>13 DEF LossInv, HasLeg, Known
<1>8. CASE CalcRemoveCdr
  <2> USE <1>8 DEF CalcRemoveCdr, fetchVars, callVars, saveVars
  <2>1. queue \in Seq(Nat) /\ Len(queue) \in Nat /\ Len(queue) > 0 /\ calcPc = "remove"
    BY <1>0 DEF TypeOK, CalcInv
  <2>2. Len(queue') = Len(queue) - 1 /\ \A i \in 1..Len(queue') : queue'[i] = queue[i + 1]
    BY <2>1
  <2>3. Known' = Known
    BY DEF Known, MemoryCalls
  <2>4. Finished' \subseteq Finished \cup ({queue[1]} \ Technical)
    <3> SUFFICES ASSUME NEW c \in Finished', c # queue[1] PROVE c \in Finished
      BY DEF Finished
    <3>1. ASSUME NEW i \in 1..Len(queue) PROVE queue[i] # c
      <4>1. CASE i = 1
        BY <4>1
      <4>2. CASE i # 1
        <5>1. i - 1 \in 1..Len(queue') /\ queue'[i - 1] = queue[(i - 1) + 1] /\ (i - 1) + 1 = i
          BY <2>1, <2>2, <4>2
        <5> QED
          BY <5>1 DEF Finished
      <4> QED
        BY <4>1, <4>2
    <3> QED
      BY <3>1 DEF Finished, Visible
  <2>5. \A c \in Finished', l \in legs : HasLeg(c, l)'
    BY <2>1, <2>3, <2>4, HasLegGrows DEF LossInv
  <2> QED
    BY <2>3, <2>5 DEF LossInv
<1>9. CASE SaveStart
  <2>1. /\ MemoryCalls' = MemoryCalls /\ server' = server
        /\ UNCHANGED <<cdrCount, held, cdrVars, fetchVars, calcVars>>
        /\ savePc' = "begin"
    BY <1>0, <1>9, SaveStartParts DEF SaveStart
  <2> QED
    BY <2>1, LossQuiet DEF Known
<1>10. ASSUME NEW stmt \in Stmts, ExecAnswered(stmt) \/ ExecOutage(stmt)
       PROVE  LossInv(legs)'
  <2>2. /\ ExecPost /\ UNCHANGED <<cdrCount, held, cdrVars, fetchVars, calcVars>>
        /\ parts' = parts
    BY <1>0, <1>10, ExecStep DEF callVars
  <2>3. Known \subseteq Known'
    BY <2>2 DEF Known, MemoryCalls, ExecPost, SoundServer
  <2> QED
    BY <2>2, <2>3, LossQuiet
<1>11. ASSUME NEW stmt \in Stmts, ExecReconnect(stmt) \/ ExecLostReply(stmt) PROVE FALSE
  BY <1>11, FaultRemembered DEF ExecReconnect, ExecLostReply
<1>12. CASE SaveRemove
  <2>1. /\ Len(parts') = Len(parts) - 1
        /\ \A i \in 1..Len(parts') : parts'[i] = parts[i + 1]
    BY <1>0, <1>12, SaveRemoveParts
  <2>2. /\ server' = server /\ savePc = "remove" /\ savePc' = "idle"
        /\ UNCHANGED <<cdrCount, held, cdrVars, fetchVars, calcVars>>
    BY <1>12 DEF SaveRemove
  <2>4. Len(parts) \in Nat /\ Len(parts) > 1
    BY <1>0, <2>2 DEF SaveInv, TypeOK
  <2>5. ASSUME NEW x \in MemoryCalls PROVE x \in server.calls \cup MemoryCalls'
    <3>1. PICK i \in 1..Len(parts) : x \in parts[i].calls
      BY DEF MemoryCalls
    <3>2. CASE i = 1
      BY <2>2, <3>1, <3>2 DEF TxInv
    <3>3. CASE i # 1
      <4>1. i - 1 \in 1..Len(parts') /\ parts'[i - 1] = parts[(i - 1) + 1] /\ (i - 1) + 1 = i
        BY <2>1, <2>4, <3>3
      <4>2. x \in parts'[i - 1].calls
        BY <3>1, <4>1
      <4> QED
        BY <4>1, <4>2 DEF MemoryCalls
    <3> QED
      BY <3>2, <3>3
  <2>6. Known \subseteq Known'
    BY <2>2, <2>5 DEF Known
  <2> QED
    BY <2>2, <2>6, LossQuiet
<1>13. CASE UNCHANGED vars
  <2>1. Known' = Known
    BY <1>13 DEF vars, callVars, Known, MemoryCalls
  <2> QED
    BY <1>13, <2>1, LossQuiet DEF vars
<1>14. CASE CrashRestart
  <2>1. "crash" \in faults'.kinds /\ legs = {"orig"}
    BY <1>14, FaultRemembered DEF CrashRestart
  <2>2. /\ queue' = <<>> /\ cdrLastId' = MaxCdrId(server.calls) /\ fetchPc' = "idle" /\ calcPc' = "idle"
        /\ UNCHANGED <<cdrCount, held>> /\ server' = Dropped(server)
    BY <1>14 DEF CrashRestart
  <2>3. server'.calls = server.calls
    BY <1>0, <2>2 DEF TypeOK, Server, Dropped
  <2> DEFINE S == {a.cdr_id : a \in server.calls}
  <2>4. S \subseteq Nat /\ \A x \in S : x <= cdrLastId
    <3>1. \A a \in server.calls : a.cdr_id \in Nat /\ a.cdr_id <= cdrLastId
      BY <1>0, KnownLegs DEF CalcInv, Known, Leg
    <3> QED
      BY <3>1
  <2>5. MaxCdrId(server.calls) = MaxOrZero(S)
    BY DEF MaxCdrId
  <2>6. cdrLastId' \in Nat /\ (S = {} => cdrLastId' = 0) /\ (S # {} => cdrLastId' \in S)
    <3>1. MaxOrZero(S) \in Nat
      BY <1>0, <2>4, MaxOrZeroBound
    <3>2. S = {} => MaxOrZero(S) = 0
      BY DEF MaxOrZero
    <3>3. S # {} => MaxOrZero(S) \in S
      BY <1>0, <2>4, MaxOrZeroBound
    <3> QED
      BY <2>2, <2>5, <3>1, <3>2, <3>3
  <2>7. cdrLastId' <= cdrCount
    <3>1. cdrLastId <= cdrCount
      BY DEF LossInv
    <3>2. cdrLastId' <= cdrLastId
      <4> HIDE DEF S
      <4>1. cdrLastId' = 0 \/ cdrLastId' \in S
        BY <2>6
      <4>2. cdrLastId \in Nat
        BY <1>0
      <4>3. CASE cdrLastId' = 0
        BY <4>2, <4>3
      <4>4. CASE cdrLastId' \in S
        BY <2>4, <4>4
      <4> QED
        BY <4>1, <4>3, <4>4
    <3> QED
      BY <1>0, <2>6, <3>1, <3>2
  <2>8. ASSUME NEW c \in Finished' PROVE HasLeg(c, "orig")'
    <3>1. c \in 1..cdrCount /\ c \notin Technical /\ c <= cdrLastId'
      BY <1>0, <2>2 DEF Finished, Visible
    <3>2. S # {}
      BY <1>0, <2>6, <3>1
    <3>3. PICK b \in server.calls : b.cdr_id = cdrLastId'
      BY <2>6, <3>2
    <3>4. c \in 1..b.cdr_id
      BY <1>0, <2>6, <3>1, <3>3
    <3>5. HasLeg(c, "orig")
      BY <3>1, <3>4, KnownClosed DEF Known
    <3>6. PICK a \in Known : a.cdr_id = c /\ a.leg = "orig"
      BY <3>5 DEF HasLeg, Known
    <3>7. CASE Before(a, b)
      BY <2>3, <3>6, <3>7, SavedFirst DEF HasLeg
    <3>8. CASE ~ Before(a, b)
      <4>1. a.cdr_id = b.cdr_id /\ b.leg = "orig"
        BY <1>0, <2>6, <3>3, <3>4, <3>6, <3>8, KnownLegs DEF Before, Known, Leg
      <4> QED
        BY <2>3, <3>6, <4>1 DEF HasLeg
    <3> QED
      BY <3>7, <3>8
  <2> QED
    BY <1>0, <2>1, <2>2, <2>7, <2>8 DEF LossInv
<1> QED
  BY <1>1, <1>2, <1>3, <1>4, <1>5, <1>6, <1>7, <1>8, <1>9, <1>10, <1>11, <1>12, <1>13, <1>14
     DEF Next, Insert, Fetch, Calc, Save, DbFault

\* The loss invariant at the start: nothing is fetched, nothing is finished.
LEMMA LossInit ==
  ASSUME Init, NEW legs
  PROVE  TxInv /\ LossInv(legs)
<1>1. TxInv
  BY DEF Init, TxInv
<1>2. Finished = {}
  BY DEF Init, Finished, Visible
<1> QED
  BY <1>1, <1>2 DEF Init, LossInv

\* What the program's session and calls_raw look like as long as no statement is
\* repeated on a new connection.
THEOREM TransactionInvariant == Spec => [](Tame => TxInv)
<1>1. Init => (Tame => TxInv)
  BY LossInit
<1>2. IInv /\ (Tame => TxInv) /\ [Next]_vars => (Tame => TxInv)'
  <2>1. ASSUME [Next]_vars, Tame' PROVE Tame
    BY <2>1, KindsGrow DEF Tame
  <2> QED
    BY <2>1, TxInvStep
<1> QED
  BY <1>1, <1>2, PipelineInvariant, PTL DEF Spec

\* While statements fail only as a whole, and CDRs commit in order, no CDR is
\* skipped or lost anywhere on its way.
THEOREM NothingMissing ==
  ASSUME FaultKinds \subseteq {"outage"}
  PROVE  Spec => []LossInv({"orig", "term"})
<1> DEFINE Both == {"orig", "term"}
<1>1. Init => LossInv(Both)
  BY LossInit
<1>2. TypeOK => Tame
  BY DEF TypeOK, Tame
<1>3. ASSUME IInv, TypeOK', TxInv, LossInv(Both), [Next]_vars PROVE LossInv(Both)'
  <2>1. faults'.kinds \subseteq {"outage"}
    BY <1>3 DEF TypeOK
  <2> QED
    BY <1>3, <2>1, LossStep
<1>4. IInv /\ TypeOK' /\ TxInv /\ LossInv(Both) /\ [Next]_vars => LossInv(Both)'
  BY <1>3
<1> QED
  BY <1>1, <1>2, <1>4, PipelineInvariant, TypeCorrect, TransactionInvariant, PTL DEF Spec

\* In particular, a CDR that has left the queue has both its calls in memory or in
\* calls_raw.
THEOREM NothingLostByOutages ==
  ASSUME FaultKinds \subseteq {"outage"}
  PROVE  Spec => []NothingLost
<1>1. LossInv({"orig", "term"}) => NothingLost
  BY DEF LossInv, NothingLost
<1> QED
  BY <1>1, NothingMissing, PTL

\* Across any number of crashes and outages no CDR is lost as a whole: its
\* originating call is in memory or in calls_raw.
THEOREM OrigAlwaysSurvives == Spec => []OrigSurvives
<1> DEFINE Mild == faults.kinds \subseteq {"crash", "outage"}
           Orig == LossInv({"orig"})
<1>1. Init => (Mild => Orig)
  BY LossInit
<1>2. Mild => Tame
  BY DEF Tame
<1>3. ASSUME IInv, Tame => TxInv, Mild => Orig, [Next]_vars, Mild' PROVE Orig'
  <2>1. Mild
    BY <1>3, KindsGrow
  <2> QED
    BY <1>2, <1>3, <2>1, LossStep
<1>4. IInv /\ (Tame => TxInv) /\ (Mild => Orig) /\ [Next]_vars => (Mild => Orig)'
  BY <1>3
<1>5. (Mild => Orig) => OrigSurvives
  BY DEF LossInv, OrigSurvives, OrigNeverLost
<1> QED
  BY <1>1, <1>4, <1>5, PipelineInvariant, TransactionInvariant, PTL DEF Spec

-----------------------------------------------------------------------------
(***************************************************************************)
(* What the regional database promises its readers: that the statistics    *)
(* count the calls of calls_raw, and that calls_raw is a ledger.           *)
(***************************************************************************)

\* The calls that are saved once the first i partitions are.
UpTo(i) == server.calls \cup UNION {parts[j].calls : j \in 1..i}

\* The statistics of a partition are those that belong to its last call: saved
\* with it, they count what is then in calls_raw.  Only the last partition, which
\* is never saved, may be empty.
CountInv ==
  /\ IsFiniteSet(Known)
  /\ StatsMatchCalls
  /\ statsSum = Cardinality(Known)
  /\ \A i \in 1..(Len(parts) - 1) : parts[i].calls # {}
  /\ \A i \in 1..Len(parts) : parts[i].calls # {} => parts[i].stats = Cardinality(UpTo(i))
  /\ savePc = "commit" => server.txStats = parts[1].stats

\* Whatever is queued, billed or saved comes from a CDR that was written and is no
\* technical leg.
LegInv ==
  /\ \A i \in 1..Len(queue) : queue[i] \in 1..cdrCount
  /\ \A i \in 1..Len(fetchRes) : fetchRes[i] \in 1..cdrCount
  /\ calcPc \in {"orig", "term"} => queue[1] \notin Technical
  /\ \A a \in Known : a.cdr_id \in (1..cdrCount) \ Technical

-----------------------------------------------------------------------------
(* Every row is of a CDR that exists.                                      *)

\* What a step can add to the calls known: the call that calc adds.
LEMMA KnownStep ==
  ASSUME IInv, [Next]_vars
  PROVE  \/ Known' \subseteq Known
         \/ /\ CalcAddOrig \/ CalcAddTerm
            /\ \A a \in Known' \ Known : a.cdr_id = queue[1]
<1>0. TypeOK /\ SaveInv
  BY DEF IInv
<1>1. CASE Insert \/ Fetch \/ CalcFirstCdr \/ CalcRemoveCdr \/ UNCHANGED vars
  <2>1. UNCHANGED <<server, parts>>
    BY <1>1 DEF Insert, Fetch, InsertCdr, InsertCdrLate, CommitCdr, FetchQuery, FetchPush,
                CalcFirstCdr, CalcRemoveCdr, vars, callVars
  <2> QED
    BY <2>1 DEF Known, MemoryCalls
<1>2. CASE CalcAddOrig \/ CalcAddTerm
  <2> DEFINE call == IF calcPc = "orig" THEN OrigCall(Head(queue), lastCallId)
                                        ELSE TermCall(Head(queue), lastCallId)
  <2>1. addCall(call) /\ server' = server /\ calcPc \in {"orig", "term"}
    BY <1>2 DEF CalcAddOrig, CalcAddTerm
  <2>2. Head(queue) = queue[1] /\ queue[1] \in Nat /\ lastCallId \in Nat
    BY <2>1 DEF IInv, TypeOK, CalcInv
  <2>3. call \in Leg /\ call.cdr_id = queue[1]
    BY <2>1, <2>2 DEF OrigCall, TermCall, Leg
  <2> HIDE DEF call
  <2>4. MemoryCalls' = MemoryCalls \cup {call}
    BY <1>0, <2>1, <2>3, AddCallParts
  <2> QED
    BY <1>2, <2>1, <2>3, <2>4 DEF Known
<1>3. CASE SaveStart
  BY <1>0, <1>3, SaveStartParts DEF Known, SaveStart
<1>4. CASE SaveRemove
  BY <1>0, <1>4, SaveRemoveParts DEF Known, SaveRemove
<1>5. ASSUME NEW stmt \in Stmts,
             ExecAnswered(stmt) \/ ExecOutage(stmt) \/ ExecReconnect(stmt) \/ ExecLostReply(stmt)
      PROVE  Known' = Known
  <2>1. ExecPost /\ parts' = parts
    BY <1>0, <1>5, ExecStep DEF callVars
  <2>2. server'.calls \in {server.calls, server.calls \cup parts[1].calls}
    BY <2>1 DEF ExecPost, SoundServer
  <2>3. parts[1].calls \subseteq MemoryCalls /\ MemoryCalls' = MemoryCalls
    BY <1>0, <2>1 DEF TypeOK, MemoryCalls
  <2> QED
    BY <2>2, <2>3 DEF Known
<1>6. CASE CrashRestart
  <2>1. server' = Dropped(server) /\ parts' = <<EmptyPart>>
    BY <1>6 DEF CrashRestart
  <2>2. server'.calls = server.calls
    BY <1>0, <2>1 DEF TypeOK, Server, Dropped
  <2>3. Len(parts') = 1 /\ parts'[1].calls = {}
    BY <2>1 DEF EmptyPart
  <2>4. MemoryCalls' = {}
    BY <2>3 DEF MemoryCalls
  <2> QED
    BY <2>2, <2>4 DEF Known
<1> QED
  BY <1>1, <1>2, <1>3, <1>4, <1>5, <1>6 DEF Next, Calc, Save, DbFault

\* Every step keeps it.
LEMMA LegStep ==
  ASSUME IInv, LegInv, [Next]_vars
  PROVE  LegInv'
<1>0. TypeOK /\ CalcInv /\ FetchInv /\ cdrCount \in Nat /\ queue \in Seq(Nat) /\ fetchRes \in Seq(Nat)
  BY DEF IInv, TypeOK
<1>1. cdrCount' \in {cdrCount, cdrCount + 1} /\ 1..cdrCount \subseteq 1..cdrCount'
  <2>1. cdrCount' \in {cdrCount, cdrCount + 1}
    BY DEF Next, Insert, Fetch, Calc, Save, DbFault, InsertCdr, InsertCdrLate, CommitCdr, FetchQuery,
           FetchPush, CalcFirstCdr, CalcAddOrig, CalcAddTerm, CalcRemoveCdr, SaveStart, SaveRemove,
           ExecAnswered, ExecOutage, ExecReconnect, ExecLostReply, AtStmt, CrashRestart, vars
  <2> QED
    BY <1>0, <2>1
<1>2. \A a \in Known' : a.cdr_id \in (1..cdrCount') \ Technical
  <2>1. CASE Known' \subseteq Known
    BY <1>1, <2>1 DEF LegInv
  <2>2. CASE /\ CalcAddOrig \/ CalcAddTerm
             /\ \A a \in Known' \ Known : a.cdr_id = queue[1]
    <3>1. calcPc \in {"orig", "term"} /\ Len(queue) > 0
      BY <1>0, <2>2 DEF CalcAddOrig, CalcAddTerm, CalcInv
    <3>2. queue[1] \in (1..cdrCount) \ Technical
      BY <1>0, <3>1 DEF LegInv
    <3> QED
      BY <1>1, <2>2, <3>2 DEF LegInv
  <2> QED
    BY <2>1, <2>2, KnownStep
<1>3. ASSUME UNCHANGED <<queue, fetchRes, calcPc>> PROVE LegInv'
  BY <1>1, <1>2, <1>3 DEF LegInv
<1>4. CASE FetchQuery
  <2>1. PICK n \in 1..CdrsPartitionSize : \E page \in [1..n -> Visible] : fetchRes' = page
    BY <1>4 DEF FetchQuery
  <2>2. n \in Nat /\ fetchRes' \in [1..n -> Visible] /\ Len(fetchRes') = n
    BY <2>1, PipelineAssumption
  <2>3. \A i \in 1..Len(fetchRes') : fetchRes'[i] \in 1..cdrCount
    BY <2>2 DEF Visible
  <2>4. UNCHANGED <<queue, calcPc>>
    BY <1>4 DEF FetchQuery, cdrVars, calcVars
  <2> QED
    BY <1>1, <1>2, <2>3, <2>4 DEF LegInv
<1>5. CASE FetchPush
  <2>1. queue' = queue \o fetchRes /\ fetchRes' = <<>> /\ UNCHANGED <<calcPc, cdrCount>>
    BY <1>5 DEF FetchPush, calcVars
  <2>2. Len(queue') = Len(queue) + Len(fetchRes) /\ Len(queue) \in Nat /\ Len(fetchRes) \in Nat
    BY <1>0, <2>1
  <2>3. ASSUME NEW i \in 1..Len(queue') PROVE queue'[i] \in 1..cdrCount
    <3>1. CASE i <= Len(queue)
      BY <1>0, <2>1, <2>2, <3>1 DEF LegInv
    <3>2. CASE i > Len(queue)
      <4>1. i - Len(queue) \in 1..Len(fetchRes) /\ queue'[i] = fetchRes[i - Len(queue)]
        BY <1>0, <2>1, <2>2, <3>2
      <4> QED
        BY <4>1 DEF LegInv
    <3> QED
      BY <2>2, <3>1, <3>2
  <2>4. calcPc # "idle" => queue'[1] = queue[1]
    <3>1. calcPc # "idle" => 1 \in 1..Len(queue)
      BY <1>0 DEF CalcInv
    <3> QED
      BY <1>0, <2>1, <3>1
  <2>5. calcPc' \in {"orig", "term"} => queue'[1] \notin Technical
    BY <2>1, <2>4 DEF LegInv
  <2>6. \A i \in 1..Len(fetchRes') : fetchRes'[i] \in 1..cdrCount'
    BY <2>1
  <2> QED
    BY <1>2, <2>1, <2>3, <2>5, <2>6 DEF LegInv
<1>6. CASE CalcFirstCdr
  <2>1. UNCHANGED <<queue, fetchRes>> /\ queue # <<>>
        /\ calcPc' = IF Head(queue) \in Technical THEN "remove" ELSE "orig"
    BY <1>6 DEF CalcFirstCdr, cdrVars, fetchVars
  <2>2. Head(queue) = queue[1]
    BY <1>0, <2>1
  <2>3. calcPc' \in {"orig", "term"} => queue'[1] \notin Technical
    BY <2>1, <2>2
  <2> QED
    BY <1>1, <1>2, <2>1, <2>3 DEF LegInv
<1>7. CASE CalcAddOrig \/ CalcAddTerm
  <2>1. UNCHANGED <<queue, fetchRes>> /\ calcPc \in {"orig", "term"}
    BY <1>7 DEF CalcAddOrig, CalcAddTerm, cdrVars, fetchVars
  <2> QED
    BY <1>1, <1>2, <2>1 DEF LegInv
<1>8. CASE CalcRemoveCdr
  <2>1. queue' = Tail(queue) /\ calcPc = "remove" /\ calcPc' = "idle" /\ fetchRes' = fetchRes
    BY <1>8 DEF CalcRemoveCdr, fetchVars
  <2>2. Len(queue) \in Nat /\ Len(queue) > 0
    BY <1>0, <2>1 DEF CalcInv
  <2>3. Len(queue') = Len(queue) - 1 /\ \A i \in 1..Len(queue') : queue'[i] = queue[i + 1]
    BY <1>0, <2>1, <2>2
  <2>4. \A i \in 1..Len(queue') : i + 1 \in 1..Len(queue)
    BY <2>2, <2>3
  <2>5. \A i \in 1..Len(queue') : queue'[i] \in 1..cdrCount
    BY <2>3, <2>4 DEF LegInv
  <2>6. \A i \in 1..Len(fetchRes') : fetchRes'[i] \in 1..cdrCount
    BY <2>1 DEF LegInv
  <2> QED
    BY <1>1, <1>2, <2>1, <2>5, <2>6 DEF LegInv
<1>9. CASE CrashRestart
  <2>1. queue' = <<>> /\ fetchRes' = <<>> /\ calcPc' = "idle"
    BY <1>9 DEF CrashRestart
  <2> QED
    BY <1>2, <2>1 DEF LegInv
<1>10. CASE Insert \/ Save \/ DbFault \/ UNCHANGED vars
  <2>1. UNCHANGED <<queue, fetchRes, calcPc>>
    BY <1>10 DEF Insert, Save, DbFault, InsertCdr, InsertCdrLate, CommitCdr, SaveStart, SaveRemove,
                 ExecAnswered, ExecOutage, ExecReconnect, ExecLostReply, AtStmt, vars, cdrVars,
                 fetchVars, calcVars
  <2> QED
    BY <1>3, <2>1
<1> QED
  BY <1>4, <1>5, <1>6, <1>7, <1>8, <1>9, <1>10 DEF Next, Fetch, Calc

\* calls_raw holds rows of CDRs that were written and are no technical legs, and
\* nothing else, whatever fails.
THEOREM LegInvariant == Spec => []LegInv
<1>1. ASSUME Init PROVE LegInv
  <2>1. Len(queue) = 0 /\ Len(fetchRes) = 0 /\ calcPc = "idle" /\ server.calls = {}
    BY <1>1 DEF Init
  <2>2. Len(parts) = 1 /\ parts[1].calls = {}
    BY <1>1 DEF Init, EmptyPart
  <2>3. Known = {}
    BY <2>1, <2>2 DEF Known, MemoryCalls
  <2> QED
    BY <2>1, <2>3 DEF LegInv
<1>2. IInv /\ LegInv /\ [Next]_vars => LegInv'
  BY LegStep
<1> QED
  BY <1>1, <1>2, PipelineInvariant, PTL DEF Spec

-----------------------------------------------------------------------------
(* calls_raw is a ledger.                                                  *)

\* calls_raw as the ledger sees it, and what the ledger promises of its state.
Posted == {<<a.cdr_id, a.leg>> : a \in server.calls}
PostedInv == Posted \subseteq Ledger!Legs(cdrCount) /\ Ledger!PrefixClosed(Posted)

\* No leg below one that is saved is missing: it is known because no CDR is lost,
\* and saved because partitions are saved in the order of their ids.
LEMMA PostedClosed ==
  ASSUME IInv, LossInv({"orig", "term"}), LegInv
  PROVE  PostedInv
<1>1. Posted \subseteq Ledger!Legs(cdrCount)
  <2> SUFFICES ASSUME NEW a \in server.calls PROVE <<a.cdr_id, a.leg>> \in Ledger!Legs(cdrCount)
    BY DEF Posted
  <2>1. a \in Known /\ a \in Leg
    BY KnownLegs DEF IInv, Known
  <2>2. a.cdr_id \in (1..cdrCount) \ Technical /\ a.leg \in {"orig", "term"}
    BY <2>1 DEF LegInv, Leg
  <2> QED
    BY <2>2 DEF Ledger!Legs
<1>2. ASSUME NEW b \in Posted, NEW a \in Ledger!Legs(cdrCount), Ledger!Before(a, b)
      PROVE  a \in Posted
  <2>1. PICK y \in server.calls : b = <<y.cdr_id, y.leg>>
    BY DEF Posted
  <2>2. PICK c \in (1..cdrCount) \ Technical, l \in {"orig", "term"} : a = <<c, l>>
    BY DEF Ledger!Legs
  <2>3. y \in Known /\ y \in Leg /\ y.cdr_id \in Nat /\ c \in Nat /\ cdrCount \in Nat
    BY KnownLegs DEF IInv, TypeOK, Known, Leg
  <2>4. c < y.cdr_id \/ (c = y.cdr_id /\ l = "orig" /\ y.leg = "term")
    BY <1>2, <2>1, <2>2 DEF Ledger!Before
  <2>5. c \in 1..y.cdr_id /\ (c < y.cdr_id \/ l = "orig")
    BY <2>2, <2>3, <2>4
  <2>6. HasLeg(c, l)
    BY <2>2, <2>3, <2>5, KnownClosed
  <2>7. PICK x \in Known : x.cdr_id = c /\ x.leg = l
    BY <2>6 DEF HasLeg, Known
  <2>8. Before(x, y)
    BY <2>4, <2>7 DEF Before
  <2>9. x \in server.calls
    BY <2>7, <2>8, SavedFirst
  <2> QED
    BY <2>2, <2>7, <2>9 DEF Posted
<1> QED
  BY <1>1, <1>2 DEF PostedInv, Ledger!PrefixClosed

\* A step of the pipeline arrives, posts or stutters.
LEMMA LedgerStep ==
  ASSUME IInv, PostedInv', [Next]_vars
  PROVE  [Ledger!Next]_(Ledger!vars)
<1>0. TypeOK /\ SaveInv
  BY DEF IInv
<1>1. ASSUME UNCHANGED cdrCount, server'.calls = server.calls PROVE UNCHANGED Ledger!vars
  BY <1>1 DEF Ledger!vars
<1>2. CASE InsertCdr \/ InsertCdrLate
  <2>1. cdrCount < MaxCdr /\ cdrCount' = cdrCount + 1 /\ server' = server
    BY <1>2 DEF InsertCdr, InsertCdrLate
  <2>2. Ledger!Arrive
    BY <2>1 DEF Ledger!Arrive
  <2> QED
    BY <2>2 DEF Ledger!Next
<1>3. ASSUME NEW stmt \in Stmts,
             ExecAnswered(stmt) \/ ExecOutage(stmt) \/ ExecReconnect(stmt) \/ ExecLostReply(stmt)
      PROVE  [Ledger!Next]_(Ledger!vars)
  <2>1. ExecPost /\ cdrCount' = cdrCount
    BY <1>0, <1>3, ExecStep
  <2>2. server.calls \subseteq server'.calls
    BY <2>1 DEF ExecPost, SoundServer
  <2>3. Posted \subseteq Posted'
    BY <2>2 DEF Posted
  <2>4. CASE Posted' = Posted
    BY <2>1, <2>4 DEF Posted, Ledger!vars
  <2>5. CASE Posted' # Posted
    <3>1. Posted' \subseteq Ledger!Legs(cdrCount) /\ Ledger!PrefixClosed(Posted')
      BY <2>1 DEF PostedInv, Ledger!Legs, Ledger!PrefixClosed, Ledger!Before
    <3>2. Ledger!Post
      BY <2>1, <2>3, <2>5, <3>1 DEF Posted, Ledger!Post
    <3> QED
      BY <3>2 DEF Ledger!Next
  <2> QED
    BY <2>4, <2>5
<1>4. CASE CrashRestart
  <2>1. server'.calls = server.calls /\ cdrCount' = cdrCount
    BY <1>0, <1>4 DEF CrashRestart, Dropped, TypeOK, Server
  <2> QED
    BY <1>1, <2>1
<1>5. CASE (\E c \in held : CommitCdr(c)) \/ Fetch \/ Calc \/ SaveStart \/ SaveRemove \/ UNCHANGED vars
  <2>1. server' = server /\ cdrCount' = cdrCount
    BY <1>5 DEF Fetch, Calc, CommitCdr, FetchQuery, FetchPush, CalcFirstCdr, CalcAddOrig, CalcAddTerm,
                CalcRemoveCdr, SaveStart, SaveRemove, vars
  <2> QED
    BY <1>1, <2>1
<1> QED
  BY <1>2, <1>3, <1>4, <1>5 DEF Next, Insert, Save, DbFault

\* The safety half of ImplementsLedger, for every size and any number of outages:
\* the rows of calls_raw appear in batches with no leg missing below the last.
THEOREM PipelineIsLedger ==
  ASSUME FaultKinds \subseteq {"outage"}
  PROVE  Spec => Ledger!Spec
<1> DEFINE Both == {"orig", "term"}
<1>1. Init => Ledger!Init
  BY DEF Init, Ledger!Init
<1>2. IInv /\ LossInv(Both) /\ LegInv => PostedInv
  BY PostedClosed
<1>3. IInv /\ PostedInv' /\ [Next]_vars => [Ledger!Next]_(Ledger!vars)
  BY LedgerStep
<1> QED
  BY <1>1, <1>2, <1>3, PipelineInvariant, LegInvariant, NothingMissing, PTL DEF Spec, Ledger!Spec

-----------------------------------------------------------------------------
(* The statistics count the calls.                                         *)

\* Who is in UpTo(i), and that all partitions together are the calls known.
LEMMA UpToMember ==
  ASSUME NEW i, NEW x
  PROVE  /\ x \in UpTo(i) <=> x \in server.calls \/ \E j \in 1..i : x \in parts[j].calls
         /\ UpTo(Len(parts)) = Known
BY DEF UpTo, Known, MemoryCalls

\* A step of the partitions that leaves the i-th where it is, or moves it to i + d.
LEMMA CountKept ==
  ASSUME CountInv, NEW i \in 1..Len(parts), NEW k \in 1..Len(parts'),
         parts'[k] = parts[i], UpTo(k)' = UpTo(i)
  PROVE  parts'[k].calls # {} => parts'[k].stats = Cardinality(UpTo(k)')
BY DEF CountInv

\* A step of the other threads.
LEMMA CountQuiet ==
  ASSUME CountInv, UNCHANGED <<server, parts, statsSum, savePc>>
  PROVE  CountInv'
<1>1. Known' = Known
  BY DEF Known, MemoryCalls
<1>2. \A i : UpTo(i)' = UpTo(i)
  BY DEF UpTo
<1> QED
  BY <1>1, <1>2 DEF CountInv, StatsMatchCalls

\* calc adds a call: memory and the last partition count it.
LEMMA CountAdd ==
  ASSUME IInv, CountInv, CalcAddOrig \/ CalcAddTerm
  PROVE  CountInv'
<1> DEFINE call == IF calcPc = "orig" THEN OrigCall(Head(queue), lastCallId)
                                      ELSE TermCall(Head(queue), lastCallId)
<1>0. TypeOK /\ SaveInv /\ CalcInv
  BY DEF IInv
<1>1. /\ calcPc \in {"orig", "term"} /\ addCall(call) /\ UNCHANGED <<server, savePc>>
      /\ statsSum' = statsSum + 1
  BY DEF CalcAddOrig, CalcAddTerm, saveVars, addCall
<1>2. Head(queue) = queue[1] /\ queue[1] \in Nat /\ lastCallId \in Nat /\ realtimeLastId \in Nat
  BY <1>0, <1>1 DEF TypeOK, CalcInv
<1>3. call \in Leg /\ call.id > realtimeLastId
  BY <1>0, <1>1, <1>2 DEF OrigCall, TermCall, Leg, CalcInv
<1> HIDE DEF call
<1>4. call \notin Known
  <2> SUFFICES ASSUME call \in Known PROVE FALSE
    OBVIOUS
  <2>1. call.id <= realtimeLastId /\ call.id \in Nat
    BY <1>0, <1>3 DEF CalcInv, Leg
  <2> QED
    BY <1>2, <1>3, <2>1
<1>5. PICK n : n = Len(parts)
  OBVIOUS
<1>6. /\ n \in Nat \ {0} /\ Len(parts') \in {n, n + 1}
      /\ \A i \in 1..(n - 1) : parts'[i] = parts[i]
      /\ parts'[n].calls = parts[n].calls \cup {call}
      /\ parts'[n].stats = statsSum + 1
      /\ Len(parts') = n + 1 => parts'[n + 1].calls = {}
      /\ MemoryCalls' = MemoryCalls \cup {call}
  <2>1. n \in Nat \ {0}
    BY <1>0, <1>5 DEF TypeOK
  <2> QED
    BY <1>0, <1>1, <1>3, <1>5, <2>1, AddCallParts DEF StatsCopy
<1>7. Known' = Known \cup {call}
  BY <1>1, <1>6 DEF Known
<1>8. IsFiniteSet(Known') /\ Cardinality(Known') = statsSum + 1
  <2>1. IsFiniteSet(Known) /\ Cardinality(Known) = statsSum
    BY DEF CountInv
  <2> QED
    BY <1>4, <1>7, <2>1, FS_AddElement
<1>9. StatsMatchCalls'
  BY <1>1 DEF CountInv, StatsMatchCalls
<1>10. ASSUME NEW i \in 1..(Len(parts') - 1) PROVE parts'[i].calls # {}
  <2>1. i \in 1..(n - 1) \/ i = n
    BY <1>6
  <2> QED
    BY <1>5, <1>6, <2>1 DEF CountInv
<1>11. ASSUME NEW i \in 1..Len(parts'), parts'[i].calls # {}
       PROVE  parts'[i].stats = Cardinality(UpTo(i)')
  <2>1. i \in 1..(n - 1) \/ i = n \/ (i = n + 1 /\ Len(parts') = n + 1)
    BY <1>6
  <2>2. CASE i \in 1..(n - 1)
    <3>1. i \in Nat /\ i \in 1..Len(parts) /\ \A j \in 1..i : j \in 1..(n - 1)
      BY <1>5, <1>6, <2>2
    <3>2. UpTo(i)' = UpTo(i)
      BY <1>1, <1>6, <3>1 DEF UpTo
    <3>3. parts'[i] = parts[i]
      BY <1>6, <2>2
    <3> QED
      BY <1>11, <3>1, <3>2, <3>3, CountKept
  <2>3. CASE i = n
    <3>1. UpTo(n)' = Known'
      <4>1. ASSUME NEW x PROVE x \in UpTo(n)' <=> x \in Known'
        <5>1. x \in UpTo(n)' <=> x \in server'.calls \/ \E j \in 1..n : x \in parts'[j].calls
          BY DEF UpTo
        <5>2. x \in Known' <=> x \in server'.calls \/ \E j \in 1..Len(parts') : x \in parts'[j].calls
          BY DEF Known, MemoryCalls
        <5>3. \A j \in 1..Len(parts') : j \in 1..n \/ parts'[j].calls = {}
          BY <1>6
        <5>4. \A j \in 1..n : j \in 1..Len(parts')
          BY <1>6
        <5> QED
          BY <5>1, <5>2, <5>3, <5>4
      <4> QED
        BY <4>1
    <3> QED
      BY <1>6, <1>8, <2>3, <3>1
  <2> QED
    BY <1>6, <1>11, <2>1, <2>2, <2>3
<1>12. savePc' = "commit" => server'.txStats = parts'[1].stats
  <2>1. savePc # "idle" => n > 1
    BY <1>0, <1>5 DEF SaveInv
  <2>2. savePc # "idle" => parts'[1] = parts[1]
    BY <1>6, <2>1
  <2> QED
    BY <1>1, <2>2 DEF CountInv
<1> QED
  BY <1>1, <1>8, <1>9, <1>10, <1>11, <1>12 DEF CountInv

\* save cuts off a partition.
LEMMA CountStart ==
  ASSUME IInv, CountInv, SaveStart
  PROVE  CountInv'
<1>0. TypeOK /\ Len(parts) \in Nat \ {0}
  BY DEF IInv, TypeOK
<1>1. UNCHANGED <<server, statsSum>> /\ savePc' = "begin" /\ isNeedSave /\ parts' = PartsBeforeSave
  BY DEF SaveStart
<1>2. /\ Len(parts') >= Len(parts) /\ Len(parts') \in Nat
      /\ \A i \in 1..Len(parts) : parts'[i] = parts[i]
      /\ \A i \in 1..Len(parts') : i > Len(parts) => parts'[i].calls = {}
      /\ MemoryCalls' = MemoryCalls
  BY <1>0, SaveStartParts
<1>3. Known' = Known /\ StatsMatchCalls'
  BY <1>1, <1>2 DEF Known, StatsMatchCalls, CountInv
<1>4. ASSUME NEW i \in 1..(Len(parts') - 1) PROVE parts'[i].calls # {}
  <2>1. CASE Len(parts) = 1
    <3>1. parts' = Append(parts, EmptyPart) /\ parts[1].calls # {}
      BY <1>1, <2>1 DEF PartsBeforeSave, isNeedSave, FirstPart
    <3>2. Len(parts') = 2
      <4>1. parts \in Seq(Part) /\ EmptyPart \in Part
        BY <1>0 DEF TypeOK, EmptyPart, Part
      <4>2. Len(Append(parts, EmptyPart)) = Len(parts) + 1
        BY <4>1
      <4> QED
        BY <2>1, <3>1, <4>2
    <3> QED
      BY <1>2, <2>1, <3>1, <3>2
  <2>2. CASE Len(parts) # 1
    BY <1>1, <2>2 DEF PartsBeforeSave, CountInv
  <2> QED
    BY <2>1, <2>2
<1>5. ASSUME NEW i \in 1..Len(parts'), parts'[i].calls # {}
      PROVE  parts'[i].stats = Cardinality(UpTo(i)')
  <2>1. i \in 1..Len(parts)
    BY <1>0, <1>2, <1>5
  <2>2. \A j \in 1..i : j \in 1..Len(parts)
    BY <1>0, <2>1
  <2>3. UpTo(i)' = UpTo(i)
    BY <1>1, <1>2, <2>2 DEF UpTo
  <2>4. parts'[i] = parts[i]
    BY <1>2, <2>1
  <2> QED
    BY <1>5, <2>1, <2>3, <2>4, CountKept
<1> QED
  BY <1>1, <1>3, <1>4, <1>5 DEF CountInv

\* save drops the partition it has written.
LEMMA CountRemove ==
  ASSUME IInv, TxInv, CountInv, SaveRemove
  PROVE  CountInv'
<1>0. TypeOK /\ SaveInv
  BY DEF IInv
<1>1. UNCHANGED <<server, statsSum>> /\ savePc = "remove" /\ savePc' = "idle"
  BY DEF SaveRemove
<1>2. /\ Len(parts) \in Nat /\ Len(parts) > 1 /\ Len(parts') = Len(parts) - 1
      /\ \A i \in 1..Len(parts') : parts'[i] = parts[i + 1]
  BY <1>0, <1>1, SaveRemoveParts DEF SaveInv, TypeOK
<1>3. parts[1].calls \subseteq server.calls
  BY <1>1 DEF TxInv
<1>4. ASSUME NEW i \in 1..Len(parts') PROVE UpTo(i)' = UpTo(i + 1)
  <2>1. ASSUME NEW x PROVE x \in UpTo(i)' <=> x \in UpTo(i + 1)
    <3>1. x \in UpTo(i)' <=> x \in server.calls \/ \E j \in 1..i : x \in parts'[j].calls
      BY <1>1 DEF UpTo
    <3>2. x \in UpTo(i + 1) <=> x \in server.calls \/ \E j \in 1..(i + 1) : x \in parts[j].calls
      BY UpToMember
    <3>3. ASSUME NEW j \in 1..i PROVE parts'[j] = parts[j + 1] /\ j + 1 \in 1..(i + 1)
      BY <1>2
    <3>4. ASSUME NEW j \in 1..(i + 1), j # 1
          PROVE  j - 1 \in 1..i /\ parts'[j - 1] = parts[j]
      <4>1. j - 1 \in 1..i /\ j - 1 \in 1..Len(parts') /\ (j - 1) + 1 = j
        BY <1>2, <3>4
      <4>2. parts'[j - 1] = parts[(j - 1) + 1]
        BY <1>2, <4>1
      <4> QED
        BY <4>1, <4>2
    <3> QED
      BY <1>3, <3>1, <3>2, <3>3, <3>4
  <2> QED
    BY <2>1
<1>5. Known' = Known
  <2>0. PICK m : m = Len(parts')
    OBVIOUS
  <2>1. m \in 1..Len(parts') /\ m + 1 = Len(parts)
    BY <1>2, <2>0
  <2>2. UpTo(m)' = UpTo(m + 1)
    BY <1>4, <2>1
  <2>3. Known' = UpTo(m)'
    BY <2>0 DEF Known, MemoryCalls, UpTo
  <2>4. UpTo(m + 1) = Known
    BY <2>1, UpToMember
  <2> QED
    BY <2>2, <2>3, <2>4
<1>6. ASSUME NEW i \in 1..(Len(parts') - 1) PROVE parts'[i].calls # {}
  <2>1. i + 1 \in 1..(Len(parts) - 1) /\ i \in 1..Len(parts')
    BY <1>2
  <2> QED
    BY <1>2, <2>1 DEF CountInv
<1>7. ASSUME NEW i \in 1..Len(parts'), parts'[i].calls # {}
      PROVE  parts'[i].stats = Cardinality(UpTo(i)')
  <2>1. i + 1 \in 1..Len(parts)
    BY <1>2
  <2> QED
    BY <1>2, <1>4, <1>7, <2>1, CountKept
<1> QED
  BY <1>1, <1>5, <1>6, <1>7 DEF CountInv, StatsMatchCalls

\* A statement of save that is answered or fails as a whole.
LEMMA CountExec ==
  ASSUME IInv, TxInv, CountInv, NEW stmt \in Stmts, ExecAnswered(stmt) \/ ExecOutage(stmt)
  PROVE  CountInv'
<1>0. TypeOK /\ SaveInv /\ server \in Server
  BY DEF IInv, TypeOK
<1>1. /\ savePc = stmt /\ UNCHANGED <<parts, statsSum>>
      /\ server'.calls \in {server.calls, server.calls \cup parts[1].calls}
  BY <1>0, ExecStep DEF callVars, ExecPost, SoundServer
<1>2. Len(parts) \in Nat /\ Len(parts) > 1
  BY <1>0, <1>1 DEF SaveInv, TypeOK, Stmts
<1>3. \A i \in 1..Len(parts) : UpTo(i)' = UpTo(i)
  <2> SUFFICES ASSUME NEW i \in 1..Len(parts) PROVE UpTo(i)' = UpTo(i)
    OBVIOUS
  <2>1. 1 \in 1..i
    BY <1>2
  <2> QED
    BY <1>1, <2>1 DEF UpTo
<1>4. Known' = Known
  <2>1. 1 \in 1..Len(parts)
    BY <1>2
  <2> QED
    BY <1>1, <2>1 DEF Known, MemoryCalls
<1>5. ASSUME StatsMatchCalls', savePc' = "commit" => server'.txStats = parts[1].stats
      PROVE  CountInv'
  BY <1>1, <1>3, <1>4, <1>5 DEF CountInv
<1>6. ASSUME Throws(server) PROVE CountInv'
  <2>1. server' = Dropped(server) /\ savePc' = "idle"
    BY <1>6 DEF Throws
  <2>2. server'.calls = server.calls /\ server'.stats = server.stats
    BY <1>0, <2>1 DEF Dropped, Server
  <2> QED
    BY <1>5, <2>1, <2>2 DEF CountInv, StatsMatchCalls
<1>7. ASSUME Succeeds(stmt, server) PROVE CountInv'
  <2> USE <1>0, <1>1, <1>7 DEF Succeeds, Server
  <2>1. CASE stmt \in {"begin", "create", "calls"}
    <3>1. stmt = "calls" => server.inTx
      BY DEF TxInv
    <3>2. server'.calls = server.calls /\ server'.stats = server.stats
      BY <2>1, <3>1 DEF RunStmt, Writes, SeenCalls, SeenStats
    <3>3. savePc' # "commit"
      BY <2>1 DEF NextStmt
    <3> QED
      BY <1>5, <3>2, <3>3 DEF CountInv, StatsMatchCalls
  <2>2. CASE stmt = "stats"
    <3>1. server.inTx /\ saveBuf = parts[1]
      BY <2>2 DEF TxInv, SaveInv, SavedIsRemoved
    <3>2. server' = [server EXCEPT !.txCalls = server.txCalls, !.txStats = saveBuf.stats]
      BY <2>2, <3>1 DEF RunStmt, Writes, SeenCalls
    <3>3. server'.calls = server.calls /\ server'.stats = server.stats /\ server'.txStats = parts[1].stats
      BY <3>1, <3>2
    <3> QED
      BY <1>5, <3>3 DEF CountInv, StatsMatchCalls
  <2>3. CASE stmt = "commit"
    <3>1. server.inTx /\ server.txCalls = server.calls \cup parts[1].calls
          /\ server.txStats = parts[1].stats
      BY <2>3 DEF TxInv, CountInv
    <3>2. server'.calls = server.txCalls /\ server'.stats = server.txStats
      BY <2>3, <3>1 DEF RunStmt, Dropped
    <3>3. 1 \in 1..Len(parts) /\ 1 \in 1..(Len(parts) - 1)
      BY <1>2
    <3>4. parts[1].stats = Cardinality(UpTo(1))
      BY <3>3 DEF CountInv
    <3>5. UpTo(1) = server.calls \cup parts[1].calls
      BY DEF UpTo
    <3>6. savePc' # "commit"
      BY <2>3 DEF NextStmt
    <3> QED
      BY <1>5, <3>1, <3>2, <3>4, <3>5, <3>6 DEF StatsMatchCalls
  <2> QED
    BY <2>1, <2>2, <2>3 DEF Stmts
<1>8. ASSUME Refused(stmt, server), SecondAttempt(stmt, server) PROVE Throws(server)
  <2>1. stmt = "calls" /\ SeenCalls(server) = server.calls
    BY <1>1, <1>8 DEF Refused, SeenCalls, TxInv
  <2>2. SeenCalls(Dropped(server)) = server.calls
    BY <1>0 DEF SeenCalls, Dropped, Server
  <2>3. Refused(stmt, Dropped(server))
    BY <1>8, <2>1, <2>2 DEF Refused
  <2> QED
    BY <1>8, <2>3 DEF SecondAttempt, Succeeds
<1> QED
  BY <1>6, <1>7, <1>8 DEF ExecAnswered, ExecOutage

\* Memory forgets what is not saved and counts what is.
LEMMA CountRestart ==
  ASSUME IInv, CountInv, CrashRestart
  PROVE  CountInv'
<1>1. /\ server' = Dropped(server) /\ parts' = <<EmptyPart>> /\ statsSum' = server.stats
      /\ savePc' = "idle"
  BY DEF CrashRestart
<1>2. server'.calls = server.calls /\ server'.stats = server.stats
  BY <1>1 DEF IInv, TypeOK, Server, Dropped
<1>3. Len(parts') = 1 /\ parts'[1].calls = {}
  BY <1>1 DEF EmptyPart
<1>4. Known' = server.calls
  BY <1>2, <1>3 DEF Known, MemoryCalls
<1>5. IsFiniteSet(server.calls)
  BY FS_Subset DEF CountInv, Known
<1>6. \A i \in 1..Len(parts') : parts'[i].calls = {}
  BY <1>3
<1>7. \A i \in 1..(Len(parts') - 1) : FALSE
  BY <1>3
<1> QED
  BY <1>1, <1>2, <1>4, <1>5, <1>6, <1>7 DEF CountInv, StatsMatchCalls

\* As long as no statement is repeated on a new connection, the statistics in the
\* database count exactly the calls in it: after every crash, outage and late
\* commit, and for every size of the partitions.
THEOREM StatsAlwaysSurvive == Spec => []StatsSurvive
<1>1. ASSUME Init PROVE CountInv
  <2>1. /\ server.calls = {} /\ server.stats = 0 /\ statsSum = 0 /\ savePc = "idle"
        /\ Len(parts) = 1 /\ parts[1].calls = {}
    BY <1>1 DEF Init, EmptyPart
  <2>2. Known = {}
    BY <2>1 DEF Known, MemoryCalls
  <2>3. IsFiniteSet({}) /\ Cardinality({}) = 0
    BY FS_EmptySet
  <2>4. \A i \in 1..Len(parts) : parts[i].calls = {}
    BY <2>1
  <2>5. \A i \in 1..(Len(parts) - 1) : FALSE
    BY <2>1
  <2> QED
    BY <2>1, <2>2, <2>3, <2>4, <2>5 DEF CountInv, StatsMatchCalls
<1>2. ASSUME IInv, Tame => TxInv, Tame => CountInv, [Next]_vars, Tame' PROVE CountInv'
  <2>1. Tame
    BY <1>2, KindsGrow DEF Tame
  <2>2. TxInv /\ CountInv
    BY <1>2, <2>1
  <2>3. CASE Insert \/ Fetch \/ CalcFirstCdr \/ CalcRemoveCdr \/ UNCHANGED vars
    <3>1. UNCHANGED <<server, parts, statsSum, savePc>>
      BY <2>3 DEF Insert, Fetch, InsertCdr, InsertCdrLate, CommitCdr, FetchQuery, FetchPush,
                  CalcFirstCdr, CalcRemoveCdr, vars, callVars, saveVars
    <3> QED
      BY <2>2, <3>1, CountQuiet
  <2>4. ASSUME NEW stmt \in Stmts, ExecReconnect(stmt) \/ ExecLostReply(stmt) PROVE FALSE
    BY <1>2, <2>4, FaultRemembered DEF ExecReconnect, ExecLostReply, Tame
  <2>5. CASE CalcAddOrig \/ CalcAddTerm
    BY <1>2, <2>2, <2>5, CountAdd
  <2>6. CASE SaveStart
    BY <1>2, <2>2, <2>6, CountStart
  <2>7. CASE SaveRemove
    BY <1>2, <2>2, <2>7, CountRemove
  <2>8. ASSUME NEW stmt \in Stmts, ExecAnswered(stmt) \/ ExecOutage(stmt) PROVE CountInv'
    BY <1>2, <2>2, <2>8, CountExec
  <2>9. CASE CrashRestart
    BY <1>2, <2>2, <2>9, CountRestart
  <2> QED
    BY <1>2, <2>3, <2>4, <2>5, <2>6, <2>7, <2>8, <2>9 DEF Next, Calc, Save, DbFault
<1>3. Init => (Tame => CountInv)
  BY <1>1
<1>4. IInv /\ (Tame => TxInv) /\ (Tame => CountInv) /\ [Next]_vars => (Tame => CountInv)'
  BY <1>2
<1>5. (Tame => CountInv) => StatsSurvive
  BY DEF Tame, CountInv, StatsSurvive
<1> QED
  BY <1>3, <1>4, <1>5, PipelineInvariant, TransactionInvariant, PTL DEF Spec

=============================================================================
