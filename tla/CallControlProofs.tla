------------------------- MODULE CallControlProofs -------------------------
(***************************************************************************)
(* Two results about calls under control.                                  *)
(*                                                                         *)
(* Calls that go on keep their rows, however many calls, rounds of the     *)
(* threads, lost datagrams and restarts there are.  ThreadCheckStartTable  *)
(* looks at two places, one after the other: the rows the thread of        *)
(* current calls has published, and the switch's list.  What the proof     *)
(* rests on is that the ids are given in order: an id that is in a         *)
(* published row and not in the switch's list has gone, and does not come  *)
(* back.                                                                   *)
(*                                                                         *)
(* Calls of an account that is at its limit wait for each other: the       *)
(* second half of the module.                                              *)
(***************************************************************************)
EXTENDS CallControl, TarifficationProofs, FiniteSetTheorems, TLAPS

\* The switch's answer to SELECT has room for all the calls that go on.
AnswerFits == Cardinality(switch) <= MaxSelected

(***************************************************************************)
(* Ids everywhere are ids that were given, and the calls whose forced end  *)
(* is due have ended.                                                      *)
(***************************************************************************)
Given == 1..lastId
GivenIds ==
  /\ lastId \in Nat
  /\ switch \subseteq Given
  /\ \A row \in start : row.id \in Given
  /\ currentCdr # nullptr => \A row \in currentCdr : row.id \in Given
  /\ check \in [pc : {"idle", "select", "finish"}, cdrs : SUBSET Given, waiting : SUBSET Given]
WaitingHaveEnded == check.waiting \cap switch = {}
RowsInv == GivenIds /\ WaitingHaveEnded /\ OnlyEndedAreFinished

\* An answer that fits is the whole list of the switch.
LEMMA SelectIsSwitch ==
  ASSUME GivenIds, AnswerFits
  PROVE  select_calls = switch
<1>1. IsFiniteSet(switch)
  <2>1. IsFiniteSet(1..lastId)
    <3>1. 1 \in Int /\ lastId \in Int
      BY DEF GivenIds
    <3> QED BY <3>1, FS_Interval
  <2>2. switch \subseteq 1..lastId
    BY DEF GivenIds, Given
  <2> QED BY <2>1, <2>2, FS_Subset
<1>2. ASSUME NEW id \in switch
      PROVE  Cardinality({i \in switch : i < id}) < MaxSelected
  <2> DEFINE before == {i \in switch : i < id}
  <2>1. before \subseteq switch /\ before # switch
    BY DEF GivenIds, Given
  <2>2. /\ Cardinality(before) <= Cardinality(switch)
        /\ Cardinality(before) # Cardinality(switch)
    <3> HIDE DEF before
    <3> QED BY <1>1, <2>1, FS_Subset
  <2>3. IsFiniteSet(before)
    <3> HIDE DEF before
    <3> QED BY <1>1, <2>1, FS_Subset
  <2>4. Cardinality(before) \in Nat /\ Cardinality(switch) \in Nat
    BY <1>1, <2>3, FS_CardinalityType
  <2> HIDE DEF before
  <2>5. Cardinality(before) < MaxSelected
    BY <2>2, <2>4, SelectedAssumption DEF AnswerFits
  <2> QED BY <2>5 DEF before
<1> QED BY <1>2 DEF select_calls

-----------------------------------------------------------------------------
(* One lemma for each kind of step.                                        *)

\* A call that is granted has an id nobody has met.
LEMMA RequestKeepsRows ==
  ASSUME NEW request, RowsInv, Request(request)
  PROVE  RowsInv'
<1> DEFINE new == lastId + 1
<1>1. UNCHANGED <<currentCdr, check>>
  BY DEF Request, threads
<1>2. CASE UNCHANGED <<lastId, switch, start>>
  BY <1>1, <1>2 DEF RowsInv, GivenIds, Given, WaitingHaveEnded, OnlyEndedAreFinished
<1>3. CASE /\ lastId' = new
           /\ switch' = switch \cup {new}
           /\ \E row : row.id = new /\ start' = start \cup {row}
  <2>1. lastId' \in Nat /\ Given \subseteq Given' /\ new \in Given' /\ new \notin Given
    BY <1>3 DEF RowsInv, GivenIds, Given
  <2> HIDE DEF new
  <2>2. PICK row : row.id = new /\ start' = start \cup {row}
    BY <1>3
  <2>3. GivenIds'
    <3>1. switch' \subseteq Given'
      BY <1>3, <2>1 DEF RowsInv, GivenIds
    <3>2. \A x \in start' : x.id \in Given'
      BY <2>1, <2>2 DEF RowsInv, GivenIds
    <3>3. currentCdr' # nullptr => \A x \in currentCdr' : x.id \in Given'
      BY <1>1, <2>1 DEF RowsInv, GivenIds
    <3>4. check' \in [pc : {"idle", "select", "finish"}, cdrs : SUBSET Given', waiting : SUBSET Given']
      BY <1>1, <2>1 DEF RowsInv, GivenIds
    <3> QED BY <2>1, <3>1, <3>2, <3>3, <3>4 DEF GivenIds
  <2>4. WaitingHaveEnded'
    BY <1>1, <1>3, <2>1 DEF RowsInv, GivenIds, WaitingHaveEnded
  <2>5. OnlyEndedAreFinished'
    BY <1>3, <2>2 DEF RowsInv, OnlyEndedAreFinished
  <2> QED BY <2>3, <2>4, <2>5 DEF RowsInv
<1>4. \/ UNCHANGED <<lastId, switch, start>>
      \/ \E route : /\ lastId' = new
                    /\ switch' = switch \cup {new}
                    /\ start' = start \cup {Row(new, now, request, route)}
  BY DEF Request
<1>5. \A route : Row(new, now, request, route).id = new
  BY DEF Row
<1> QED BY <1>2, <1>3, <1>4, <1>5

\* A call that ends leaves the switch's list before its row leaves the table.
LEMMA EndKeepsRows ==
  ASSUME NEW id, RowsInv, switch' = switch \ {id}, Ended(id), UNCHANGED <<lastId, currentCdr, check>>
  PROVE  RowsInv'
<1>1. start' = {x \in start : x.id # id} \/ start' = start
  BY DEF Ended
<1>2. Given' = Given /\ switch' \subseteq switch /\ start' \subseteq start
  BY <1>1 DEF Given
<1>3. GivenIds'
  BY <1>2 DEF RowsInv, GivenIds
<1>4. WaitingHaveEnded'
  BY <1>2 DEF RowsInv, WaitingHaveEnded
<1>5. OnlyEndedAreFinished'
  BY <1>1 DEF RowsInv, OnlyEndedAreFinished
<1> QED BY <1>3, <1>4, <1>5 DEF RowsInv

\* Steps that touch neither calls, rows nor the check.
LEMMA OthersKeepRows ==
  ASSUME RowsInv, UNCHANGED <<lastId, switch, start, currentCdr, check>>
  PROVE  RowsInv'
BY DEF RowsInv, GivenIds, Given, WaitingHaveEnded, OnlyEndedAreFinished

LEMMA CurrentCallsKeepRows ==
  ASSUME RowsInv, CurrentCalls
  PROVE  RowsInv'
<1>1. CASE LoadCurrent
  BY <1>1 DEF LoadCurrent, RowsInv, GivenIds, Given, WaitingHaveEnded, OnlyEndedAreFinished
<1>2. CASE setCallsWaitingSaving
  BY <1>2, OthersKeepRows DEF setCallsWaitingSaving
<1>3. CASE setStatsAccount
  BY <1>3, OthersKeepRows DEF setStatsAccount
<1> QED BY <1>1, <1>2, <1>3 DEF CurrentCalls

LEMMA LimitCallsKeepRows ==
  ASSUME RowsInv, LimitCalls
  PROVE  RowsInv'
<1>1. CASE LimitControl
  BY <1>1, OthersKeepRows DEF LimitControl
<1>2. CASE LimitControlCall
  <2> DEFINE id == Head(kills).cdr_id
  <2>1. \/ switch' = switch \ {id} /\ Ended(id)
        \/ UNCHANGED <<switch, start>>
    BY <1>2 DEF LimitControlCall
  <2>2. UNCHANGED <<lastId, currentCdr, check>>
    BY <1>2 DEF LimitControlCall
  <2> HIDE DEF id
  <2> QED BY <2>1, <2>2, EndKeepsRows, OthersKeepRows
<1> QED BY <1>1, <1>2 DEF LimitCalls

\* The check: the published rows, the switch's list, the forced end.
LEMMA CheckKeepsRows ==
  ASSUME RowsInv, AnswerFits, CheckStartTable
  PROVE  RowsInv'
<1>0. UNCHANGED <<lastId, switch, currentCdr>> /\ Given' = Given
  BY DEF CheckStartTable, CheckSnapshot, CheckSelect, forceFinishCalls, Given
<1>1. CASE CheckSnapshot
  <2>1. /\ check' = [check EXCEPT !.pc = "select", !.cdrs = {row.id : row \in currentCdr}]
        /\ currentCdr # nullptr /\ start' = start
    BY <1>1 DEF CheckSnapshot
  <2>2. {row.id : row \in currentCdr} \subseteq Given
    BY <2>1 DEF RowsInv, GivenIds
  <2>3. check'.waiting = check.waiting
    BY <2>1 DEF RowsInv, GivenIds
  <2>4. check' \in [pc : {"idle", "select", "finish"}, cdrs : SUBSET Given, waiting : SUBSET Given]
    BY <2>1, <2>2 DEF RowsInv, GivenIds
  <2> QED BY <1>0, <2>1, <2>3, <2>4 DEF RowsInv, GivenIds, WaitingHaveEnded, OnlyEndedAreFinished
<1>2. CASE CheckSelect
  <2> DEFINE waiting == check.cdrs \ switch
  <2>1. spawnWaitingForFinishCalls(check.cdrs, select_calls) = waiting
    BY SelectIsSwitch DEF RowsInv, spawnWaitingForFinishCalls
  <2>2. start' = start /\ check' \in {Idle, [pc |-> "finish", cdrs |-> {}, waiting |-> waiting]}
    BY <1>2, <2>1 DEF CheckSelect
  <2>3. waiting \subseteq Given /\ waiting \cap switch = {}
    BY DEF RowsInv, GivenIds
  <2> HIDE DEF waiting
  <2>4. /\ check' \in [pc : {"idle", "select", "finish"}, cdrs : SUBSET Given, waiting : SUBSET Given]
        /\ check'.waiting \in {{}, waiting}
    BY <2>2, <2>3 DEF Idle
  <2> QED BY <1>0, <2>2, <2>3, <2>4 DEF RowsInv, GivenIds, WaitingHaveEnded, OnlyEndedAreFinished
<1>3. CASE forceFinishCalls
  <2> DEFINE finished == finishedCalls(check.waiting, {x.id : x \in currentCdr})
  <2>1. check' = Idle /\ start' = {row \in start : row.id \notin finished}
    BY <1>3 DEF forceFinishCalls
  <2>2. finished \subseteq check.waiting
    BY DEF finishedCalls
  <2> HIDE DEF finished
  <2>3. GivenIds'
    BY <1>0, <2>1 DEF RowsInv, GivenIds, Idle
  <2>4. WaitingHaveEnded'
    BY <2>1 DEF WaitingHaveEnded, Idle
  <2>5. OnlyEndedAreFinished'
    BY <1>0, <2>1, <2>2 DEF RowsInv, WaitingHaveEnded, OnlyEndedAreFinished
  <2> QED BY <2>3, <2>4, <2>5 DEF RowsInv
<1> QED BY <1>1, <1>2, <1>3 DEF CheckStartTable

LEMMA RestartKeepsRows ==
  ASSUME RowsInv, Restart
  PROVE  RowsInv'
BY DEF Restart, Unpublished, Idle, RowsInv, GivenIds, Given, WaitingHaveEnded, OnlyEndedAreFinished

LEMMA RowsInvStep ==
  ASSUME RowsInv, AnswerFits, [Next]_vars
  PROVE  RowsInv'
<1>1. ASSUME NEW request \in W.requests, Request(request) PROVE RowsInv'
  BY <1>1, RequestKeepsRows
<1>2. ASSUME NEW id \in switch, HangUp(id) PROVE RowsInv'
  BY <1>2, EndKeepsRows DEF HangUp, threads
<1>3. ASSUME NEW cdr \in cdrs, Bill(cdr) PROVE RowsInv'
  BY <1>3, OthersKeepRows DEF Bill, threads
<1>4. CASE Tick
  BY <1>4, OthersKeepRows DEF Tick, threads
<1>5. CASE UNCHANGED vars
  BY <1>5, OthersKeepRows DEF vars, threads
<1> QED BY <1>1, <1>2, <1>3, <1>4, <1>5, CurrentCallsKeepRows, LimitCallsKeepRows, CheckKeepsRows,
           RestartKeepsRows DEF Next

-----------------------------------------------------------------------------
(***************************************************************************)
(* As long as one answer to SELECT holds all the calls that go on, the     *)
(* forced end never removes the row of such a call: not of one that began  *)
(* between the thread's two looks or during its sleep, not of one whose    *)
(* earlier end was lost, and not after a restart                           *)
(* (ThreadCheckStartTable::run, forceFinishCalls).                         *)
(***************************************************************************)
THEOREM CallsKeepTheirRows == Spec /\ []AnswerFits => []OnlyEndedAreFinished
<1>1. Init => RowsInv
  BY DEF Init, Idle, RowsInv, GivenIds, Given, WaitingHaveEnded, OnlyEndedAreFinished
<1>2. RowsInv /\ AnswerFits /\ [Next]_vars => RowsInv'
  BY RowsInvStep
<1>3. RowsInv => OnlyEndedAreFinished
  BY DEF RowsInv
<1> QED BY <1>1, <1>2, <1>3, PTL DEF Spec

-----------------------------------------------------------------------------
(***************************************************************************)
(* Calls beside each other.  Granting a call that may cross a limit blocks *)
(* the account it is charged to; the block is looked up by the account of  *)
(* the next call, and it is not taken away before it has run out.  What    *)
(* has to be shown of the authorisation, with all its routing, is that it  *)
(* blocks nobody but the account the tariffication has found, and that a   *)
(* verdict against the call reaches the switch.                            *)
(***************************************************************************)

\* The fields of a processor the lemmas look at.
Form(p) ==
  /\ {"r", "m", "request", "response", "server", "origTrunk", "aNumber", "bNumber", "account",
      "billingNotReady", "blocked", "orders", "outcomeId", "verdict", "done", "stop"} \subseteq DOMAIN p
  /\ {"accept", "srcNumber", "dstNumber", "routeCase", "releaseReason", "airp"} \subseteq DOMAIN p.response

\* What routing leaves alone.
Same(p, q) ==
  Form(p) => /\ Form(q)
             /\ q.blocked = p.blocked /\ q.account = p.account
             /\ q.r = p.r /\ q.bNumber = p.bNumber /\ q.origTrunk = p.origTrunk

\* Leaving alone is transitive and reflexive; the setters of the answer do it.
LEMMA S_Trans ==
  ASSUME NEW p, NEW q, NEW u, Same(p, q), Same(q, u)
  PROVE  Same(p, u)
BY DEF Same

LEMMA S_Refl ==
  ASSUME NEW p
  PROVE  Same(p, p)
BY DEF Same

LEMMA S_Throw ==
  ASSUME NEW p, NEW w
  PROVE  Same(p, Throw(p, w))
BY DEF Same, Form, Throw

LEMMA S_Set ==
  ASSUME NEW p, NEW x
  PROVE  /\ Same(p, setRouteCase(p, x)) /\ Same(p, setReleaseReason(p, x))
         /\ Same(p, setAirp(p, x)) /\ Same(p, setAccept(p)) /\ Same(p, setReject(p))
<1>1. Same(p, setRouteCase(p, x))
  BY DEF Same, Form, setRouteCase
<1>2. Same(p, setReleaseReason(p, x))
  BY DEF Same, Form, setReleaseReason
<1>3. Same(p, setAirp(p, x))
  BY DEF Same, Form, setAirp
<1>4. Same(p, setAccept(p))
  BY DEF Same, Form, setAccept
<1>5. Same(p, setReject(p))
  BY DEF Same, Form, setReject
<1> QED BY <1>1, <1>2, <1>3, <1>4, <1>5

LEMMA S_Stations ==
  ASSUME NEW p, NEW x
  PROVE  Same(p, Stations(p, x))
BY DEF Same, Form, Stations

LEMMA S_RouteTable ==
  ASSUME NEW p, NEW x, NEW y
  PROVE  Same(p, processRouteTable(p, x, y))
BY DEF Same, Form, processRouteTable

LEMMA S_Term ==
  ASSUME NEW p, NEW x, NEW y
  PROVE  Same(p, getAvailableTermServiceTrunk(p, x, y))
BY DEF Same, Form, getAvailableTermServiceTrunk, Throw

LEMMA S_Auto ==
  ASSUME NEW p, NEW x
  PROVE  Same(p, processAutoOutcome(p, x))
<1>1. ASSUME NEW q PROVE Same(q, processAutoRouteResponse(q))
  BY S_Set DEF processAutoRouteResponse
<1> QED BY <1>1, S_Term, S_Trans DEF processAutoOutcome, Then

\* So does every outcome, the routes and the mega trunks included.
LEMMA S_Outcome ==
  ASSUME NEW p, NEW id, NEW mega, NEW skip
  PROVE  Same(p, processOutcome(p, id, mega, skip))
<1>1. ASSUME NEW q, NEW o PROVE Same(q, processRouteCaseOutcome(q, o))
  BY S_Set, S_Throw, S_Stations, S_Trans DEF processRouteCaseOutcome, Need
<1>2. ASSUME NEW q, NEW o PROVE Same(q, processReleaseReasonOutcome(q, o))
  BY S_Set, S_Throw DEF processReleaseReasonOutcome, Need
<1>3. ASSUME NEW q, NEW o PROVE Same(q, processAirpOutcome(q, o))
  BY S_Set, S_Throw, S_Stations, S_Trans DEF processAirpOutcome, Need
<1>4. ASSUME NEW q PROVE Same(q, processMegaTrunkPhase1(q, mega))
  BY S_Set, S_Throw DEF processMegaTrunkPhase1
<1>5. ASSUME NEW q PROVE Same(q, processMegaTrunkPhase2(q, mega))
  BY S_Set, S_Throw DEF processMegaTrunkPhase2, Need
<1> QED BY <1>1, <1>2, <1>3, <1>4, <1>5, S_Auto, S_Set, S_Throw DEF processOutcome, Need

Verdicts == {"accept", "reject", "low_balance", "voip_disabled"}
\* And the choice of the outcome by the verdict.
LEMMA S_Verdict ==
  ASSUME NEW p, NEW mega, p.verdict \in Verdicts
  PROVE  Same(p, Outcome(p, mega))
<1>1. ASSUME NEW q PROVE Same(q, [q EXCEPT !.done = TRUE])
  BY DEF Same, Form
<1>2. ASSUME NEW id PROVE Same(p, [p EXCEPT !.outcomeId = id])
  BY DEF Same, Form
<1>3. Same(p, p)
  BY S_Refl
<1> QED BY <1>1, <1>2, <1>3, S_RouteTable, S_Set, S_Trans DEF Outcome, Verdicts

\* A block that was added, or nothing.
Blocked(old, new, id, time) ==
  /\ id \notin DOMAIN old /\ id \in DOMAIN new
  /\ new[id].until = time + BlockTime
  /\ \A a \in DOMAIN old : a \in DOMAIN new /\ new[a] = old[a]

Blocks(old, new, id, time) == new = old \/ Blocked(old, new, id, time)
\* isLowBalance adds a block of its client, with the full time, or nothing.
LEMMA LowBalanceBlocks ==
  ASSUME NEW p, NEW client, NEW call, NEW reason, NEW s, NEW old, client.id \notin DOMAIN old,
         Blocks(old, p.blocked, client.id, p.r.now)
  PROVE  Blocks(old, isLowBalance(p, client, call, reason, s).blocked, client.id, p.r.now)
<1> DEFINE new == BlockedBy(p, client, reason)
<1>1. Blocked(old, new, client.id, p.r.now)
  BY DEF Blocks, Blocked, BlockedBy, Put
<1>2. isLowBalance(p, client, call, reason, s).blocked \in {p.blocked, new}
  BY DEF isLowBalance
<1> QED BY <1>1, <1>2 DEF Blocks

\* What analyzeCall does to the processor.
Only(p, q) ==
  Form(p) => /\ Form(q) /\ q.account = p.account
             /\ q.r = p.r /\ q.bNumber = p.bNumber /\ q.origTrunk = p.origTrunk
             /\ q.server = p.server /\ q.response = p.response /\ q.stop = p.stop /\ q.done = p.done

\* analyzeCall: a call that is not checked and blocks nobody; a verdict against
\* the call that blocks nobody; or a call of a client without a block, which may
\* block this client.
LEMMA Analyzed ==
  ASSUME NEW p, NEW call, Form(p)
  PROVE  LET q == analyzeCall(p, call)
             client == getAccount(p.r, call.account_id)
         IN /\ Only(p, q) /\ q.verdict \in Verdicts
            /\ \/ Unchecked(p) /\ q.verdict = "accept" /\ q.blocked = p.blocked
               \/ q.verdict # "accept" /\ q.blocked = p.blocked
               \/ /\ call.account_id # 0 /\ client # nullptr /\ client.id \notin DOMAIN p.blocked
                  /\ Blocks(p.blocked, q.blocked, client.id, p.r.now)
<1> DEFINE client == getAccount(p.r, call.account_id)
           credit == isLowBalance(p, client, call, REASON_NO_BALANCE, "balance")
           a == [p EXCEPT !.blocked = credit.blocked]
           day == isLowBalance(a, client, call, REASON_DAILY_LIMIT, "day")
           b == IF isLocal(call) THEN a ELSE [a EXCEPT !.blocked = day.blocked]
           mn  == isLowBalance(b, client, call, REASON_DAILY_LIMIT, "mn")
           c == IF isInternational(call) THEN [b EXCEPT !.blocked = mn.blocked] ELSE b
           Said(x) == {[x EXCEPT !.verdict = v] : v \in Verdicts}
           q == analyzeCall(p, call)
           Good(x) == Form(x) /\ Only(p, x) /\ Blocks(p.blocked, x.blocked, client.id, p.r.now)
<1>0. ASSUME NEW x, Form(x), NEW y
      PROVE  LET z == [x EXCEPT !.blocked = y] IN Form(z) /\ Only(x, z) /\ z.blocked = y
  BY <1>0 DEF Form, Only
<1>1. ASSUME NEW x, Form(x), NEW y \in Said(x)
      PROVE  Form(y) /\ Only(x, y) /\ y.blocked = x.blocked /\ y.verdict \in Verdicts
  BY <1>1 DEF Form, Only
<1>2. CASE client.id \in DOMAIN p.blocked \/ client = nullptr \/ call.account_id = 0
  <2>1. CASE Unchecked(p)
    <3>1. q = [p EXCEPT !.verdict = "accept"]
      BY <2>1 DEF analyzeCall
    <3> HIDE DEF q
    <3> QED BY <2>1, <3>1 DEF Form, Only, Verdicts, q
  <2>2. CASE ~Unchecked(p) /\ (call.account_id = 0 \/ client = nullptr)
    <3>1. q = [p EXCEPT !.verdict = "reject"]
      BY <2>2 DEF analyzeCall
    <3> HIDE DEF q
    <3> QED BY <3>1 DEF Form, Only, Verdicts, q
  <2>3. CASE ~Unchecked(p) /\ ~(call.account_id = 0 \/ client = nullptr)
    <3> DEFINE v == IF p.blocked[client.id].reason = REASON_NO_BALANCE THEN "low_balance" ELSE "voip_disabled"
    <3>1. q = [p EXCEPT !.verdict = v]
      BY <1>2, <2>3 DEF analyzeCall
    <3>2. v \in Verdicts \ {"accept"}
      BY DEF Verdicts
    <3> HIDE DEF q, v
    <3> QED BY <3>1, <3>2 DEF Form, Only, q
  <2> QED BY <2>1, <2>2, <2>3
<1>3. CASE client.id \notin DOMAIN p.blocked /\ client # nullptr /\ call.account_id # 0
  <2> HIDE DEF client
  <2>0. Good(p)
    BY DEF Only, Blocks
  <2>1. Good(a)
    <3>1. Blocks(p.blocked, credit.blocked, client.id, p.r.now)
      BY <1>3, <2>0, LowBalanceBlocks
    <3> HIDE DEF credit
    <3> QED BY <1>0, <2>0, <3>1 DEF Only
  <2> HIDE DEF a
  <2>2. Good(b)
    <3>1. Blocks(p.blocked, day.blocked, client.id, p.r.now)
      BY <1>3, <2>1, LowBalanceBlocks DEF Only
    <3> HIDE DEF day
    <3> QED BY <1>0, <2>1, <3>1 DEF Only
  <2> HIDE DEF b
  <2>3. Good(c)
    <3>1. Blocks(p.blocked, mn.blocked, client.id, p.r.now)
      BY <1>3, <2>2, LowBalanceBlocks DEF Only
    <3> HIDE DEF mn
    <3> QED BY <1>0, <2>2, <3>1 DEF Only
  <2>4. CASE Unchecked(p)
    <3>1. q = [p EXCEPT !.verdict = "accept"]
      BY <2>4 DEF analyzeCall
    <3> HIDE DEF q
    <3> QED BY <2>4, <3>1 DEF Form, Only, Verdicts, q
  <2>5. CASE ~Unchecked(p)
    <3>1. q \in Said(p) \cup Said(a) \cup Said(b) \cup Said(c)
      BY <1>3, <2>5 DEF analyzeCall, a, b, c, Verdicts, client
    <3> HIDE DEF q, c, Said
    <3>2. ASSUME NEW x, Good(x), q \in Said(x) PROVE Good(q) /\ q.verdict \in Verdicts
      BY <1>1, <3>2 DEF Only
    <3>3. Good(q) /\ q.verdict \in Verdicts
      BY <2>0, <2>1, <2>2, <2>3, <3>1, <3>2
    <3> QED BY <1>3, <3>3 DEF q, client
  <2> QED BY <2>4, <2>5
<1> QED BY <1>2, <1>3

\* A release reason is no grant.
LEMMA Released ==
  ASSUME NEW p, NEW name, name # nullptr, Form(p)
  PROVE  ~Granted(setReleaseReason(p, name).response)
BY DEF Form, Granted, setReleaseReason

\* A verdict against the call reaches the switch, where refusals refuse.
LEMMA RefusalsReach ==
  ASSUME NEW p, NEW mega, NEW skip, Form(p), p.stop = "", p.done = FALSE,
         p.verdict \in Verdicts \ {"accept"}, Refuses(p.r), p.server \in p.r.server
  PROVE  LET q == Routed(p, mega, skip)
         IN q.stop = "" /\ ~Granted(q.response)
<1> DEFINE q == Routed(p, mega, skip)
           rejected == setReject([p EXCEPT !.done = TRUE])
           With(id) == [p EXCEPT !.outcomeId = id]
           outcomes == {p.server.blocked_outcome_id, p.server.low_balance_outcome_id} \ {0}
<1>1. rejected.stop = "" /\ rejected.done = TRUE /\ ~Granted(rejected.response)
  BY DEF Form, Granted, setReject
<1>2. \/ Outcome(p, mega) = rejected
      \/ \E id \in outcomes : Outcome(p, mega) = With(id)
  BY DEF Outcome, Verdicts
<1>3. CASE Outcome(p, mega) = rejected
  <2> HIDE DEF rejected
  <2> QED BY <1>1, <1>3 DEF Routed
<1>4. ASSUME NEW id \in outcomes, Outcome(p, mega) = With(id)
      PROVE  q.stop = "" /\ ~Granted(q.response)
  <2> DEFINE x == With(id)
             outcome == getOutcome(x.r, id)
             reason == getReleaseReason(x.r, outcome.release_reason_id)
  <2>1. Form(x) /\ x.stop = "" /\ x.done = FALSE /\ x.r = p.r /\ x.outcomeId = id
    BY DEF Form
  <2> HIDE DEF x
  <2>2. outcome # nullptr /\ outcome.type = "release_reason" /\ reason # nullptr /\ reason.name # nullptr
    BY <2>1 DEF Refuses
  <2>3. processOutcome(x, id, mega, skip) = setReleaseReason(x, reason.name)
    BY <2>2 DEF processOutcome, Need, processReleaseReasonOutcome
  <2>4. setReleaseReason(x, reason.name).stop = ""
    BY <2>1 DEF Form, setReleaseReason
  <2>5. q = processOutcome(x, id, mega, skip)
    BY <1>4, <2>1 DEF Routed, x
  <2> HIDE DEF q, reason, outcome
  <2> QED BY <2>1, <2>2, <2>3, <2>4, <2>5, Released
<1> QED BY <1>2, <1>3, <1>4

\* What a request comes to.
Outcomes(p, q) ==
  /\ Form(q) /\ q.r = p.r
  /\ \/ q.blocked = p.blocked
     \/ /\ q.account # nullptr /\ q.account.id # 0
        /\ Blocked(p.blocked, q.blocked, q.account.id, p.r.now)
  /\ Granted(q.response) /\ q.account # nullptr /\ q.origTrunk # nullptr /\ ~Unchecked(q)
       => q.account.id \notin DOMAIN p.blocked

\* What throws after the account is known has not met a block.
Thrown(p, q) == q.stop = "" \/ q.account = nullptr \/ Unchecked(q) \/ q.account.id \notin DOMAIN p.blocked
LEMMA AnsweredWell ==
  ASSUME NEW p, Form(p), p.stop = "", p.done = FALSE, p.account = nullptr, Refuses(p.r),
         p.server \in p.r.server, p.origTrunk # nullptr
  PROVE  LET q == Answered(p) IN Outcomes(p, q) /\ Thrown(p, q)
<1> DEFINE a    == authProcessLineWithoutNumber(authProcessRedirectNumber(p))
           cdr  == AuthCdr(a)
           r    == [a.r EXCEPT !.origRegion = IF a.request.region > 0 THEN a.request.region ELSE @,
                               !.currentTime = a.r.now]
           mega == PhaseCalc(r, prepareFromCdr(r, r.origRegion, cdr.src_route, a.aNumber, a.bNumber))
           s0   == [r |-> r, m |-> a.m, cdr |-> cdr, mega |-> mega, call |-> Call(cdr, TRUE, 0),
                    info |-> CallInfo, stop |-> ""]
           s    == calc(s0)
           a1   == [a EXCEPT !.account = s.info.account, !.m = s.m]
           b    == analyzeCall(a1, s.call)
           mine == s.info.instanceSettings # nullptr /\ isForceOrgAuthByNumber(r, mega)
           q    == Routed(b, mega, mine)
           client == getAccount(a1.r, s.call.account_id)
<1>1. Answered(p) \in {setAccept(p), Throw(p, "CRASH"), q}
  BY DEF Answered
<1>2. /\ Form(a) /\ a.blocked = p.blocked /\ a.r = p.r /\ a.bNumber = p.bNumber /\ a.origTrunk = p.origTrunk
      /\ a.server = p.server /\ a.stop = "" /\ a.done = FALSE
  BY DEF Form, authProcessLineWithoutNumber, authProcessRedirectNumber
<1> HIDE DEF a
<1>3. Settled(s)
  <2>1. Unsettled(s0)
    <3> HIDE DEF mega, r, cdr
    <3> QED BY CallIsFresh, StartsBlank DEF Unsettled, Blank
  <2> HIDE DEF s0
  <2> QED BY <2>1, CalcSettles
<1> HIDE DEF s, mine, mega
<1>4. /\ Form(a1) /\ a1.blocked = p.blocked /\ a1.r = p.r /\ a1.bNumber = p.bNumber /\ a1.origTrunk = p.origTrunk
      /\ a1.server = p.server /\ a1.stop = "" /\ a1.done = FALSE /\ a1.account = s.info.account
  BY <1>2 DEF Form
<1> HIDE DEF a1
<1>5. /\ Only(a1, b) /\ b.verdict \in Verdicts
      /\ \/ Unchecked(a1) /\ b.verdict = "accept" /\ b.blocked = a1.blocked
         \/ b.verdict # "accept" /\ b.blocked = a1.blocked
         \/ /\ s.call.account_id # 0 /\ client # nullptr /\ client.id \notin DOMAIN a1.blocked
            /\ Blocks(a1.blocked, b.blocked, client.id, a1.r.now)
  BY <1>4, Analyzed
<1>6. client # nullptr => client.id = s.call.account_id
  BY FoundById DEF getAccount
<1> HIDE DEF b, client
<1>7. /\ Form(b) /\ b.r = p.r /\ b.account = s.info.account /\ b.bNumber = p.bNumber /\ b.origTrunk = p.origTrunk
      /\ b.server = p.server /\ b.stop = "" /\ b.done = FALSE
  BY <1>4, <1>5 DEF Only
<1>8. Unchecked(a1) <=> Unchecked(b)
  BY <1>4, <1>7 DEF Unchecked
<1>9. \/ Unchecked(b) /\ b.blocked = p.blocked
      \/ b.verdict # "accept" /\ b.blocked = p.blocked
      \/ /\ b.account # nullptr /\ b.account.id # 0 /\ b.account.id \notin DOMAIN p.blocked
         /\ Blocks(p.blocked, b.blocked, b.account.id, p.r.now)
  BY <1>3, <1>4, <1>5, <1>6, <1>7, <1>8 DEF Settled
<1>10. Same(b, q)
  <2>1. Same(b, Outcome(b, mega))
    BY <1>5, S_Verdict
  <2> QED BY <2>1, S_Outcome, S_Trans DEF Routed
<1>11. b.verdict # "accept" => q.stop = "" /\ ~Granted(q.response)
  BY <1>5, <1>7, RefusalsReach
<1> HIDE DEF q
<1>12. /\ Form(q) /\ q.r = p.r /\ q.blocked = b.blocked /\ q.account = b.account
       /\ Unchecked(q) <=> Unchecked(b)
  BY <1>7, <1>10 DEF Same, Unchecked
<1>13. Outcomes(p, q) /\ Thrown(p, q)
  BY <1>9, <1>11, <1>12 DEF Outcomes, Thrown, Blocks
<1>14. Outcomes(p, setAccept(p)) /\ Thrown(p, setAccept(p))
  BY S_Set DEF Same, Outcomes, Thrown
<1>15. Outcomes(p, Throw(p, "CRASH")) /\ Thrown(p, Throw(p, "CRASH"))
  BY S_Throw DEF Same, Outcomes, Thrown
<1> HIDE DEF q
<1> QED BY <1>1, <1>13, <1>14, <1>15

\* The same for the whole of process, its own errors included.
LEMMA ProcessedWell ==
  ASSUME NEW p, Form(p), p.stop = "", p.done = FALSE, p.account = nullptr, p.origTrunk = nullptr, Refuses(p.r)
  PROVE  Outcomes(p, process(p))
<1> DEFINE i == init(p)
           a == Then(i, Answered)
<1>1. /\ Form(i) /\ i.blocked = p.blocked /\ i.r = p.r /\ i.account = nullptr /\ i.done = FALSE
      /\ i.stop = "" => i.origTrunk # nullptr /\ i.server \in i.r.server
  <2> DEFINE req == p.request
      region == IF p.r.api_host /\ req.region = 0 THEN getServerIdByIP(p.r, req.nasIpAddress) ELSE req.region
      asked  == IF region > 0 THEN getServer(p.r, region) ELSE nullptr
      trunk  == getTrunkByName(p.r, req.trunkName, IF asked = nullptr THEN 0 ELSE asked.id)
      server == IF region > 0 THEN getServer(p.r, region) ELSE getServer(p.r, trunk.server_id)
      b == [p EXCEPT !.request.region = region, !.origTrunk = trunk]
      c == [p EXCEPT !.billingNotReady = TRUE]
      d == [b EXCEPT !.server = server, !.aNumber = req.srcNumber, !.bNumber = req.dstNumber]
      Good(x) == Form(x) /\ x.blocked = p.blocked /\ x.r = p.r /\ x.account = nullptr /\ x.done = FALSE
  <2>1. \/ i = Throw(c, "Billing not ready.")
        \/ i = Throw(b, "trunk not found")
        \/ i = Throw(b, "server by trunk not found")
        \/ i = d /\ trunk # nullptr /\ server # nullptr
    BY DEF init
  <2>2. server # nullptr => server \in p.r.server
    BY FoundById DEF getServer
  <2> HIDE DEF region, trunk, server, i
  <2>3. Good(c) /\ Good(b) /\ Good(d) /\ d.origTrunk = trunk /\ d.server = server
    BY DEF Form
  <2> HIDE DEF b, c, d
  <2>4. ASSUME NEW x, Good(x), NEW w, w # "" PROVE Good(Throw(x, w)) /\ Throw(x, w).stop # ""
    BY <2>4 DEF Form, Throw
  <2>5. CASE \E x, w : Good(x) /\ w # "" /\ i = Throw(x, w)
    <3>1. PICK x, w : Good(x) /\ w # "" /\ i = Throw(x, w)
      BY <2>5
    <3>2. Good(i) /\ i.stop # ""
      <4> HIDE DEF Good
      <4> QED BY <2>4, <3>1
    <3> QED BY <3>2
  <2>6. CASE i = d /\ trunk # nullptr /\ server # nullptr
    BY <2>2, <2>3, <2>6
  <2>7. "Billing not ready." # "" /\ "trunk not found" # "" /\ "server by trunk not found" # ""
    OBVIOUS
  <2> HIDE DEF Good
  <2> QED BY <2>1, <2>3, <2>5, <2>6, <2>7
<1> HIDE DEF i
<1>2. Outcomes(p, a) /\ Thrown(p, a)
  <2>1. CASE i.stop # ""
    BY <1>1, <2>1 DEF Then, Outcomes, Thrown
  <2>2. CASE i.stop = ""
    BY <1>1, <2>2, AnsweredWell DEF Then, Outcomes, Thrown
  <2> QED BY <2>1, <2>2
<1>3. \/ process(p) \in {setReleaseReason(a, "NO_ROUTE_TO_DESTINATION"), setAccept(a)} /\ a.stop # ""
      \/ process(p) = a
  BY DEF process, i, Then
<1> HIDE DEF a
<1>4. ASSUME a.stop # "", NEW b, Same(a, b) PROVE Outcomes(p, b)
  BY <1>2, <1>4 DEF Outcomes, Thrown, Same, Unchecked
<1> QED BY <1>2, <1>3, <1>4, S_Set

-----------------------------------------------------------------------------
(***************************************************************************)
(* The inductive invariant: as long as its time runs, the block of every   *)
(* call that was granted across a limit is in the list under the account   *)
(* the call was granted to, and the ids and times of grants are in order.  *)
(***************************************************************************)
BlocksInv ==
  /\ world \in DOMAIN Worlds /\ now \in Nat /\ lastId \in Nat
  /\ \A g \in grants : g.time \in Nat /\ g.time <= now /\ g.id \in 1..lastId
  /\ \A g \in grants : g.crossed /\ now < g.time + BlockTime =>
       g.account # 0 /\ g.account \in DOMAIN blocked /\ blocked[g.account].until = g.time + BlockTime
  /\ \A g \in grants : g.crossed => g.account # 0
  /\ BlocksParallelCalls

\* Only blocks that have run out are taken away.
LEMMA UnblockedKeeps ==
  ASSUME BlocksInv, NEW blocks \in Unblocked(blocked), NEW g \in grants, g.crossed, now < g.time + BlockTime
  PROVE  g.account \in DOMAIN blocks /\ blocks[g.account] = blocked[g.account]
<1> DEFINE over == {a \in DOMAIN blocked : blocked[a].until <= now}
<1>1. g.account \in DOMAIN blocked \ over
  BY BlockTimeAssumption DEF BlocksInv
<1>2. PICK gone \in SUBSET over : blocks = [a \in DOMAIN blocked \ gone |-> blocked[a]]
  BY DEF Unblocked
<1> QED BY <1>1, <1>2

\* An access request: the block list before it, the answer, the new grant.
LEMMA RequestKeepsBlocks ==
  ASSUME NEW request, BlocksInv, RefusalsRefuse, \A p : Process(p) = process(p), Request(request)
  PROVE  BlocksInv'
<1>1. PICK blocks \in Unblocked(blocked) :
        LET p == Process(Processor(request, blocks))
        IN /\ blocked' = p.blocked
           /\ IF Granted(p.response)
              THEN /\ lastId' = lastId + 1
                   /\ grants' = grants \cup
                    {[id |-> lastId + 1, time |-> now, account |-> IF p.account = nullptr THEN 0 ELSE p.account.id,
                      crossed |-> p.blocked # blocks, checked |-> p.origTrunk # nullptr /\ ~Unchecked(p)]}
              ELSE UNCHANGED <<lastId, grants>>
           /\ UNCHANGED <<world, now>>
  BY DEF Request
<1> DEFINE p0 == Processor(request, blocks)
           p == Process(p0)
           account == IF p.account = nullptr THEN 0 ELSE p.account.id
           new == [id |-> lastId + 1, time |-> now, account |-> account,
                      crossed |-> p.blocked # blocks, checked |-> p.origTrunk # nullptr /\ ~Unchecked(p)]
<1>2. p0.r = [W.tables EXCEPT !.now = now] /\ p0.blocked = blocks
  BY DEF Processor
<1>3. p0.r.now = now /\ Refuses(p0.r)
  <2>1. /\ {"now", "instance_id", "hub_id", "api_host", "server", "outcome", "release_reason"}
              \subseteq DOMAIN W.tables
        /\ Refuses(W.tables)
    BY TablesAssumption DEF BlocksInv, W, RefusalsRefuse
  <2>2. /\ p0.r.now = now /\ p0.r.server = W.tables.server /\ p0.r.outcome = W.tables.outcome
        /\ p0.r.release_reason = W.tables.release_reason /\ p0.r.hub_id = W.tables.hub_id
        /\ p0.r.instance_id = W.tables.instance_id /\ p0.r.api_host = W.tables.api_host
    BY <1>2, <2>1
  <2>3. \A id : /\ getOutcome(p0.r, id) = getOutcome(W.tables, id)
               /\ getReleaseReason(p0.r, id) = getReleaseReason(W.tables, id)
    <3> HIDE DEF p0
    <3>1. \A rows : Local(p0.r, rows) = Local(W.tables, rows)
      BY <2>2 DEF Local, sql_regions_list, getServersByHubId
    <3> QED BY <2>2, <3>1 DEF getOutcome, getReleaseReason
  <2> HIDE DEF p0
  <2> QED BY <2>1, <2>2, <2>3 DEF Refuses
<1>4. Form(p0) /\ p0.stop = "" /\ p0.done = FALSE /\ p0.account = nullptr /\ p0.origTrunk = nullptr
  BY DEF Form, Processor, RadiusAuthResponse
<1> HIDE DEF p0
<1>5. Outcomes(p0, p)
  BY <1>3, <1>4, ProcessedWell
<1> HIDE DEF p
<1>6. /\ p.blocked = blocks \/ (account # 0 /\ Blocked(blocks, p.blocked, account, now))
      /\ Granted(p.response) /\ new.checked /\ account # 0 => account \notin DOMAIN blocks
  BY <1>2, <1>3, <1>5 DEF Outcomes
<1>7. \/ UNCHANGED <<lastId, grants>>
      \/ Granted(p.response) /\ lastId' = lastId + 1 /\ grants' = grants \cup {new}
  BY <1>1 DEF p, p0
<1>8. blocked' = p.blocked /\ UNCHANGED <<world, now>>
  BY <1>1 DEF p, p0
<1>9. /\ new.id = lastId + 1 /\ new.time = now /\ new.account = account
      /\ new.crossed <=> p.blocked # blocks
  OBVIOUS
<1> HIDE DEF new, account
<1>10. ASSUME NEW g \in grants, g.crossed, now < g.time + BlockTime
       PROVE  /\ g.account # 0 /\ g.account \in DOMAIN blocks /\ g.account \in DOMAIN blocked'
              /\ blocked'[g.account].until = g.time + BlockTime
  BY <1>6, <1>8, <1>10, UnblockedKeeps DEF BlocksInv, Blocked
<1>11. new.crossed => /\ new.account # 0 /\ new.account \in DOMAIN blocked'
                      /\ blocked'[new.account].until = new.time + BlockTime
  BY <1>6, <1>8, <1>9 DEF Blocked
<1>12. ASSUME NEW g \in grants, g.crossed, new.checked, g.account = new.account, Granted(p.response)
       PROVE  new.time >= g.time + BlockTime
  <2>1. g.account # 0 /\ g.time \in Nat
    BY <1>12 DEF BlocksInv
  <2>2. ~(now < g.time + BlockTime)
    BY <1>6, <1>9, <1>10, <1>12, <2>1
  <2> QED BY <1>9, <2>1, <2>2, BlockTimeAssumption DEF BlocksInv
<1>13. CASE UNCHANGED <<lastId, grants>>
  BY <1>8, <1>10, <1>13 DEF BlocksInv, BlocksParallelCalls
<1>14. CASE Granted(p.response) /\ lastId' = lastId + 1 /\ grants' = grants \cup {new}
  <2>1. lastId' \in Nat /\ \A g \in grants' : g.time \in Nat /\ g.time <= now' /\ g.id \in 1..lastId'
    BY <1>8, <1>9, <1>14 DEF BlocksInv
  <2>2. \A g \in grants' : g.crossed /\ now' < g.time + BlockTime =>
           g.account # 0 /\ g.account \in DOMAIN blocked' /\ blocked'[g.account].until = g.time + BlockTime
    BY <1>8, <1>10, <1>11, <1>14
  <2>3. \A g \in grants' : g.crossed => g.account # 0
    BY <1>11, <1>14 DEF BlocksInv
  <2>4. BlocksParallelCalls'
    <3>1. \A g \in grants : g.id < new.id /\ ~(new.id < g.id)
      BY <1>9 DEF BlocksInv
    <3> QED BY <1>9, <1>12, <1>14, <3>1 DEF BlocksInv, BlocksParallelCalls
  <2> QED BY <1>8, <2>1, <2>2, <2>3, <2>4 DEF BlocksInv
<1> QED BY <1>7, <1>13, <1>14

LEMMA OthersKeepBlocks ==
  ASSUME BlocksInv, UNCHANGED <<world, now, blocked, grants, lastId>>
  PROVE  BlocksInv'
BY DEF BlocksInv, BlocksParallelCalls

LEMMA BlocksInvStep ==
  ASSUME BlocksInv, RefusalsRefuse, \A p : Process(p) = process(p), [Next]_vars
  PROVE  BlocksInv'
<1>1. ASSUME NEW request \in W.requests, Request(request) PROVE BlocksInv'
  BY <1>1, RequestKeepsBlocks
<1>2. ASSUME NEW id \in switch, HangUp(id) PROVE BlocksInv'
  BY <1>2, OthersKeepBlocks DEF HangUp
<1>3. ASSUME NEW cdr \in cdrs, Bill(cdr) PROVE BlocksInv'
  BY <1>3, OthersKeepBlocks DEF Bill
<1>4. CASE CurrentCalls \/ LimitCalls \/ CheckStartTable
  BY <1>4, OthersKeepBlocks DEF CurrentCalls, LoadCurrent, setCallsWaitingSaving, setStatsAccount,
     LimitCalls,
     LimitControl, LimitControlCall, CheckStartTable, CheckSnapshot, CheckSelect, forceFinishCalls
<1>5. CASE Tick
  <2>1. now' = now + 1 /\ UNCHANGED <<world, blocked, grants, lastId>>
    BY <1>5 DEF Tick
  <2>2. \A g \in grants : g.time <= now' /\ (now' < g.time + BlockTime => now < g.time + BlockTime)
    BY <2>1, BlockTimeAssumption DEF BlocksInv
  <2> QED BY <2>1, <2>2 DEF BlocksInv, BlocksParallelCalls
<1>6. CASE Restart
  BY <1>6 DEF Restart, BlocksInv, BlocksParallelCalls
<1>7. CASE UNCHANGED vars
  BY <1>7, OthersKeepBlocks DEF vars
<1> QED BY <1>1, <1>2, <1>3, <1>4, <1>5, <1>6, <1>7 DEF Next

(***************************************************************************)
(* After a call that may cross a limit was granted, no checked call of the *)
(* same account is granted until the block's time has run out, whatever    *)
(* the tables, whichever way both calls were routed, and whatever ends,    *)
(* bills, and rounds of the threads come between them; a restart forgets   *)
(* the grants with the blocks (RadiusAuthProcessor::process, analyzeCall,  *)
(* isLowBalance, processRequest).  It is for tables whose outcomes for     *)
(* clients without money or service are none or release reasons, which     *)
(* TLC evaluates for the tables it checks.                                 *)
(***************************************************************************)
THEOREM ParallelCallsWait ==
  ASSUME RefusalsRefuse, \A p : Process(p) = process(p)
  PROVE  Spec => []BlocksParallelCalls
<1>1. Init => BlocksInv
  BY DEF Init, BlocksInv, BlocksParallelCalls
<1>2. BlocksInv /\ [Next]_vars => BlocksInv'
  BY BlocksInvStep
<1>3. BlocksInv => BlocksParallelCalls
  BY DEF BlocksInv
<1> QED BY <1>1, <1>2, <1>3, PTL DEF Spec

=============================================================================
