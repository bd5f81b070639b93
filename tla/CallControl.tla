---------------------------- MODULE CallControl ----------------------------
(***************************************************************************)
(* Calls under control: the switch asks before a call (RadiusAuthServer),  *)
(* the calls that go on are rated again and again (ThreadCurrentCalls),    *)
(* calls without money are killed (ThreadLimitControl), and rows of calls  *)
(* that have gone are removed (ThreadCheckStartTable).  All share what the *)
(* thread of current calls publishes, each piece of it under its own lock. *)
(* A world is a set of tables, the requests that may come, the threads the *)
(* configuration leaves out and bounds.  Calls are rated without packages  *)
(* here: the counters stay as loaded.                                      *)
(***************************************************************************)
EXTENDS RadiusAuth

CONSTANTS
  Rate(_, _),   \* the rating of a record: Legs
  Process(_),   \* the answer to a request: process
  Worlds,       \* worlds [tables, requests, default_route, skip_threads : of the configuration,
                \*   and bounds: now : the end of time, calls : granted, restarts : of the daemon,
                \*   lost : datagrams and reports of ended calls]
  TickSeconds,  \* seconds of one step of time
  MaxSelected   \* ids of calls that fit into the answer to SELECT

ASSUME SelectedAssumption == MaxSelected \in Nat
ASSUME TablesAssumption ==
  \A w \in DOMAIN Worlds :
    {"now", "instance_id", "hub_id", "api_host", "server", "outcome", "release_reason"}
      \subseteq DOMAIN Worlds[w].tables

VARIABLES
  world, now,
  blocked,   \* accountIdsBlockedBefore of the server
  switch,    \* ids of the calls that go on
  start,     \* calls_cdr.start
  cdrs,      \* records of ended calls that are not billed yet
  local,     \* the sums of the accounts by billed calls
  currentCdr, calls, current,   \* what ThreadCurrentCalls publishes: rows, calls, sums
  loading,   \* what it has still to publish
  kills,     \* calls ThreadLimitControl has still to look at
  check,     \* ThreadCheckStartTable
  grants,    \* the grants of this run of the daemon
  lastId, restarts, lost
threads == <<currentCdr, calls, current, loading, kills, check>>
vars == <<world, now, blocked, switch, start, cdrs, local, threads, grants, lastId, restarts, lost>>

W == Worlds[world]
Memory == loadAll([calls |-> {}, stats |-> NoStats]).counters
Idle == [pc |-> "idle", cdrs |-> {}, waiting |-> {}]

-----------------------------------------------------------------------------
(* Rating of a record, and the sums of the accounts.                       *)

Legs(tables, cdr) ==
  LET r == prepareAt(tables, cdr.connect_time)
      mega == PhaseCalc(r, prepareFromCdr(r, r.origRegion, cdr.src_route, cdr.src_number, cdr.dst_number))
      Leg(call) == calc([r |-> r, m |-> Memory, cdr |-> cdr, mega |-> mega, call |-> call,
                         info |-> CallInfo, stop |-> ""]).call
      orig == Leg(Call(cdr, TRUE, 0))
  IN <<orig, Leg([Call(cdr, FALSE, 0) EXCEPT !.src_number = orig.src_number, !.dst_number = orig.dst_number])>>
\* CurrentCdrList: the first two seconds of a call do not count.
SessionTime(ticks) ==
  LET seconds == ticks * TickSeconds IN IF seconds > 1 THEN seconds - 2 ELSE seconds
Row(id, time, request, dst_route) ==
  [id |-> id, connect_time |-> time, src_number |-> request.srcNumber, dst_number |-> request.dstNumber,
   redirect_number |-> request.redirectNumber, dst_replace |-> <<>>, src_route |-> request.trunkName,
   dst_route |-> dst_route, src_noa |-> request.srcNoa, dst_noa |-> request.dstNoa,
   in_sig_call_id |-> nullptr, out_sig_call_id |-> nullptr]
\* Every record there can be in a world, rated once.
RatedIn ==
  [w \in DOMAIN Worlds |->
     LET x == Worlds[w]
         records == {Row(id, time, request, route) @@ [session_time |-> SessionTime(ticks)] :
                       id \in 1..x.calls, time \in 0..x.now, request \in x.requests,
                       route \in {t.trunk_name : t \in x.tables.trunk}, ticks \in 0..x.now}
     IN [cdr \in records |-> Rate(x.tables, cdr)]]
Rated(cdr) == RatedIn[world][cdr]
\* What the lists answer to LimitControl, looked up once.
ListsIn ==
  [w \in DOMAIN Worlds |->
     LET r == Worlds[w].tables
     IN [accounts  |-> [id \in {c.id : c \in r.clients} |-> getAccount(r, id)],
         auto_lock_finance |-> getInstanceSettings(r, r.instance_id).auto_lock_finance,
         emergency |-> {call \in UNION {Range(legs) : legs \in Range(RatedIn[w])} :
                          isEmergencyCall(r, call.dst_number, call.server_id)}]]
Account(id) == IF id \in DOMAIN ListsIn[world].accounts THEN ListsIn[world].accounts[id] ELSE nullptr
\* StatsAccountManager::add, within one day and after amount_date.
Added(sums, call) ==
  IF Account(call.account_id) = nullptr \/ call.cost = 0 THEN sums
  ELSE LET old == SumsOf(sums, call.account_id)
       IN (call.account_id :> [balance |-> old.balance + call.cost, day |-> old.day + call.cost,
             mn |-> old.mn + IF isInternational(call) THEN call.cost ELSE 0]) @@ sums
SumsBy(sums, list) == FoldLeft(Added, sums, list)

AsCdr(row) == row @@ [session_time |-> SessionTime(now - row.connect_time)]
\* The calls of records, in the order of their ids.
RatedAll(records) ==
  LET list == SetToSortSeq(records, LAMBDA a, b : a.id < b.id)
  IN FlattenSeq([i \in DOMAIN list |-> Rated(list[i])])

-----------------------------------------------------------------------------
(* RadiusAuthServer::processRequest.                                       *)

Processor(request, blocks) ==
  [r |-> [W.tables EXCEPT !.now = now], m |-> Memory, request |-> request, response |-> RadiusAuthResponse,
   server |-> nullptr, origTrunk |-> nullptr, aNumber |-> <<>>, bNumber |-> <<>>, account |-> nullptr,
   billingNotReady |-> TRUE, blocked |-> blocks, local |-> local, current |-> current, global |-> <<>>,
   orders |-> <<>>, outcomeId |-> 0, verdict |-> "", done |-> FALSE, stop |-> ""]

\* Mutant: every block is erased.
UnblockedAll(blocks) == {<<>>}
\* Blocks whose time is over are erased; the loop goes on from an erased
\* node, which may end it after any one of them.
Unblocked(blocks) ==
  LET over == {a \in DOMAIN blocks : blocks[a].until <= now}
  IN {[a \in DOMAIN blocks \ gone |-> blocks[a]] :
        gone \in {g \in SUBSET over : (g = {} <=> over = {}) /\ \A a \in g, b \in over : b < a => b \in g}}

Granted(response) == response.accept = TRUE /\ response.releaseReason = nullptr
RouteOf(response) == IF response.routeCase = <<>> THEN W.default_route ELSE response.routeCase[1]

\* The switch asks; a call that is granted begins and is reported to the table
\* of current calls.
Request(request) ==
  \E blocks \in Unblocked(blocked) :
    LET p == Process(Processor(request, blocks))
    IN /\ lastId < W.calls
       /\ blocked' = p.blocked
       /\ IF Granted(p.response)
          THEN /\ lastId' = lastId + 1
               /\ switch' = switch \cup {lastId + 1}
               /\ start' = start \cup {Row(lastId + 1, now, request, RouteOf(p.response))}
               /\ grants' = grants \cup
                    {[id |-> lastId + 1, time |-> now, account |-> IF p.account = nullptr THEN 0 ELSE p.account.id,
                      crossed |-> p.blocked # blocks, checked |-> p.origTrunk # nullptr /\ ~Unchecked(p)]}
          ELSE UNCHANGED <<lastId, switch, start, grants>>
       /\ UNCHANGED <<world, now, cdrs, local, threads, restarts, lost>>

-----------------------------------------------------------------------------
(* The end of a call, with its record or without one, and its billing.     *)

Ended(id) ==
  \/ /\ cdrs' = cdrs \cup {AsCdr(row) : row \in {x \in start : x.id = id}}
     /\ start' = {x \in start : x.id # id}
     /\ UNCHANGED lost
  \/ lost < W.lost /\ lost' = lost + 1 /\ UNCHANGED <<cdrs, start>>
HangUp(id) ==
  /\ id \in switch
  /\ switch' = switch \ {id}
  /\ Ended(id)
  /\ UNCHANGED <<world, now, blocked, local, threads, grants, lastId, restarts>>
Bill(cdr) ==
  /\ cdrs' = cdrs \ {cdr}
  /\ local' = SumsBy(local, Rated(cdr))
  /\ UNCHANGED <<world, now, blocked, switch, start, threads, grants, lastId, restarts, lost>>

-----------------------------------------------------------------------------
(* ThreadCurrentCalls: the rows, then the calls, then the sums.            *)

LoadCurrent ==
  /\ loading = nullptr
  /\ currentCdr' = start
  /\ loading' = [calls |-> RatedAll({AsCdr(row) : row \in start}), sums |-> FALSE]
  /\ UNCHANGED <<world, now, blocked, switch, start, cdrs, local, calls, current, kills, check, grants,
                 lastId, restarts, lost>>
setCallsWaitingSaving ==
  /\ loading # nullptr /\ ~loading.sums
  /\ calls' = loading.calls
  /\ loading' = [loading EXCEPT !.sums = TRUE]
  /\ UNCHANGED <<world, now, blocked, switch, start, cdrs, local, currentCdr, current, kills, check, grants,
                 lastId, restarts, lost>>
setStatsAccount ==
  /\ loading # nullptr /\ loading.sums
  /\ current' = SumsBy(<<>>, loading.calls)
  /\ loading' = nullptr
  /\ UNCHANGED <<world, now, blocked, switch, start, cdrs, local, currentCdr, calls, kills, check, grants,
                 lastId, restarts, lost>>

-----------------------------------------------------------------------------
(* ThreadLimitControl: one call of the list after the other, each against  *)
(* the sums of the moment.                                                 *)

\* Mutants: the calls that go on are forgotten, or counted twice.
SpentNowLocal(client, s) == WithVat(SumsOf(local, client.id)[s], getVatRate(client))
SpentNowTwice(client, s) ==
  WithVat(SumsOf(local, client.id)[s] + 2 * SumsOf(current, client.id)[s], getVatRate(client))
SpentNow(client, s) ==
  WithVat(SumsOf(local, client.id)[s] + SumsOf(current, client.id)[s], getVatRate(client))
limitControlKillNeeded(call) ==
  LET client   == Account(call.account_id)
      auto     == ListsIn[world].auto_lock_finance
      noCredit == isConsumedCreditLimit(client, SpentNow(client, "balance")) /\ auto
  IN /\ ~call.is_service_number
     /\ call \notin ListsIn[world].emergency
     /\ client # nullptr
     /\ \/ client.is_blocked
        \/ call.trunk_service_id # 0 /\ noCredit
        \/ /\ call.trunk_service_id = 0 /\ call.number_service_id # 0 /\ call.orig
           /\ \/ ~isLocal(call) /\ (client.disabled \/ noCredit)
              \/ isInternational(call) /\ isConsumedDailyMNLimit(client, SpentNow(client, "mn"))
              \/ ~isLocal(call) /\ isConsumedDailyLimit(client, SpentNow(client, "day"))
\* The list is taken once; a call without an account needs no step.
LimitControl ==
  /\ "limitcontrol" \notin W.skip_threads
  /\ kills = <<>>
  /\ kills' = SelectSeq(calls, LAMBDA call : call.account_id # 0)
  /\ kills' # <<>>
  /\ UNCHANGED <<world, now, blocked, switch, start, cdrs, local, currentCdr, calls, current, loading, check,
                 grants, lastId, restarts, lost>>
\* The datagram that kills a call may be lost; the call's end is reported as
\* any other.
LimitControlCall ==
  /\ kills # <<>>
  /\ kills' = Tail(kills)
  /\ LET id == Head(kills).cdr_id
     IN IF limitControlKillNeeded(Head(kills)) /\ id \in switch
        THEN \/ switch' = switch \ {id} /\ Ended(id)
             \/ lost < W.lost /\ lost' = lost + 1 /\ UNCHANGED <<switch, cdrs, start>>
        ELSE UNCHANGED <<switch, cdrs, start, lost>>
  /\ UNCHANGED <<world, now, blocked, local, currentCdr, calls, current, loading, check, grants, lastId, restarts>>

-----------------------------------------------------------------------------
(* ThreadCheckStartTable.                                                  *)

CheckSnapshot ==
  /\ "checkstarttable" \notin W.skip_threads
  /\ check.pc = "idle" /\ currentCdr # nullptr
  /\ check' = [check EXCEPT !.pc = "select", !.cdrs = {row.id : row \in currentCdr}]
  /\ UNCHANGED <<world, now, blocked, switch, start, cdrs, local, currentCdr, calls, current, loading, kills,
                 grants, lastId, restarts, lost>>
\* The switch's list, as much of it as one datagram holds.
select_calls == {id \in switch : Cardinality({i \in switch : i < id}) < MaxSelected}
\* Mutant: the difference the other way round.
spawnWaitingSwapped(snapshot, opencaCalls) == opencaCalls \ snapshot
spawnWaitingForFinishCalls(snapshot, opencaCalls) == snapshot \ opencaCalls
\* Without an answer the thread starts again.
CheckSelect ==
  /\ check.pc = "select"
  /\ LET waiting == spawnWaitingForFinishCalls(check.cdrs, select_calls)
     IN \/ /\ check' = IF waiting = {} THEN Idle ELSE [pc |-> "finish", cdrs |-> {}, waiting |-> waiting]
           /\ UNCHANGED lost
        \/ lost < W.lost /\ lost' = lost + 1 /\ check' = Idle
  /\ UNCHANGED <<world, now, blocked, switch, start, cdrs, local, currentCdr, calls, current, loading, kills,
                 grants, lastId, restarts>>
\* After the sleep: what waits and is still in the list of current calls.
\* Mutant: what has left the list meanwhile.
finishedCallsGone(waiting, callsIds) == waiting \ callsIds
finishedCalls(waiting, callsIds) == waiting \cap callsIds
forceFinishCalls ==
  /\ check.pc = "finish"
  /\ start' = {row \in start : row.id \notin finishedCalls(check.waiting, {x.id : x \in currentCdr})}
  /\ check' = Idle
  /\ UNCHANGED <<world, now, blocked, switch, cdrs, local, currentCdr, calls, current, loading, kills,
                 grants, lastId, restarts, lost>>

-----------------------------------------------------------------------------

Tick ==
  /\ now < W.now
  /\ now' = now + 1
  /\ UNCHANGED <<world, blocked, switch, start, cdrs, local, threads, grants, lastId, restarts, lost>>

Unpublished ==
  /\ currentCdr' = nullptr /\ calls' = <<>> /\ current' = <<>>
  /\ loading' = nullptr /\ kills' = <<>> /\ check' = Idle
\* Blocks and what was published live in memory only.
Restart ==
  /\ restarts < W.restarts
  /\ restarts' = restarts + 1
  /\ blocked' = <<>> /\ grants' = {}
  /\ Unpublished
  /\ UNCHANGED <<world, now, switch, start, cdrs, local, lastId, lost>>

Init ==
  /\ world \in DOMAIN Worlds
  /\ now = 0
  /\ blocked = <<>> /\ switch = {} /\ start = {} /\ cdrs = {} /\ local = <<>>
  /\ currentCdr = nullptr /\ calls = <<>> /\ current = <<>>
  /\ loading = nullptr /\ kills = <<>> /\ check = Idle
  /\ grants = {} /\ lastId = 0 /\ restarts = 0 /\ lost = 0

CurrentCalls == LoadCurrent \/ setCallsWaitingSaving \/ setStatsAccount
LimitCalls == LimitControl \/ LimitControlCall
CheckStartTable == CheckSnapshot \/ CheckSelect \/ forceFinishCalls

Next ==
  \/ \E request \in W.requests : Request(request)
  \/ \E id \in switch : HangUp(id)
  \/ \E cdr \in cdrs : Bill(cdr)
  \/ CurrentCalls \/ LimitCalls \/ CheckStartTable
  \/ Tick \/ Restart

\* The threads run in endless loops; the daemon bills what has ended.  Nobody
\* promises that a call ends by itself or that a request comes.
Fairness ==
  /\ WF_vars(CurrentCalls) /\ WF_vars(LimitCalls) /\ WF_vars(CheckStartTable)
  /\ WF_vars(\E cdr \in cdrs : Bill(cdr))
Spec == Init /\ [][Next]_vars /\ Fairness

-----------------------------------------------------------------------------
(* Properties.                                                             *)

MaxCalls == Max({Worlds[w].calls : w \in DOMAIN Worlds})

\* What an account owes in truth: billed calls, ended ones that wait to be
\* billed, and the calls that go on as they are now.
Going == RatedAll({AsCdr(row) : row \in {x \in start : x.id \in switch}})
Owed == SumsBy(local, Going \o RatedAll(cdrs))
Broke(id) ==
  LET client == Account(id)
  IN client # nullptr /\ isConsumedCreditLimit(client, WithVat(SumsOf(Owed, id).balance, getVatRate(client)))
\* The current sums of an account are those of the calls that go on.
UpToDate(id) == SumsOf(current, id) = SumsOf(SumsBy(<<>>, Going), id)

\* The tables refuse what analyzeCall refuses: the outcome a server keeps for
\* clients without money or service is none (a reject) or gives a reason of
\* release.  The code takes any outcome there, one that lets the call go too.
Refuses(r) ==
  \A server \in r.server : \A id \in {server.blocked_outcome_id, server.low_balance_outcome_id} \ {0} :
    LET outcome == getOutcome(r, id)
        reason  == getReleaseReason(r, outcome.release_reason_id)
    IN outcome # nullptr /\ outcome.type = "release_reason" /\ reason # nullptr /\ reason.name # nullptr
RefusalsRefuse == \A w \in DOMAIN Worlds : Refuses(Worlds[w].tables)

\* A call that may use up an account's money keeps the account's other calls
\* waiting: for a minute nothing else is granted to it, whatever its calls in
\* parallel have not been counted for yet, but calls that go whatever the
\* account owes (isLowBalance, analyzeCall and the clean-up of blocks in
\* processRequest).
BlocksParallelCalls ==
  \A g \in grants, h \in grants :
    g.crossed /\ h.checked /\ g.account = h.account /\ g.id < h.id => h.time >= g.time + BlockTime

\* Every call that goes on keeps its row in the table of current calls: the
\* forced end of ThreadCheckStartTable hits only calls that have gone, however
\* its three looks at two places interleave with calls that begin and end.
OnlyEndedAreFinished == \A id \in switch : \E row \in start : row.id = id

\* A call that is granted to an account without money has slipped through one
\* of the two gaps there are: a call of the account that is in no sum yet since
\* the last round of ThreadCurrentCalls, or one that has ended and left the
\* current sums before it was billed (processRequest against local and current).
GrantNeedsMoney ==
  [][\A g \in grants' \ grants : Broke(g.account) => cdrs # {} \/ ~UpToDate(g.account)]_vars

\* Only calls of accounts without money are killed, unless the sums of the calls
\* that go on are not up to date: an ended call that still counts as current and
\* is billed as well counts twice (limitControlKillNeeded).
KillNeedsCause ==
  [][LimitControlCall =>
       LET call == Head(kills)
       IN call.cdr_id \in switch \ switch' => Broke(call.account_id) \/ ~UpToDate(call.account_id)]_vars

\* Nobody talks on credit for ever: a call of an account without money is ended
\* although datagrams get lost and calls are counted late (ThreadCurrentCalls
\* and ThreadLimitControl together).
NobodyTalksForFree ==
  \A id \in 1..MaxCalls :
    []<>("limitcontrol" \notin W.skip_threads =>
           id \notin switch \/ \A g \in grants : g.id = id => ~Broke(g.account))

\* The row of a call whose end was never reported is removed in the end, so
\* that the call does not count as current for ever (forceFinishCalls).
LostEndIsRepaired ==
  \A id \in 1..MaxCalls :
    ("checkstarttable" \notin W.skip_threads /\ id <= lastId /\ id \notin switch)
      ~> (\A row \in start : row.id # id)

=============================================================================
