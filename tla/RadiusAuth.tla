---------------------------- MODULE RadiusAuth ----------------------------
(***************************************************************************)
(* RadiusAuthProcessor: what a switch is told when it asks whether a call  *)
(* may go and where.  The processing is a chain over a record p:           *)
(*   p.r, p.m     the lists and the memory of the billing container;       *)
(*   p.request, p.response, p.server, p.origTrunk, p.aNumber, p.bNumber,   *)
(*   p.account, p.billingNotReady    the members of the processor;         *)
(*   p.blocked    accountIdsBlockedBefore: account -> [reason, until];     *)
(*   p.local, p.current, p.global    what accounts have spent, by calls    *)
(*                that are billed, that go on, and in other regions;       *)
(*   p.stop       the exception thrown, or "".                             *)
(* A filter that may throw gives TRUE, FALSE or, for the exception,        *)
(* nullptr.  The order random_shuffle gives trunks is left as it was.      *)
(***************************************************************************)
EXTENDS Tariffication, Maps, TLC

CONSTANT BlockTime   \* 60 seconds in the model's time unit
ASSUME BlockTimeAssumption == BlockTime \in Nat

REASON_NO_BALANCE  == "no balance"
REASON_DAILY_LIMIT == "daily limit"

RadiusAuthResponse ==
  [accept |-> nullptr, srcNumber |-> <<>>, dstNumber |-> <<>>, routeCase |-> <<>>,
   releaseReason |-> nullptr, airp |-> nullptr]
setRouteCase(p, names)     == [p EXCEPT !.response.accept = TRUE, !.response.routeCase = names]
setReleaseReason(p, name)  == [p EXCEPT !.response.accept = TRUE, !.response.releaseReason = name]
setAirp(p, name)           == [p EXCEPT !.response.accept = TRUE, !.response.airp = name]
setAccept(p)               == [p EXCEPT !.response.accept = TRUE]
setReject(p) == [p EXCEPT !.response.accept = FALSE, !.response.srcNumber = <<>>, !.response.dstNumber = <<>>]

\* The first of a list that is accepted, or throws.
FirstHit(list, Check(_)) ==
  LET hits == {i \in DOMAIN list : Check(list[i]) # FALSE}
  IN IF hits = {} THEN FALSE ELSE Check(list[Min(hits)])
Both(a, b) == IF nullptr \in {a, b} THEN nullptr ELSE a /\ b
AndThen(a, b) == IF a = TRUE THEN b ELSE a
Not(a) == IF a = nullptr THEN nullptr ELSE ~a

-----------------------------------------------------------------------------
(* init: the request's region, trunk and server.                           *)

init(p) ==
  LET req    == p.request
      region == IF p.r.api_host /\ req.region = 0 THEN getServerIdByIP(p.r, req.nasIpAddress) ELSE req.region
      asked  == IF region > 0 THEN getServer(p.r, region) ELSE nullptr
      trunk  == getTrunkByName(p.r, req.trunkName, IF asked = nullptr THEN 0 ELSE asked.id)
      server == IF region > 0 THEN getServer(p.r, region) ELSE getServer(p.r, trunk.server_id)
      a == [p EXCEPT !.request.region = region, !.origTrunk = trunk]
  IN IF ~prepare(p.r) \/ ~p.r.ready
     THEN Throw([p EXCEPT !.billingNotReady = TRUE], "Billing not ready.")
     ELSE IF trunk = nullptr THEN Throw(a, "trunk not found")
     ELSE IF server = nullptr THEN Throw(a, "server by trunk not found")
     ELSE [a EXCEPT !.server = server, !.aNumber = req.srcNumber, !.bNumber = req.dstNumber]

authProcessRedirectNumber(p) ==
  [p EXCEPT !.aNumber = IF p.origTrunk.orig_redirect_number /\ p.request.redirectNumber # <<>>
                        THEN p.request.redirectNumber ELSE @]
\* A line without a number of its own is shown with the number of the server.
authProcessLineWithoutNumber(p) ==
  IF /\ p.origTrunk.our_trunk /\ p.origTrunk.auth_by_number
     /\ p.server.calling_station_id_for_line_without_number # <<>>
     /\ \E i \in DOMAIN p.aNumber : p.aNumber[i] \in {10, 11}   \* * and +
     /\ ~(p.origTrunk.orig_redirect_number /\ p.request.redirectNumber # <<>>)
  THEN [p EXCEPT !.response.srcNumber = p.server.calling_station_id_for_line_without_number]
  ELSE p

-----------------------------------------------------------------------------
(* Filters by number sets, prefix lists and trunk groups.                  *)

authMatchPrefixlist(p, prefixlist_id, number) ==
  IF getPrefixlist(p.r, prefixlist_id) = nullptr THEN nullptr
  ELSE getPrefixlistPrefix(p.r, prefixlist_id, number) # nullptr
filterByNumber(p, number_id, number) ==
  LET set == getNumber(p.r, number_id)
      ids == load({[id |-> i] : i \in getPrefixlistIds(set)}, LAMBDA x : <<Id(x)>>)
  IN IF set = nullptr THEN nullptr
     ELSE FirstHit(ids, LAMBDA x : authMatchPrefixlist(p, x.id, number))
IfFilter(p, number_id, number) == IF number_id > 0 THEN filterByNumber(p, number_id, number) ELSE TRUE
matchTrunkGroup(p, trunk_group_id) ==
  LET ids == getAllTrunkGroupTrunkIds(p.r, trunk_group_id)
  IN IF getTrunkGroup(p.r, trunk_group_id) = nullptr THEN nullptr
     ELSE \E i \in DOMAIN ids : ids[i] = p.origTrunk.id

NumbersFit(p, rule) ==
  Both(IfFilter(p, rule.number_id_filter_a, p.aNumber), IfFilter(p, rule.number_id_filter_b, p.bNumber))
\* A rule is an exception from what the trunk allows by default; only where all
\* is allowed may a rule name no group.
autoTrunkFilterSrcTrunk(p, term) ==
  LET rules == getAllTrunkGroupRules(p.r, term.id)
      Group(x) == IF x.trunk_group_id > 0 THEN matchTrunkGroup(p, x.trunk_group_id) ELSE TRUE
  IN IF term.source_trunk_rule_default_allowed
     THEN Not(FirstHit(rules, LAMBDA x : Both(NumbersFit(p, x), Group(x))))
     ELSE FirstHit(rules, LAMBDA x : AndThen(NumbersFit(p, x), matchTrunkGroup(p, x.trunk_group_id)))
NumberRules(p, term, outgoing, number, allowed) ==
  LET hit == FirstHit(getAllTrunkRules(p.r, term.id, outgoing),
                 LAMBDA x : authMatchPrefixlist(p, x.prefixlist_id, number))
  IN IF allowed THEN Not(hit) ELSE hit
autoTrunkFilterSrcNumber(p, term) == NumberRules(p, term, FALSE, p.aNumber, term.source_rule_default_allowed)
autoTrunkFilterDstNumber(p, term) == NumberRules(p, term, TRUE, p.bNumber, term.destination_rule_default_allowed)

-----------------------------------------------------------------------------
(* The route table: the outcome of the first route that fits.  A table     *)
(* that leads back to itself is followed until the stack is used up, which *)
(* takes more tables than there are.                                       *)

RouteFound(p, id, mega) ==
  LET Skipped(outcome) == /\ outcome # nullptr
                          /\ \/ outcome.type = "meg_to_reg" /\ ~mega.isPhase1
                             \/ outcome.type = "meg_to_meg" /\ ~mega.isPhase2
      Fits(route) == AndThen(IfFilter(p, route.a_number_id, p.aNumber), IfFilter(p, route.b_number_id, p.bNumber))
      Found(server, stop) == [server |-> server, outcomeId |-> 0, stop |-> stop]
      \* What a table leads to when `left` more may be entered: the server of the
      \* last one, an outcome or none, an exception or none.
      result[left \in 0..Cardinality(p.r.route_table)] ==
        [t \in {id} \cup {route.outcome_route_table_id : route \in p.r.route_table_route} |->
          LET table == getRouteTable(p.r, t)
              Try(q, route) ==
                CASE q.stop # "" \/ q.outcomeId # 0 -> q
                  [] q.stop = "" /\ q.outcomeId = 0 /\ Fits(route) = nullptr -> Throw(q, "Number not found")
                  [] OTHER ->
                       IF ~Fits(route) THEN q
                       ELSE IF route.outcome_id # 0
                       THEN IF Skipped(getOutcome(p.r, route.outcome_id)) THEN q
                            ELSE [q EXCEPT !.outcomeId = route.outcome_id]
                       ELSE IF route.outcome_route_table_id # 0
                       THEN [result[left - 1][route.outcome_route_table_id] EXCEPT
                               !.server = IF @ = nullptr THEN q.server ELSE @]
                       ELSE q
          IN IF left = 0 THEN Found(nullptr, "CRASH")
             ELSE IF table = nullptr THEN Found(nullptr, "Route table not found")
             ELSE FoldLeft(Try, Found(getServer(p.r, table.server_id), ""), getAllRouteTableRoutes(p.r, t))]
  IN result[Cardinality(p.r.route_table)][id]
processRouteTable(p, id, mega) ==
  LET found == RouteFound(p, id, mega)
  IN [p EXCEPT !.server = IF found.server = nullptr THEN @ ELSE found.server,
               !.outcomeId = found.outcomeId, !.stop = found.stop]

-----------------------------------------------------------------------------
(* Automatic routing: the trunks that may take the call, in their order.   *)

Rub(p, order) ==
  LET price == OrderPrice(order) IN IF price = nullptr THEN 0 ELSE priceToRoubles(p.r, price[1], price[2])
\* Fraud protection: an expensive destination, for a client that has not
\* switched the protection off.
TooDear(p, order) ==
  /\ p.server.min_price_for_autorouting > 0
  /\ order.price # nullptr /\ order.pricelist # nullptr
  /\ priceToRoubles(p.r, order.price.price, order.pricelist.currency_id) > p.server.min_price_for_autorouting
  /\ p.account # nullptr
  /\ ~p.account.anti_fraud_disabled
\* The margin between what is taken and what is paid, absolute or in per cent.
BelowMargin(p, orig, order) ==
  LET settings == orig.trunkSettings
      o == Rub(p, orig)
      t == Rub(p, order)
  IN /\ orig # nullptr
     /\ settings.minimum_margin_type \in {"percent", "value"}
     /\ OrderPrice(orig) # nullptr /\ OrderPrice(order) # nullptr
     /\ o > 0 /\ t > 0
     /\ IF settings.minimum_margin_type = "value" THEN o - t < settings.minimum_margin
        ELSE (o - t) * 100 < settings.minimum_margin * t

\* Both orderings open the counters of the settings.
InOrder(p, m, orders) ==
  LET open == trunkOpen(m, p.r.now, orders)
      used == [i \in {o.trunkSettings.id : o \in Range(orders)} |-> Find(open, "trunk", i, p.r.now)]
  IN [m |-> open, orders |-> orderTermTrunkSettingsOrderList(p.r, orders, p.origTrunk.sw_minimalki, used)]

getAvailableOrigServiceTrunk(p) ==
  First(orderOrigTrunkSettingsOrderList(p.r,
          getTrunkSettingsOrderList(p.r, p.origTrunk, ToNumber(p.aNumber), ToNumber(p.bNumber),
                                    SERVICE_TRUNK_SETTINGS_ORIGINATION)))
\* The priority of a trunk: that of its first rule that fits, or the default.
Priority(p, trunk) ==
  LET fits(x) == AndThen(NumbersFit(p, x), matchTrunkGroup(p, x.trunk_group_id))
      list == getTrunkPriority(p.r, trunk.id)
      hits == {i \in DOMAIN list : fits(list[i]) # FALSE}
  IN IF hits = {} THEN trunk.default_priority
     ELSE IF fits(list[Min(hits)]) = nullptr THEN nullptr ELSE list[Min(hits)].priority
\* The orders of one trunk after those of the trunks before it (q).
OrdersOfTrunk(p, orig, skipLoopProtection, q, trunk) ==
  LET fits == AndThen(autoTrunkFilterSrcTrunk(p, trunk),
                      AndThen(autoTrunkFilterSrcNumber(p, trunk), autoTrunkFilterDstNumber(p, trunk)))
      own  == InOrder(p, q.m, getTrunkSettingsOrderList(p.r, trunk, ToNumber(p.aNumber), ToNumber(p.bNumber),
                                                        SERVICE_TRUNK_SETTINGS_TERMINATION))
      kept == SelectSeq(own.orders, LAMBDA o : ~TooDear(p, o) /\ ~BelowMargin(p, orig, o))
  IN IF q.stop # "" \/ (trunk.id = p.origTrunk.id /\ ~skipLoopProtection) THEN q
     ELSE IF fits = nullptr THEN Throw(q, "Number, prefix list or group not found")
     ELSE IF ~fits \/ (/\ p.origTrunk.orig_redirect_number /\ p.request.redirectNumber # <<>>
                       /\ ~trunk.term_redirect_number) THEN q
     ELSE [q EXCEPT !.m = own.m, !.orders = @ \o kept]
OrdersOfTrunks(p, orig, skipLoopProtection) ==
  FoldLeft(LAMBDA q, trunk : OrdersOfTrunk(p, orig, skipLoopProtection, q, trunk),
           [m |-> p.m, orders |-> <<>>, stop |-> ""],
           getAllAutoRoutingTrunks(p.r, p.server.id, getSimblingRegion(p.r, p.server.id)))
getAvailableTermServiceTrunk(p, orig, skipLoopProtection) ==
  LET all    == OrdersOfTrunks(p, orig, skipLoopProtection)
      ranked == [i \in DOMAIN all.orders |-> [all.orders[i] EXCEPT !.priority = Priority(p, all.orders[i].trunk)]]
      last   == InOrder(p, all.m, ranked)
      a == [p EXCEPT !.m = all.m, !.stop = all.stop]
  IN IF all.stop # "" THEN a
     ELSE IF \E i \in DOMAIN ranked : ranked[i].priority = nullptr THEN Throw(a, "TrunkGroup not found")
     ELSE [a EXCEPT !.m = last.m, !.orders = last.orders]

\* The first three trunks of the orders.
FirstTrunks(orders) ==
  FoldLeft(LAMBDA names, order : IF Len(names) = 3 \/ order.trunk.trunk_name \in Range(names) THEN names
                                 ELSE Append(names, order.trunk.trunk_name),
           <<>>, orders)
processAutoRouteResponse(p) ==
  IF p.orders = <<>> THEN setReleaseReason(p, "NO_ROUTE_TO_DESTINATION")
  ELSE setRouteCase(p, FirstTrunks(p.orders))
processAutoOutcome(p, skipLoopProtection) ==
  Then(getAvailableTermServiceTrunk(p, getAvailableOrigServiceTrunk(p), skipLoopProtection),
       processAutoRouteResponse)

-----------------------------------------------------------------------------
(* The other outcomes.                                                     *)

Stations(p, outcome) ==
  [p EXCEPT !.response.srcNumber = IF outcome.calling_station_id # <<>> THEN outcome.calling_station_id ELSE @,
            !.response.dstNumber = IF outcome.called_station_id # <<>> THEN outcome.called_station_id ELSE @]
RouteCases(p, outcome) ==
  SelectSeq([i \in 1..3 |-> getRouteCase(p.r, outcome.route_case_ids[i])], LAMBDA c : c # nullptr)
processRouteCaseOutcome(p, outcome) ==
  LET cases == RouteCases(p, outcome)
  IN Need(p, getRouteCase(p.r, outcome.route_case_ids[1]), "Route case not found",
          LAMBDA x : Stations(setRouteCase(x, [i \in DOMAIN cases |-> cases[i].name]), outcome))
processReleaseReasonOutcome(p, outcome) ==
  LET reason == getReleaseReason(p.r, outcome.release_reason_id)
  IN Need(p, reason, "Release reason not found", LAMBDA x : setReleaseReason(x, reason.name))
processAirpOutcome(p, outcome) ==
  LET airp == getAirp(p.r, outcome.airp_id)
  IN Need(p, airp, "Airp not found", LAMBDA x : Stations(setAirp(x, airp.name), outcome))
\* To the region that has to take the call, by the trunks that lead there.
processMegaTrunkPhase1(p, mega) ==
  LET trunks == getAllRoadToRegion(p.r, p.server.id, mega.destRegion, getSimblingRegion(p.r, p.server.id))
  IN IF trunks = <<>> THEN Throw(p, "not found road to Region")
     ELSE setRouteCase(p, [i \in DOMAIN trunks |-> trunks[i].trunk_name])
processMegaTrunkPhase2(p, mega) ==
  Need(p, mega.destTrunk, "not found MegaTrunk", LAMBDA x : setRouteCase(x, <<mega.destTrunk.trunk_name>>))

processOutcome(p, outcomeId, mega, skipLoopProtection) ==
  LET outcome == getOutcome(p.r, outcomeId)
      Do(x) == CASE outcome.type = "auto" -> processAutoOutcome(x, skipLoopProtection)
                 [] outcome.type = "meg_to_reg" -> processMegaTrunkPhase1(x, mega)
                 [] outcome.type = "meg_to_meg" -> processMegaTrunkPhase2(x, mega)
                 [] outcome.type = "route_case" -> processRouteCaseOutcome(x, outcome)
                 [] outcome.type = "release_reason" -> processReleaseReasonOutcome(x, outcome)
                 [] outcome.type = "airp" -> processAirpOutcome(x, outcome)
                 [] outcome.type = "accept" -> setAccept(x)
                 [] OTHER -> Throw(x, "Unexpected type of outcome")
  IN Need(p, outcome, "Outcome not found", Do)

-----------------------------------------------------------------------------
(* Money: the limits of the account.                                       *)

hasCreditLimit(client) == client.credit >= 0
isConsumedCreditLimit(client, value) == hasCreditLimit(client) /\ client.balance + client.credit + value < 1
isConsumedDailyLimit(client, value) ==
  ~client.is_trunk_client /\ ((client.limit_d > 0 /\ client.limit_d + value < 1) \/ client.limit_d <= 0)
isConsumedDailyMNLimit(client, value) ==
  ~client.is_trunk_client /\ ((client.limit_d_mn > 0 /\ client.limit_d_mn + value < 1) \/ client.limit_d_mn <= 0)
isInternational(call) == call.destination_id = 2

Sums == {"balance", "day", "mn"}
NoSums == [s \in Sums |-> 0]
SumsOf(f, id) == IF id \in DOMAIN f THEN f[id] ELSE NoSums
fetchGlobalCounters(p, id) == SumsOf(p.global, id)
WithVat(sum, rate) == (sum * (100 + rate)) \div 100
\* Mutant: the calls that go on are forgotten.
SpentLocal(p, client, call, s) ==
  WithVat(SumsOf(p.local, client.id)[s] + fetchGlobalCounters(p, client.id)[s], getVatRate(client)) + call.cost
\* The cost of the call that is asked for comes without VAT.
Spent(p, client, call, s) ==
  WithVat(SumsOf(p.local, client.id)[s] + SumsOf(p.current, client.id)[s] + fetchGlobalCounters(p, client.id)[s],
          getVatRate(client)) + call.cost

BlockedBy(p, client, reason) ==
  Put(p.blocked, client.id, [reason |-> reason, until |-> p.r.now + BlockTime])
\* The limit a sum is held against.
Consumed(client, s, value) ==
  CASE s = "balance" -> isConsumedCreditLimit(client, value)
    [] s = "day"     -> isConsumedDailyLimit(client, value)
    [] s = "mn"      -> isConsumedDailyMNLimit(client, value)
\* Consumed even without the call: not a second more.  Consumed by the call
\* alone: it may go, and the account's other calls wait.
isLowBalance(p, client, call, reason, s) ==
  LET spent == Spent(p, client, call, s)
      over  == Consumed(client, s, spent)
      before == over /\ Consumed(client, s, spent - call.cost)
  IN [low |-> before,
      blocked |-> IF over /\ ~before THEN BlockedBy(p, client, reason) ELSE p.blocked]

\* Calls that go whatever the account owes.
Unchecked(p) ==
  \/ p.origTrunk.tech_trunk \/ p.origTrunk.pstn_trunk
  \/ isEmergencyCall(p.r, p.bNumber, p.origTrunk.server_id)
\* The verdict on the call, and the blocks after it.
analyzeCall(p, call) ==
  LET client   == getAccount(p.r, call.account_id)
      settings == getInstanceSettings(p.r, p.r.instance_id)
      auto     == settings # nullptr /\ settings.auto_lock_finance
      Verdict(q, word) == [q EXCEPT !.verdict = word]
      credit   == isLowBalance(p, client, call, REASON_NO_BALANCE, "balance")
      a == [p EXCEPT !.blocked = credit.blocked]
      day == isLowBalance(a, client, call, REASON_DAILY_LIMIT, "day")
      b == IF isLocal(call) THEN a ELSE [a EXCEPT !.blocked = day.blocked]
      mn  == isLowBalance(b, client, call, REASON_DAILY_LIMIT, "mn")
      c == IF isInternational(call) THEN [b EXCEPT !.blocked = mn.blocked] ELSE b
  IN IF Unchecked(p) THEN Verdict(p, "accept")
     ELSE IF call.account_id = 0 \/ client = nullptr THEN Verdict(p, "reject")
     ELSE IF client.id \in DOMAIN p.blocked
     THEN Verdict(p, IF p.blocked[client.id].reason = REASON_NO_BALANCE THEN "low_balance" ELSE "voip_disabled")
     ELSE IF call.trunk_service_id # 0 THEN Verdict(a, IF credit.low /\ auto THEN "low_balance" ELSE "accept")
     ELSE IF call.number_service_id = 0 \/ ~call.orig THEN Verdict(p, "accept")
     ELSE IF credit.low /\ call.cost # 0 /\ auto THEN Verdict(a, "low_balance")
     ELSE IF ~isLocal(call) /\ day.low THEN Verdict(b, "voip_disabled")
     ELSE IF isInternational(call) /\ mn.low THEN Verdict(c, "voip_disabled")
     ELSE IF client.is_blocked \/ (~isLocal(call) /\ client.disabled) THEN Verdict(c, "voip_disabled")
     ELSE Verdict(c, "accept")

-----------------------------------------------------------------------------

AuthCdr(p) ==
  [id |-> 0, connect_time |-> p.r.now, session_time |-> 60, src_number |-> p.request.srcNumber,
   dst_number |-> p.request.dstNumber, redirect_number |-> p.request.redirectNumber, dst_replace |-> <<>>,
   src_route |-> p.request.trunkName, dst_route |-> p.request.trunkName, src_noa |-> p.request.srcNoa,
   dst_noa |-> p.request.dstNoa, in_sig_call_id |-> nullptr, out_sig_call_id |-> nullptr]

\* The outcome of the verdict: a rejected client may have one of its own.
Outcome(p, mega) ==
  LET Own(id) == IF id = 0 THEN setReject([p EXCEPT !.done = TRUE]) ELSE [p EXCEPT !.outcomeId = id]
      table   == processRouteTable(p, p.origTrunk.route_table_id, mega)
  IN CASE p.verdict = "voip_disabled" -> Own(p.server.blocked_outcome_id)
       [] p.verdict = "low_balance" -> Own(p.server.low_balance_outcome_id)
       [] p.verdict = "reject" -> setReject([p EXCEPT !.done = TRUE])
       [] p.verdict = "accept" ->
            IF table.stop = "" /\ table.outcomeId = 0
            THEN setReleaseReason([table EXCEPT !.done = TRUE], "NO_ROUTE_TO_DESTINATION") ELSE table
Routed(p, mega, skipLoopProtection) ==
  LET a == Outcome(p, mega)
  IN IF a.done \/ a.stop # "" THEN a ELSE processOutcome(a, a.outcomeId, mega, skipLoopProtection)
Answered(p) ==
  LET a    == authProcessLineWithoutNumber(authProcessRedirectNumber(p))
      cdr  == AuthCdr(a)
      r    == [a.r EXCEPT !.origRegion = IF a.request.region > 0 THEN a.request.region ELSE @,
                          !.currentTime = a.r.now]
      mega == PhaseCalc(r, prepareFromCdr(r, r.origRegion, cdr.src_route, a.aNumber, a.bNumber))
      s    == calc([r |-> r, m |-> a.m, cdr |-> cdr, mega |-> mega, call |-> Call(cdr, TRUE, 0),
                    info |-> CallInfo, stop |-> ""])
      b    == analyzeCall([a EXCEPT !.account = s.info.account, !.m = s.m], s.call)
      \* callIncomingFromMegatrunk
      mine == s.info.instanceSettings # nullptr /\ isForceOrgAuthByNumber(r, mega)
  IN IF p.request.intercept /\ 99 \in {p.r.instance_id, p.request.region} THEN setAccept(p)
     ELSE IF s.stop = "CRASH" THEN Throw(p, "CRASH")
     ELSE Routed(b, mega, mine)

\* An exception anywhere lets the call go by the switch's default route.
process(p) ==
  LET a == Then(init(p), Answered)
  IN IF a.stop \in {"", "CRASH"} THEN a
     ELSE IF a.origTrunk = nullptr /\ ~a.billingNotReady THEN setReleaseReason(a, "NO_ROUTE_TO_DESTINATION")
     ELSE setAccept(a)

=============================================================================
