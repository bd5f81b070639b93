--------------------------- MODULE Tariffication ---------------------------
(***************************************************************************)
(* BillingCall: how one leg of a call is rated.  The rating is a chain of  *)
(* steps over a record s:                                                  *)
(*   s.r, s.m    the lists and the memory of the billing container;        *)
(*   s.cdr       the record of the call, s.mega its mega trunk state;      *)
(*   s.call      the result, s.info what has been found on the way;        *)
(*   s.stop      why the chain has ended, or "".                           *)
(* A CalcException ends the chain and leaves what the steps before it have *)
(* put into the call.  Numbers are sequences of digits, zero is <<0>>; the *)
(* marks in a number's text are the symbols 10 to 13.  Money is counted in *)
(* sixtieths: cost and credit are seconds times the price of a minute.     *)
(***************************************************************************)
EXTENDS MegaTrunk, PackageCounters

CONSTANT billing_free_seconds

Throw(s, what) == [s EXCEPT !.stop = what]
\* The next step of a chain.
Then(s, Step(_)) == IF s.stop # "" THEN s ELSE Step(s)
Need(s, found, what, Step(_)) == IF found = nullptr THEN Throw(s, what) ELSE Step(s)

Zero == <<0>>
\* atoll of a text, as digits: the leading digits without leading zeros.
ToNumber(text) ==
  LET ends   == {i \in 1..Len(text) : text[i] > 9}
      digits == SubSeq(text, 1, IF ends = {} THEN Len(text) ELSE Min(ends) - 1)
      first  == {i \in 1..Len(digits) : digits[i] # 0}
  IN IF first = {} THEN Zero ELSE SubSeq(digits, Min(first), Len(digits))

Call(cdr, orig, id) ==
  [id |-> id, cdr_id |-> cdr.id, connect_time |-> cdr.connect_time, orig |-> orig, our |-> FALSE,
   server_id |-> 0, trunk_id |-> 0, account_id |-> 0, trunk_service_id |-> 0, number_service_id |-> 0,
   src_number |-> ToNumber(cdr.src_number), dst_number |-> ToNumber(cdr.dst_number),
   billed_time |-> cdr.session_time, rate |-> 0, cost |-> 0, price_includes_vat |-> FALSE,
   interconnect_rate |-> 0, interconnect_cost |-> 0, service_package_id |-> 0,
   service_package_stats_id |-> 0, package_time |-> 0, package_credit |-> 0,
   trunk_settings_stats_id |-> 0, pricelist_id |-> 0, prefix |-> Zero, destination_id |-> 2,
   mob |-> FALSE, geo_id |-> 0, geo_mob |-> FALSE, geo_operator_id |-> 0, is_service_number |-> FALSE,
   account_version |-> CALL_ACCOUNT_VERSION_4, stats_nnp_package_minute_id |-> 0,
   nnp_country |-> nullptr, nnp_number_range_id |-> 0, nnp_package_minute_id |-> 0,
   nnp_package_price_id |-> 0, nnp_package_pricelist_id |-> 0, nnp_package_id |-> 0,
   signalling_call_id |-> nullptr]
CallInfo ==
  [f \in {"server", "instanceSettings", "trunk", "account", "serviceNumber", "serviceTrunk",
          "servicePackagePrepaid", "servicePackagePricelist", "trunkSettings", "logTariff",
          "mainTariff", "tariff", "tariffPackagePrepaid", "pricelist", "price", "geo",
          "nnpPackage", "nnpPackagePrice", "nnpPackagePricelist"} |-> nullptr]

getOwnNumber(s) == IF s.call.orig THEN s.call.src_number ELSE s.call.dst_number
getRemoteNumber(s) == IF s.call.orig THEN s.call.dst_number ELSE s.call.src_number
getRoute(s) == IF s.call.orig THEN s.cdr.src_route ELSE s.cdr.dst_route

-----------------------------------------------------------------------------
(* The leg: its trunk, its numbers, its geography.                         *)

setupTrunk(s) ==
  LET trunk    == getTrunkByName(s.r, getRoute(s), s.r.origRegion)
      a == [s EXCEPT !.info.trunk = trunk, !.call.server_id = s.r.instance_id]
      b == [a EXCEPT !.call.trunk_id = trunk.id, !.call.our = trunk.our_trunk \/ trunk.auth_by_number,
                     !.info.server = getServer(s.r, trunk.server_id)]
      c == [b EXCEPT !.call.server_id = trunk.server_id,
                     !.info.instanceSettings = getInstanceSettings(s.r, trunk.server_id)]
  IN IF trunk = nullptr THEN Throw(a, "TRUNK WAS NOT FOUND")
     ELSE IF b.info.server = nullptr THEN Throw(b, "SERVER WAS NOT FOUND")
     ELSE Need(c, c.info.instanceSettings, "INSTANCESETTINGS WAS NOT FOUND", LAMBDA x : x)

processSignalingCallId(s) ==
  IF ~s.info.trunk.our_trunk THEN s
  ELSE [s EXCEPT !.call.signalling_call_id =
                   IF s.call.orig THEN s.cdr.in_sig_call_id ELSE s.cdr.out_sig_call_id]

\* The rules of the trunk in their order, as long as the orders follow one
\* another; the first that fits puts its prefix before the number.
numberPreprocessing(s) ==
  LET Rule(i) == getTrunkNumberPreprocessing(s.r, s.info.trunk.id, i)
      rules == {i \in 1..Cardinality(s.r.trunk_number_preprocessing) : \A j \in 1..i : Rule(j) # nullptr}
      Fits(i, src, text, noa) == Rule(i).src = src /\ Rule(i).noa = noa /\ Rule(i).length = Len(text)
      src == {i \in rules : Fits(i, TRUE, s.cdr.src_number, s.cdr.src_noa)}
      dst == {i \in rules : Fits(i, FALSE, s.cdr.dst_number, s.cdr.dst_noa)}
      With(found, number) == IF found = {} THEN number ELSE ToNumber(Rule(Min(found)).prefix \o number)
  IN [s EXCEPT !.call.src_number = With(src, @), !.call.dst_number = With(dst, @)]

\* The number after the first mark of the kind that is looked for first.
processLineWithoutNumber(s, text) ==
  LET marks == {i \in 1..Len(text) : text[i] > 9}
      kind  == Min({text[i] : i \in marks})
      pos   == Min({i \in marks : text[i] = kind})
  IN [s EXCEPT !.call.src_number = ToNumber(IF marks = {} THEN text
                                            ELSE SubSeq(text, pos + 1, Len(text)))]

processRedirectNumber(s) ==
  LET service == getServiceNumberByTechnicalNumber(s.r, getRemoteNumber(s))
  IN CASE s.info.trunk.orig_redirect_number /\ ToNumber(s.cdr.redirect_number) # Zero ->
            processLineWithoutNumber(s, s.cdr.redirect_number)
       [] /\ ~s.info.trunk.orig_redirect_number /\ s.info.trunk.orig_redirect_number_7800
          /\ service # nullptr ->
            [s EXCEPT !.call.dst_number = IF ToNumber(service.did) = Zero THEN @ ELSE ToNumber(service.did)]
       [] OTHER -> s

processGeo(s) ==
  LET mob == getMobPrefix(s.r, getRemoteNumber(s))
      geo == getGeoPrefix(s.r, getRemoteNumber(s))
  IN [s EXCEPT !.call.geo_mob = IF mob = nullptr THEN @ ELSE mob.mob,
               !.call.geo_id = IF geo = nullptr THEN @ ELSE geo.geo_id,
               !.call.geo_operator_id = IF geo = nullptr THEN @ ELSE geo.geo_operator_id]

\* -1 local, 0 within the zone, 1 national, 2 international.
getDest(s, geo) ==
  LET own == s.info.instanceSettings
  IN CASE geo = nullptr -> 2
       [] geo # nullptr /\ ~s.call.mob /\ own.city_id > 0 /\ geo.city_id = own.city_id -> -1
       [] OTHER -> IF geo.region_id \in own.region_ids THEN 0
                   ELSE IF own.country_id > 0 /\ geo.country_id = own.country_id THEN 1
                   ELSE 2
processDestinations(s) ==
  LET mob == getMobPrefix(s.r, s.call.dst_number)
      pre == getGeoPrefix(s.r, s.call.dst_number)
      geo == getGeo(s.r, pre.geo_id)
      a   == [s EXCEPT !.call.mob = IF mob = nullptr THEN @ ELSE mob.mob]
  IN IF pre = nullptr THEN a
     ELSE [a EXCEPT !.info.geo = geo, !.call.destination_id = getDest(a, geo)]

isLocal(call) == call.destination_id < 0

\* A range without a country gets it from the number; the lists keep it.
processNNP(s) ==
  LET number  == getOwnNumber(s)
      range   == getNNPNumberRange(s.r, number)
      country == getNNPCountryPrefix(s.r, number)
  IN IF range = nullptr THEN [s EXCEPT !.call.nnp_country = country]
     ELSE [s EXCEPT !.call.nnp_number_range_id = range.id,
                    !.call.nnp_country =
                      IF range.country_prefix = <<>> THEN country
                      ELSE IF range.country_code = 0 THEN getNNPCountryPrefix(s.r, range.country_prefix)
                      ELSE <<range.country_prefix, range.country_code>>]

-----------------------------------------------------------------------------
(* The client.                                                             *)

setupServiceTrunk(s) ==
  Need(s, s.info.serviceTrunk, "SERVICE TRUNK WAS NOT FOUND",
       LAMBDA x : [x EXCEPT !.call.trunk_service_id = x.info.serviceTrunk.id])
setupServiceNumber(s) ==
  LET service == getServiceNumber(s.r, getOwnNumber(s))
  IN Need([s EXCEPT !.info.serviceNumber = service], service, "SERVICE NUMBER WAS NOT FOUND",
          LAMBDA x : [x EXCEPT !.call.number_service_id = service.id])
\* Mutant: any service will do.
setupServiceTrunkForAnyNumber(s) ==
  LET service == getServiceTrunk(s.r, s.info.trunk.id)
      a == [s EXCEPT !.info.serviceTrunk = service]
  IN IF ~s.info.trunk.our_trunk /\ service = nullptr THEN Throw(a, "SERVICE TRUNK WAS NOT FOUND")
     ELSE [a EXCEPT !.call.trunk_service_id = IF service = nullptr THEN @ ELSE service.id]
\* A trunk that is not ours must belong to the client of the number.
setupServiceTrunkForNumber(s) ==
  LET service == getServiceTrunk(s.r, s.info.trunk.id)
      a == [s EXCEPT !.info.serviceTrunk = service]
  IN IF ~s.info.trunk.our_trunk /\ service = nullptr THEN Throw(a, "SERVICE TRUNK WAS NOT FOUND")
     ELSE IF /\ ~s.info.trunk.our_trunk
             /\ s.info.serviceNumber.client_account_id # service.client_account_id
     THEN Throw(a, "SERVICE NUMBER ACCOUNT DIFFERENT FROM SERVICE TRUNK_ACCOUNT")
     ELSE [a EXCEPT !.call.trunk_service_id = IF service = nullptr THEN @ ELSE service.id]
setupAccount(s) ==
  LET account == IF s.info.serviceNumber # nullptr
                 THEN getAccount(s.r, s.info.serviceNumber.client_account_id)
                 ELSE IF s.info.serviceTrunk # nullptr
                 THEN getAccount(s.r, s.info.serviceTrunk.client_account_id)
                 ELSE s.info.account
  IN Need([s EXCEPT !.info.account = account], account, "ACCOUNT WAS NOT FOUND",
          LAMBDA x : [x EXCEPT !.call.account_id = account.id,
                               !.call.account_version = account.account_version])

-----------------------------------------------------------------------------
(* Version 4: tariffs, price lists and packages.                           *)

setupPricelist(s, pricelist_id) ==
  LET found == IF pricelist_id = 0 THEN s.info.pricelist ELSE getPricelist(s.r, pricelist_id)
  IN Need([s EXCEPT !.info.pricelist = found], found, "PRICELIST NOT FOUND",
          LAMBDA x : [x EXCEPT !.call.pricelist_id = found.id])
setupPrice(s, number) ==
  LET found == IF number = Zero THEN s.info.price ELSE getPrice(s.r, s.info.pricelist.id, number)
  IN Need([s EXCEPT !.info.price = found], found, "PRICE NOT FOUND",
          LAMBDA x : [x EXCEPT !.call.prefix = ToNumber(found.prefix), !.call.rate = found.price])

getCallLength(len, byMinutes, fullFirstMinute, freeFirstSeconds) ==
  CASE len <= 0 \/ (freeFirstSeconds /\ len <= billing_free_seconds) -> 0
    [] OTHER -> IF byMinutes THEN len + ((60 - (len % 60)) % 60)
                ELSE IF fullFirstMinute /\ len < 60 THEN 60 ELSE len
setupBilledTime(s) ==
  LET by == IF s.info.serviceNumber # nullptr THEN s.info.mainTariff ELSE s.info.pricelist
  IN [s EXCEPT !.call.billed_time =
        getCallLength(s.cdr.session_time, by.tariffication_by_minutes, by.tariffication_full_first_minute,
                      s.info.serviceNumber # nullptr /\ s.info.mainTariff.tariffication_free_first_seconds)]

\* What is paid and what the package pays, seen from the account.
setupCost(s) ==
  LET c == s.call
      paid == c.billed_time - c.package_time
      Signed(sum) == IF c.orig THEN -sum ELSE sum
  IN [s EXCEPT !.call.cost = IF paid > 0 THEN Signed(paid * c.rate) ELSE 0,
               !.call.package_credit = IF c.billed_time > 0 THEN Signed(c.package_time * c.rate) ELSE 0]

setupLogTariff(s) ==
  LET found == getTariffLog(s.r, s.info.serviceNumber.id)
  IN Need([s EXCEPT !.info.logTariff = found], found, "TARIFF CHANGE LOG NOT FOUND", LAMBDA x : x)
setupMainTariff(s) ==
  LET found == getTariff(s.r, s.info.logTariff.tariff_id_local)
  IN Need([s EXCEPT !.info.mainTariff = found], found, "TARIFF NOT FOUND", LAMBDA x : x)
setupTariff(s) ==
  LET c == s.call
      log == s.info.logTariff
      id == CASE c.destination_id < 0 -> log.tariff_id_local
              [] c.destination_id = 0 -> IF c.mob THEN log.tariff_id_local_mob ELSE log.tariff_id_russia
              [] c.destination_id = 1 -> IF c.mob THEN log.tariff_id_russia_mob ELSE log.tariff_id_russia
              [] c.destination_id = 2 -> log.tariff_id_intern
      found == getTariff(s.r, id)
  IN Need([s EXCEPT !.info.tariff = found], found, "TARIFF NOT FOUND", LAMBDA x : x)

\* Whether a prefix list of the package's destination takes the call: one of
\* its prefixes begins the number, or the geography of the call fits; a call
\* whose geography is unknown fits every place.
matchTariffPackageDestination(s, tariff) ==
  LET ids == getAllStatPrefixlistIdsByStatDestinationId(s.r, tariff.destination_id)
      Begins(prefix) == IsPrefix(prefix, s.call.dst_number)
      Place(want, mine) == want > 0 /\ s.info.geo # nullptr => mine = want
      Takes(p) ==
        \/ p.type = "manual" /\ \E x \in p.prefixes : Begins(x)
        \/ /\ p.type = "roslink"
           /\ p.sub_type = "fixed" => ~s.call.mob
           /\ p.sub_type = "mobile" => s.call.mob
           /\ Place(p.country_id, s.info.geo.country_id)
           /\ Place(p.region_id, s.info.geo.region_id)
           /\ Place(p.city_id, s.info.geo.city_id)
           /\ p.operators # {} => (s.call.geo_operator_id \in p.operators) # p.exclude_operators
  IN \E i \in DOMAIN ids : LET p == getStatPrefixlist(s.r, ids[i]) IN p # nullptr /\ Takes(p)

\* The packages of the number, or of the trunk when the call has no number.
Packages(s) ==
  IF s.info.serviceNumber # nullptr THEN getAllServiceNumberPackage(s.r, s.info.serviceNumber.id)
  ELSE IF s.info.serviceTrunk # nullptr THEN getAllServiceTrunkPackage(s.r, s.info.serviceTrunk.id)
  ELSE <<>>

TariffOf(s, p) == getTariffPackage(s.r, p.tariff_package_id)
PricePackages(s) ==
  SelectSeq(Packages(s), LAMBDA p :
    LET tariff == TariffOf(s, p)
    IN /\ tariff # nullptr /\ tariff.pricelist_id # 0
       /\ matchTariffPackageDestination(s, tariff)
       /\ getPricelist(s.r, tariff.pricelist_id) # nullptr
       /\ getPrice(s.r, tariff.pricelist_id, s.call.dst_number) # nullptr)
\* The last package with a price for the call sets the price.
setupPackagePricelist(s) ==
  LET p      == Last(PricePackages(s))
      tariff == TariffOf(s, p)
  IN IF PricePackages(s) = <<>> THEN s
     ELSE [s EXCEPT !.info.pricelist = getPricelist(s.r, tariff.pricelist_id),
                    !.info.price = getPrice(s.r, tariff.pricelist_id, s.call.dst_number),
                    !.info.servicePackagePricelist = p, !.call.service_package_id = p.id]

LesserOf(a, b) == IF a < b THEN a ELSE b
Left(total, used) == IF total > used THEN total - used ELSE 0

\* The free minutes of the tariff pay for local calls; they are package 1.
setupFreemin(s) ==
  LET tariff == s.info.mainTariff
      seconds == 60 * tariff.freemin * (IF tariff.freemin_for_number THEN 1 ELSE s.info.serviceNumber.lines_count)
      m     == freeminGetCurrent(s.m, s.call, s.info.account)
      stats == Find(m, "freemin", s.call.number_service_id, s.call.connect_time)
      free  == LesserOf(Left(seconds, stats.used), s.call.billed_time)
  IN IF s.call.billed_time = 0 \/ ~isLocal(s.call) \/ seconds <= 0 THEN s
     ELSE IF free = 0 THEN [s EXCEPT !.m = m]
     ELSE [s EXCEPT !.m = m, !.call.service_package_id = 1,
                    !.call.service_package_stats_id = stats.id, !.call.package_time = free]

PrepaidPackages(s) ==
  SelectSeq(Packages(s), LAMBDA p : /\ TariffOf(s, p) # nullptr /\ TariffOf(s, p).prepaid_minutes # 0
                                    /\ matchTariffPackageDestination(s, TariffOf(s, p)))
\* The first package that covers the whole call, or else the fullest.  The
\* counters of the packages are opened as they are looked at.
BestPrepaid(s) ==
  LET Look(a, p) ==
        LET m     == packageGetCurrent(a.m, s.call, s.info.account, p, TariffOf(s, p))
            stats == Find(m, "package", p.id, s.call.connect_time)
            left  == LesserOf(Left(stats.paid, stats.used), s.call.billed_time)
        IN IF a.seconds = s.call.billed_time THEN a
           ELSE IF left > a.seconds THEN [m |-> m, seconds |-> left, package |-> p, stats |-> stats.id]
           ELSE [a EXCEPT !.m = m]
  IN FoldLeft(Look, [m |-> s.m, seconds |-> 0, package |-> nullptr, stats |-> 0], PrepaidPackages(s))
setupPackagePrepaid(s) ==
  LET best == BestPrepaid(s)
  IN IF s.call.billed_time = 0 \/ s.call.service_package_id > 0 THEN s
     ELSE IF best.package = nullptr THEN [s EXCEPT !.m = best.m]
     ELSE [s EXCEPT !.m = best.m, !.call.package_time = best.seconds,
                    !.call.service_package_id = best.package.id,
                    !.call.service_package_stats_id = best.stats,
                    !.info.servicePackagePrepaid = best.package,
                    !.info.tariffPackagePrepaid = TariffOf(s, best.package)]

\* What a terminating leg costs more within the zone, or beyond it.
Interconnect(s, pricelist) ==
  LET rate == IF s.call.destination_id = 0 THEN pricelist.initiate_zona_cost
              ELSE IF s.call.destination_id > 0 THEN pricelist.initiate_mgmn_cost ELSE 0
  IN IF s.call.orig \/ rate <= 0 THEN s
     ELSE [s EXCEPT !.call.interconnect_rate = rate, !.call.interconnect_cost = s.call.billed_time * rate]
setupInterconnect(s) == Interconnect(s, s.info.pricelist)

-----------------------------------------------------------------------------
(* Version 5: packages of the numbering plan.                              *)

getCallLengthNNP(len, package) ==
  LET step == IF package.interval_seconds = 0 THEN 1 ELSE package.interval_seconds
      rest == len % step
  IN CASE len <= 0 \/ len <= package.free_seconds -> 0
       [] len > 0 /\ len > package.free_seconds /\ len <= package.min_paid_seconds -> package.min_paid_seconds
       [] OTHER -> IF rest = 0 \/ (rest <= step \div 2 /\ package.round_down) THEN len - rest
                   ELSE len - rest + step
\* A package that is not found is dereferenced all the same.
setupBilledTimeNNP(s, package) ==
  IF package = nullptr THEN Throw(s, "CRASH")
  ELSE [s EXCEPT !.call.billed_time = getCallLengthNNP(s.cdr.session_time, package)]

setupNNPInterconnect(s) ==
  LET price == s.info.nnpPackagePrice
      a == IF s.call.orig \/ price = nullptr THEN s
           ELSE IF price.interconnect_price <= 0 THEN s
           ELSE [s EXCEPT !.call.interconnect_rate = price.interconnect_price,
                          !.call.interconnect_cost = s.call.billed_time * price.interconnect_price]
      list == s.info.nnpPackagePricelist
  IN IF list = nullptr THEN a
     ELSE IF getPricelist(s.r, list.pricelist_id) = nullptr THEN a
     ELSE Interconnect(a, getPricelist(s.r, list.pricelist_id))

setupNNPCost(s) == setupCost(s)

Cheapest(S, Price(_)) == IF S = {} THEN nullptr ELSE CHOOSE x \in S : \A y \in S : Price(x) <= Price(y)
setupNNPPackagePrice(s, lights, destinations) ==
  Cheapest(UNION {findNNPPackagePriceIds(s.r, lights[i].nnp_tariff_id, destinations) : i \in DOMAIN lights},
           LAMBDA x : x.price)
ListPrice(s, x) == getPrice(s.r, x.pricelist_id, s.call.dst_number).price
setupNNPPackagePricelist(s, lights) ==
  Cheapest(UNION {findNNPPackagePricelistIds(s.r, lights[i].nnp_tariff_id, s.call.dst_number) : i \in DOMAIN lights},
           LAMBDA x : ListPrice(s, x))

\* The packages of minutes for the destination that have seconds left, with the
\* account's tariff they come from (the last one of a tariff); of the cheapest
\* by minute the one with the fewest seconds.  The counter of the calls that
\* are still going on is always empty: its manager is a new one for every
\* round and knows none of the counters the calls name.
setupNNPPackageMinute(s, lights, destinations) ==
  LET Light(tariff_id) == Last(SelectSeq(lights, LAMBDA x : x.nnp_tariff_id = tariff_id))
      all == UNION {Range(getNNPPackageMinuteByTariff(s.r, lights[i].nnp_tariff_id, lights[i].coefficient)) :
                      i \in DOMAIN lights}
      SecondsLeft(x) == x.minute * 60 - nnpGetUsedSeconds(s.m, Light(x.nnp_tariff_id).id, s.cdr.connect_time)
                                      - globalCounter(s.r, Light(x.nnp_tariff_id).id, x.id)
      fit == {x \in all : x.nnp_destination_id \in destinations /\ SecondsLeft(x) > 0}
      CostLess(x, y) == Light(x.nnp_tariff_id).price * y.minute < Light(y.nnp_tariff_id).price * x.minute
      best == CHOOSE x \in fit : \A y \in fit :
                CostLess(x, y) \/ (~CostLess(y, x) /\ SecondsLeft(x) <= SecondsLeft(y))
  IN IF fit = {} THEN nullptr ELSE [minute |-> best, seconds |-> SecondsLeft(best)]

\* The cheaper of a package price and a price list sets the rate; the package
\* of minutes pays what it can.
SetupNNPRate(s, lights, destinations) ==
  LET price == setupNNPPackagePrice(s, lights, destinations)
      list  == setupNNPPackagePricelist(s, lights)
  IN IF price = nullptr /\ list = nullptr
     THEN [s EXCEPT !.call.rate = 0, !.call.nnp_package_pricelist_id = 0, !.call.nnp_package_id = 0]
     ELSE IF list = nullptr \/ (price # nullptr /\ price.price <= ListPrice(s, list))
     THEN [s EXCEPT !.call.rate = price.price, !.call.nnp_package_price_id = price.id,
                    !.call.nnp_package_id = price.nnp_tariff_id]
     ELSE [s EXCEPT !.call.rate = ListPrice(s, list), !.call.nnp_package_pricelist_id = list.id,
                    !.call.nnp_package_id = list.nnp_tariff_id]
LightOf(lights, minute) == First(SelectSeq(lights, LAMBDA x : x.nnp_tariff_id = minute.nnp_tariff_id))
UseMinutes(s, lights, found) ==
  LET minute == found.minute
      taken  == LesserOf(found.seconds, s.call.billed_time)
      light  == LightOf(lights, minute)
      m      == nnpGetCurrent(s.m, s.cdr.connect_time, light)
  IN IF taken <= 0 THEN s
     ELSE [s EXCEPT !.m = m, !.call.nnp_package_minute_id = minute.id,
                    !.call.nnp_package_id = minute.nnp_tariff_id, !.call.package_time = taken,
                    !.call.stats_nnp_package_minute_id = Find(m, "nnp", light.id, s.cdr.connect_time).id]
calcOrigNNPByNumber(s) ==
  LET lights == getActiveNNPAccountTariffLight(s.r, s.call.account_id, s.call.connect_time,
                                               s.info.serviceNumber.id)
      destinations == getNNPDestinationByNum(s.r, s.call.dst_number)
      a     == SetupNNPRate(s, lights, destinations)
      found == setupNNPPackageMinute(s, lights, destinations)
      tariff_id == IF found = nullptr THEN a.call.nnp_package_id ELSE found.minute.nnp_tariff_id
      b == Need(a, getNNPPackage(s.r, tariff_id), "NOT FOUND nnpPackages",
                LAMBDA x : setupBilledTimeNNP(x, getNNPPackage(s.r, tariff_id)))
      c == Then(b, LAMBDA x : IF found = nullptr THEN x ELSE UseMinutes(x, lights, found))
  IN IF lights = <<>> THEN Throw(s, "NOT FOUND AccountTariffLight") ELSE Then(c, setupNNPCost)

-----------------------------------------------------------------------------
(* A leg that is authorised by its trunk.                                  *)

\* The account, the service and the prices of the first order of the trunk.
TakeOrder(s, order) ==
  LET a == [s EXCEPT !.info.account = order.account, !.info.serviceTrunk = order.serviceTrunk,
                     !.info.trunkSettings = order.trunkSettings, !.info.pricelist = order.pricelist,
                     !.info.price = order.price]
      IdOf(x, id) == IF x = nullptr THEN id ELSE x.id
  IN IF order.account.account_version # CALL_ACCOUNT_VERSION_5 THEN a
     ELSE [a EXCEPT !.info.nnpPackage = order.nnpPackage,
                    !.info.nnpPackagePricelist = order.nnpPackagePricelist,
                    !.info.nnpPackagePrice = order.nnpPackagePrice,
                    !.call.nnp_package_price_id = IdOf(order.nnpPackagePrice, @),
                    !.call.nnp_package_pricelist_id = IdOf(order.nnpPackagePricelist, @),
                    !.call.nnp_package_id = IdOf(order.nnpPackage, @), !.call.rate = order.nnp_price]
setupEffectiveOrigTrunkSettings(s) ==
  LET list == orderOrigTrunkSettingsOrderList(s.r,
                getTrunkSettingsOrderList(s.r, s.info.trunk, s.call.src_number, s.call.dst_number,
                                          SERVICE_TRUNK_SETTINGS_ORIGINATION))
  IN IF list = <<>> THEN s ELSE TakeOrder(s, list[1])
\* The counters of the orders are opened.
trunkOpen(m, time, orders) ==
  FoldLeft(LAMBDA x, o : trunkGetCurrent(x, time, o.account, o.trunkSettings), m, orders)
\* The minimums count when the trunk the call comes from says so.
setupEffectiveTermTrunkSettings(s) ==
  LET orders == getTrunkSettingsOrderList(s.r, s.info.trunk, s.call.src_number, s.call.dst_number,
                                          SERVICE_TRUNK_SETTINGS_TERMINATION)
      from   == getTrunkByName(s.r, s.cdr.src_route, s.r.origRegion)
      time   == s.call.connect_time
      m      == trunkOpen(s.m, time, orders)
      used   == [i \in {o.trunkSettings.id : o \in Range(orders)} |-> Find(m, "trunk", i, time)]
      list   == orderTermTrunkSettingsOrderList(s.r, orders, from.sw_minimalki, used)
  IN IF from = nullptr THEN Throw(s, "ORIG TRUNK WAS NOT FOUND")
     ELSE IF orders = <<>> THEN s
     ELSE [TakeOrder([s EXCEPT !.m = m], list[1])
           EXCEPT !.call.trunk_settings_stats_id = used[list[1].trunkSettings.id].id]

\* Its prices, by the version of the account.
OrigPackage(s, Step(_)) == IF s.call.orig THEN Then(s, Step) ELSE s
TrunkPrice(s) ==
  Then(Then(Then(OrigPackage(s, setupPackagePricelist), LAMBDA x : setupPricelist(x, 0)),
            LAMBDA x : setupPrice(x, Zero)), setupBilledTime)
calcByTrunkV4(s) ==
  LET priced == TrunkPrice(s)
  IN Then(Then(OrigPackage(priced, setupPackagePrepaid), setupInterconnect), setupCost)
calcByTrunkV5(s) ==
  Then(Then(setupBilledTimeNNP(s, s.info.nnpPackage), setupNNPInterconnect), setupNNPCost)
calcByTrunk(s) ==
  LET a == IF s.call.orig THEN setupEffectiveOrigTrunkSettings(s) ELSE setupEffectiveTermTrunkSettings(s)
      b == Then(Then(a, setupServiceTrunk), setupAccount)
  IN Then(b, LAMBDA x : CASE x.call.account_version = CALL_ACCOUNT_VERSION_4 -> calcByTrunkV4(x)
                          [] x.call.account_version = CALL_ACCOUNT_VERSION_5 -> calcByTrunkV5(x)
                          [] OTHER -> Throw(x, "UNKNOW ACCOUNT VERSION"))

-----------------------------------------------------------------------------
(* A leg that is authorised by its number.                                 *)

\* The price of its tariff, or of a package.
NumberPrice(s) ==
  IF s.info.servicePackagePricelist # nullptr
  THEN Then(setupPricelist(s, 0), LAMBDA x : setupPrice(x, Zero))
  ELSE Then(Then(setupTariff(s), LAMBDA x : setupPricelist(x, x.info.tariff.pricelist_id)),
            LAMBDA x : setupPrice(x, x.call.dst_number))
calcOrigByNumber(s) ==
  LET a == Then(Then(Then(setupLogTariff(s), setupMainTariff), setupBilledTime), setupPackagePricelist)
      b == Then(a, NumberPrice)
  IN CASE s.call.account_version = CALL_ACCOUNT_VERSION_5 -> calcOrigNNPByNumber(s)
       [] s.call.account_version = CALL_ACCOUNT_VERSION_4 ->
            Then(Then(Then(b, setupFreemin), setupPackagePrepaid), setupCost)
       [] OTHER -> Throw(s, "UNKNOW ACCOUNT VERSION")

isUsage7800(s) == IsPrefix(<<7, 8, 0, 0>>, getOwnNumber(s))
\* The owner of a free number pays for the calls to it.
Paid7800(s) ==
  Then(Then(Then(setupPricelist(s, s.info.mainTariff.pricelist_id),
                 LAMBDA x : setupPrice(x, x.call.src_number)), setupCost),
       LAMBDA x : [x EXCEPT !.call.cost = -@])
calcTermByNumber(s) ==
  Then(Then(Then(setupLogTariff(s), setupMainTariff), setupBilledTime),
       LAMBDA x : IF isUsage7800(x) THEN Paid7800(x) ELSE x)

\* A call put through to a service number costs nothing.
calcByNumber(s, skip) ==
  LET a == IF s.call.orig /\ ToNumber(s.cdr.redirect_number) = Zero
           THEN processLineWithoutNumber(s, s.cdr.src_number) ELSE s
      b == Then(Then(setupServiceNumber(a), setupServiceTrunkForNumber), setupAccount)
      service == b.call.orig /\ b.cdr.dst_replace # <<>> /\ b.cdr.dst_replace \in b.info.server.service_numbers
  IN Then(b, LAMBDA x : CASE ~x.call.orig -> calcTermByNumber(x)
                          [] x.call.orig /\ service -> [x EXCEPT !.call.is_service_number = TRUE]
                          [] OTHER -> IF skip THEN x ELSE calcOrigByNumber(x))

setVatFlag(s) ==
  LET c == s.call
      package == s.info.nnpPackage
      list == s.info.nnpPackagePricelist
      Vat(pricelist) == IF pricelist = nullptr THEN c.price_includes_vat ELSE pricelist.price_include_vat
  IN [s EXCEPT !.call.price_includes_vat =
        CASE c.account_version = CALL_ACCOUNT_VERSION_4 ->
               s.info.pricelist # nullptr /\ s.info.pricelist.price_include_vat
          [] c.account_version = CALL_ACCOUNT_VERSION_5 /\ c.nnp_package_price_id # 0 ->
               package # nullptr /\ package.is_include_vat
          [] c.account_version = CALL_ACCOUNT_VERSION_5 /\ c.nnp_package_price_id = 0 ->
               IF c.nnp_package_pricelist_id = 0 \/ list = nullptr THEN @
               ELSE Vat(getPricelist(s.r, list.pricelist_id))
          [] OTHER -> @]

isNeedForceCalcByNumber(s) ==
  IF s.call.orig THEN isForceOrgAuthByNumber(s.r, s.mega) ELSE s.mega.isNeedForceTermAuthByNumber

\* The leg before its client is looked for.
OnTrunk(s) ==
  LET a == Then(setupTrunk(s), processSignalingCallId)
  IN IF s.call.orig THEN Then(Then(a, numberPreprocessing), processRedirectNumber) ELSE a
Placed(s) == Then(Then(Then(OnTrunk(s), processGeo), processDestinations), processNNP)
calcByTrunkOrNumber(s) ==
  IF s.info.trunk.auth_by_number \/ isNeedForceCalcByNumber(s)
  THEN calcByNumber(s, isForceOrigTarifficationSkip(s.r, s.mega)) ELSE calcByTrunk(s)
calc(s) == Then(Then(Placed(s), calcByTrunkOrNumber), setVatFlag)

=============================================================================
