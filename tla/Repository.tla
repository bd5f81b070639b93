----------------------------- MODULE Repository -----------------------------
(***************************************************************************)
(* The questions the tariffication and the RADIUS server ask of the lists: *)
(* which trunk a name means, whether a number is in a number set, what the *)
(* trunks of an operator would charge for a call and in which order they   *)
(* are tried, where a number belongs in the national numbering plan.       *)
(* Money is an integer of a small unit; a rate is an integer.              *)
(***************************************************************************)
EXTENDS Lists

CALL_ACCOUNT_VERSION_4 == 4
CALL_ACCOUNT_VERSION_5 == 5

\* The positions 1 to n put in order, one after the other, each behind those it
\* does not come before: less is the set of pairs <<i, j>> where i comes before j.
Arranged(n, less) ==
  LET placed[k \in 0..n] ==
        IF k = 0 THEN [i \in 1..n |-> i]
        ELSE LET done == placed[k - 1]
                 at   == Cardinality({i \in 1..(k - 1) : <<k, done[i]>> \notin less})
             IN [i \in 1..n |-> IF i <= at \/ i > k THEN done[i] ELSE IF i = at + 1 THEN k ELSE done[i - 1]]
  IN placed[n]
\* std::sort and std::stable_sort with a comparison.
sort(list, Less(_, _)) ==
  LET n == Len(list)
      order == Arranged(n, {p \in (1..n) \X (1..n) : Less(list[p[1]], list[p[2]])})
  IN [i \in 1..n |-> list[order[i]]]

\* A vector that takes n lists, one behind the other.
Joined(n, lists) ==
  LET joined[k \in 0..n] == IF k = 0 THEN <<>> ELSE joined[k - 1] \o lists[k]
  IN joined[n]

\* A list taken before all lists are loaded answers nothing: the repository is
\* ready when every list is, and its own instance is known in three of them.
prepare(r) ==
  /\ r.hub_id > 0 => getHub(r, r.hub_id) # nullptr
  /\ getServer(r, r.instance_id) # nullptr
  /\ getInstanceSettings(r, r.instance_id) # nullptr
\* It keeps each list as it is then, and the time the questions are asked for:
\* a call's own, so a call rated late sees the prices of its day.
prepareAt(tables, currentTime) == [tables EXCEPT !.currentTime = currentTime]

-----------------------------------------------------------------------------
(* Trunks and numbers.                                                     *)

getTrunkOfSettings(r, trunk_settings_id) ==
  LET settings == {s \in r.service_trunk_settings : s.id = trunk_settings_id}
      services == {t \in r.service_trunk : \E s \in settings : t.id = s.trunk_id}
  IN IF settings = {} \/ services = {} THEN nullptr
     ELSE getTrunk(r, (CHOOSE t \in services : TRUE).trunk_id)

getTrunkByName(r, trunk_name, org_server_id) ==
  LET regions == getSimblingRegion(r, IF org_server_id > 0 THEN org_server_id ELSE r.instance_id)
      named   == trunkByName_find(r, trunk_name, regions)
  IN IF trunk_name = <<>> THEN nullptr
     ELSE IF named # nullptr THEN named
     ELSE trunkByAlias_find(r, trunk_name, regions)

matchPrefixlist(r, prefixlist_id, number) ==
  /\ getPrefixlist(r, prefixlist_id) # nullptr
  /\ getPrefixlistPrefix(r, prefixlist_id, number) # nullptr

\* The prefix lists of a number set are an array in a text; zero ids are dropped.
getPrefixlistIds(number) == {i \in number.prefixlist_ids : i > 0}
matchNumber(r, number_id, number) ==
  LET set == getNumber(r, number_id)
  IN set # nullptr /\ \E i \in getPrefixlistIds(set) : matchPrefixlist(r, i, number)

isEmergencyCall(r, bNumber, server_id) ==
  LET server == getServer(r, server_id)
  IN /\ server # nullptr
     /\ server.emergency_prefixlist_id # 0
     /\ matchPrefixlist(r, server.emergency_prefixlist_id, bNumber)

getVatRate(client) ==
  IF client # nullptr /\ ~client.price_include_vat THEN client.effective_vat_rate ELSE 0

-----------------------------------------------------------------------------
(* Money in several currencies.                                            *)

\* A currency without a rate counts one to one.
getCurrencyRate(r, currency_id) ==
  LET rate == currencyRate_find(r, currency_id)
  IN IF rate = nullptr \/ rate.rate <= 0 THEN 1 ELSE rate.rate
priceToRoubles(r, price, currency_id) == price * getCurrencyRate(r, currency_id)
priceLessThan(r, left, leftCurrency, right, rightCurrency) ==
  IF leftCurrency = rightCurrency THEN left < right
  ELSE priceToRoubles(r, left, leftCurrency) < priceToRoubles(r, right, rightCurrency)

\* The price of an order, or none: an account of version 5 is charged by its
\* package, one of version 4 by the price list.
OrderPrice(order) ==
  CASE order.account.account_version = CALL_ACCOUNT_VERSION_5 /\ order.nnpPackage # nullptr ->
         <<order.nnp_price, order.nnpPackage.currency_id>>
    [] order.account.account_version = CALL_ACCOUNT_VERSION_4 /\ order.price # nullptr ->
         <<order.price.price, order.pricelist.currency_id>>
    [] OTHER -> nullptr
\* A price that is present comes before one that is not.
trunkOrderLessThan(r, left, right) ==
  LET l == OrderPrice(left)
      p == OrderPrice(right)
  IN /\ l # nullptr
     /\ p # nullptr => priceLessThan(r, l[1], l[2], p[1], p[2])

-----------------------------------------------------------------------------
(* The orders of a trunk: what its services would charge for the call.     *)

checkTrunkSettingsNumbers(r, settings, srcNumber, dstNumber) ==
  /\ settings.src_number_id > 0 => matchNumber(r, settings.src_number_id, srcNumber)
  /\ settings.dst_number_id > 0 => matchNumber(r, settings.dst_number_id, dstNumber)

\* The price by the number, or by the network type of its prefix.
SettingsPrice(r, pricelist, dstNumber) ==
  LET network == getNetworkPrefix(r, pricelist.local_network_config_id, dstNumber)
  IN IF ~pricelist.local THEN getPrice(r, pricelist.id, dstNumber)
     ELSE IF network = nullptr THEN nullptr
     ELSE getPrice(r, pricelist.id, <<network.network_type_id>>)
checkTrunkSettingsOldPricelistConditions(r, settings, srcNumber, dstNumber) ==
  LET pricelist == getPricelist(r, settings.pricelist_id)
  IN /\ checkTrunkSettingsNumbers(r, settings, srcNumber, dstNumber)
     /\ pricelist # nullptr
     /\ SettingsPrice(r, pricelist, dstNumber) # nullptr
checkNNPTrunkSettingsConditions(r, settings, srcNumber, dstNumber) ==
  /\ settings.nnp_tariff_id # 0
  /\ checkTrunkSettingsNumbers(r, settings, srcNumber, dstNumber)

findNNPPackagePricelistIds(r, tariff_id, number) ==
  {x \in findPackagePricelistIds(r, tariff_id) : getPrice(r, x.pricelist_id, number) # nullptr}

getNNPDestinationByNumberRange(r, range) ==
  IF range = nullptr THEN {}
  ELSE getNNPDestinationsByPrefix(r, getNNPPrefixsByNumberRange(r, range.id))
getNNPDestinationByNum(r, number) == getNNPDestinationByNumberRange(r, getNNPNumberRange(r, number))

ServiceTrunkOrder(trunk, account, serviceTrunk, settings) ==
  [trunk |-> trunk, account |-> account, serviceTrunk |-> serviceTrunk,
   trunkSettings |-> settings, pricelist |-> nullptr, price |-> nullptr, nnpPackage |-> nullptr,
   nnpPackagePrice |-> nullptr, nnpPackagePricelist |-> nullptr, nnp_price |-> 0, priority |-> 0]

\* The cheapest of the prices a tariff has for the destinations of the number
\* and of the price lists it names; the tariff's own price wins a tie.
NNPOrder(r, order, destinations, dstNumber) ==
  LET tariff_id == order.trunkSettings.nnp_tariff_id
      prices == {[price |-> x.price, list |-> nullptr, item |-> x] :
                   x \in findNNPPackagePriceIds(r, tariff_id, destinations)}
      lists  == {[price |-> getPrice(r, x.pricelist_id, dstNumber).price, list |-> x, item |-> nullptr] :
                   x \in findNNPPackagePricelistIds(r, tariff_id, dstNumber)}
      all    == prices \cup lists
      best   == CHOOSE x \in all : \A y \in all :
                  \/ x.price < y.price
                  \/ x.price = y.price /\ (x.list = nullptr \/ y.list # nullptr)
  IN IF all = {} THEN <<>>
     ELSE <<[order EXCEPT !.nnpPackagePricelist = best.list, !.nnpPackagePrice = best.item,
                          !.nnpPackage = getNNPPackage(r, tariff_id), !.nnp_price = best.price]>>

\* The orders of one setting: none, or one.
SettingsOrder(r, trunk, serviceTrunk, settings, srcNumber, dstNumber) ==
  LET account == getAccount(r, serviceTrunk.client_account_id)
      order   == ServiceTrunkOrder(trunk, account, serviceTrunk, settings)
      pricelist == getPricelist(r, settings.pricelist_id)
  IN CASE account = nullptr -> <<>>
       [] account.account_version = CALL_ACCOUNT_VERSION_4
          /\ checkTrunkSettingsOldPricelistConditions(r, settings, srcNumber, dstNumber) ->
            <<[order EXCEPT !.pricelist = pricelist, !.price = SettingsPrice(r, pricelist, dstNumber)]>>
       [] account.account_version = CALL_ACCOUNT_VERSION_5
          /\ checkNNPTrunkSettingsConditions(r, settings, srcNumber, dstNumber) ->
            NNPOrder(r, order, getNNPDestinationByNum(r, dstNumber), dstNumber)
       [] OTHER -> <<>>

getTrunkSettingsOrderList(r, trunk, srcNumber, dstNumber, destinationType) ==
  LET services == getAllServiceTrunk(r, trunk.id)
      OfService(s) ==
        LET all == getAllServiceTrunkSettings(r, s.id, destinationType)
            n   == Len(all)
        IN Joined(n, [j \in 1..n |-> SettingsOrder(r, trunk, s, all[j], srcNumber, dstNumber)])
      count == Len(services)
  IN Joined(count, [i \in 1..count |-> OfService(services[i])])

orderOrigTrunkSettingsOrderList(r, list) == sort(list, LAMBDA a, b : trunkOrderLessThan(r, a, b))

\* First the trunks whose minimum is not used up (used: the counters by setting,
\* when minimums are looked at), then the others, each part cheapest first; then
\* the whole by priority.
BelowMinimum(order, used) ==
  LET s == order.trunkSettings IN
  \/ s.minimum_minutes > 0 /\ used[s.id].used < s.minimum_minutes * 60
  \/ s.minimum_cost > 0 /\ used[s.id].credit <= s.minimum_cost
orderTermTrunkSettingsOrderList(r, list, fUseMinimalki, used) ==
  LET Free(o) == fUseMinimalki /\ BelowMinimum(o, used)
      FreeThenCheaper(a, b) == IF Free(a) = Free(b) THEN trunkOrderLessThan(r, a, b) ELSE Free(a)
  IN sort(sort(list, FreeThenCheaper), LAMBDA a, b : a.priority > b.priority)

-----------------------------------------------------------------------------
(* Geography by the numbering plan.                                        *)

\* Of the calling numbers the first in the city of the called one, else the
\* first in its region; the default one is asked first.
getNNPBestGeoRoute(r, NumAdef, vNumA, NumB) ==
  LET to   == getNNPNumberRange(r, NumB)
      vNr  == SelectSeq(<<NumAdef>> \o vNumA, LAMBDA n : getNNPNumberRange(r, n) # nullptr)
      city == SelectSeq(vNr, LAMBDA n : getNNPNumberRange(r, n).nnp_city_id = to.nnp_city_id)
      area == SelectSeq(vNr, LAMBDA n : getNNPNumberRange(r, n).nnp_region_id = to.nnp_region_id)
  IN IF getNNPNumberRange(r, NumAdef) = nullptr \/ to = nullptr THEN nullptr
     ELSE First(city \o area)
getNNPRegionTrunkByNum(r, numA) ==
  LET service == getServiceNumber(r, numA)
  IN IF service = nullptr THEN nullptr
     ELSE [server_id |-> service.server_id, trunk |-> findAnyOurTrunk(r, service.server_id)]

\* The number ranges a filter leaves; zero and an empty operator list mean any.
getPrefixByFilter(r, f) ==
  {x \in r.nnp_number_range :
     /\ f.country_code # 0 => x.country_code = f.country_code
     /\ f.operators # {} => (x.nnp_operator_id \in f.operators) # f.oper_excluded
     /\ f.region_id # 0 => x.nnp_region_id = f.region_id
     /\ f.city_id # 0 => x.nnp_city_id = f.city_id
     /\ f.ndc_type_id # 0 => x.ndc_type_id = f.ndc_type_id}
\* The ranges of a destination's added and excluded prefixes, for PrefixTree.
RangesOfDestination(r, destination_id, is_addition) ==
  {getNNPNumberRangeById(r, i) : i \in UNION {getNumberRangesByNNPPrefix(r, p) :
     p \in getPrefixsByNNPDestination(r, destination_id, is_addition)}} \ {nullptr}

=============================================================================
