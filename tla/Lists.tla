------------------------------- MODULE Lists -------------------------------
(***************************************************************************)
(* The lists of the repository, one getter per list: the rows its query    *)
(* selects, in the order the query asks for, narrowed by binary searches.  *)
(* A repository r is a record: r.<table> is the set of the table's rows,   *)
(* r.instance_id and r.hub_id are the configuration, r.currentTime is the  *)
(* moment the answers are for, r.now the clock.  A pointer that is null is *)
(* nullptr; a vector is a sequence.                                        *)
(***************************************************************************)
EXTENDS ObjList, Integers

CONSTANT Day   \* the length of a day in the model's time unit

-----------------------------------------------------------------------------
(* Servers, and the regions whose rows are loaded.                         *)

getServer(r, id) == ById(r.server, id)
getServersByHubId(r, hub_id) == {s \in r.server : s.hub_id = hub_id}
isRegionOnHub(r, region) ==
  LET server == getServer(r, region)
  IN \/ r.instance_id = region
     \/ r.hub_id > 0 /\ server # nullptr /\ server.hub_id = r.hub_id
Ids(rows) == {x.id : x \in rows}
\* after_load puts this list of regions into the configuration.
sql_regions_list(r) ==
  LET servers == getServersByHubId(r, r.hub_id)
  IN IF r.hub_id > 0 /\ servers # {} THEN Ids(servers) ELSE {r.instance_id}
getSimblingRegion(r, server_id) ==
  LET server == getServer(r, server_id)
  IN IF server = nullptr THEN {}
     ELSE IF server.hub_id > 0 THEN Ids(getServersByHubId(r, server.hub_id))
     ELSE {server_id}
getServerIdByIP(r, l_addr) ==
  LET list == SelectSeq(load(r.server, LAMBDA x : <<Id(x)>>), LAMBDA x : x.nas_ip_address = l_addr)
  IN IF list = <<>> THEN 0 ELSE list[1].id

\* "where server_id in " + get_sql_regions_for_load_list_list(): an API host
\* loads the rows of all regions.
Local(r, rows) ==
  {x \in rows : x.server_id \in IF r.api_host THEN Ids(r.server) ELSE sql_regions_list(r)}

getHub(r, id) == ById(r.hub, id)
getInstanceSettings(r, id) == ById(r.instance_settings, id)

-----------------------------------------------------------------------------
(* Lists searched by id alone.                                             *)

getAccount(r, id)       == ById(r.clients, id)
getPricelist(r, id)     == ById(r.pricelist, id)
getTariff(r, id)        == ById(r.tariff, id)
getTariffPackage(r, id) == ById(r.tariff_package, id)
getGeo(r, id)           == ById(r.geo, id)
getTrunk(r, id)         == ById(Local(r, r.trunk), id)
getTrunkGroup(r, id)    == ById(r.trunk_group, id)
getRouteTable(r, id)    == ById(Local(r, r.route_table), id)
getOutcome(r, id)       == ById(Local(r, r.outcome), id)
getRouteCase(r, id)     == ById(Local(r, r.route_case), id)
getReleaseReason(r, id) == ById(Local(r, r.release_reason), id)
getAirp(r, id)          == ById(Local(r, r.airp), id)
getNumber(r, id)        == ById(Local(r, r.number), id)
getPrefixlist(r, id)    == ById(Local(r, r.prefixlist), id)
getStatPrefixlist(r, id) == ById(r.stat_prefixlist, id)
getOperator(r, id)      == ById({x \in r.operator : x.region = 0} \cup
                                 {x \in r.operator : x.region \in sql_regions_list(r)}, id)
getNNPDestination(r, id) == ById(r.nnp_destination, id)
getNNPPackage(r, id)    == ById(r.nnp_package, id)
getNNPOperator(r, id)   == ById(r.nnp_operator, id)
getNNPRegion(r, id)     == ById(r.nnp_region, id)
getNNPPrefix(r, id)     == ById(r.nnp_prefix, id)

-----------------------------------------------------------------------------
(* Prices, network prefixes, tariffs: a key, a prefix of the number, and   *)
(* the interval that holds the current time.                               *)

\* A price ends at the end of its last day.
getPrice(r, pricelist_id, number) ==
  LET rows == {[x EXCEPT !.date_to = @ + Day - 1] : x \in r.defs}
      list == load(rows, LAMBDA x : <<<<x.pricelist_id>>, x.prefix, <<x.date_from>>>>)
      own  == Where(list, LAMBDA x : <<x.pricelist_id>>, <<pricelist_id>>)
      find(prefix) == First(WhereActive(Where(own, LAMBDA x : x.prefix, prefix),
                                         LAMBDA x : x.date_from, LAMBDA x : x.date_to,
                                         r.currentTime))
  IN LongestPrefix(number, find)

\* A network prefix ends at the beginning of its last day.
getNetworkPrefix(r, network_config_id, number) ==
  LET list == load(r.network_prefix,
                   LAMBDA x : <<<<x.network_config_id>>, x.prefix, <<x.date_from>>>>)
      own  == Where(list, LAMBDA x : <<x.network_config_id>>, <<network_config_id>>)
      find(prefix) == First(WhereActive(Where(own, LAMBDA x : x.prefix, prefix),
                                         LAMBDA x : x.date_from, LAMBDA x : x.date_to,
                                         r.currentTime))
  IN LongestPrefix(number, find)

getMobPrefix(r, number) ==
  LET list == load(r.mob_prefix, LAMBDA x : <<x.prefix>>)
  IN LongestPrefix(number, LAMBDA prefix : First(Where(list, LAMBDA x : x.prefix, prefix)))
getGeoPrefix(r, number) ==
  LET list == load(r.geo_prefix, LAMBDA x : <<x.prefix>>)
  IN LongestPrefix(number, LAMBDA prefix : First(Where(list, LAMBDA x : x.prefix, prefix)))

getOrganization(r, organization_id) ==
  LET list == load(r.organization, LAMBDA x : <<<<x.organization_id>>, <<x.actual_from>>>>)
  IN First(WhereActive(Where(list, LAMBDA x : <<x.organization_id>>, <<organization_id>>),
                       LAMBDA x : x.actual_from, LAMBDA x : x.actual_to, r.currentTime))

\* Of the changes of a usage at one moment the last is kept; a change ends one
\* second before the next change of the usage begins.
getTariffLog(r, usage_id) ==
  LET rows == {x \in r.tariff_change_log :
                 \A y \in r.tariff_change_log :
                   y.usage_id = x.usage_id /\ y.activation_date = x.activation_date => y.id <= x.id}
      list == load(rows, LAMBDA x : <<<<x.usage_id>>, <<x.activation_date>>>>)
      Expires(x) == {y.activation_date - 1 : y \in {z \in rows : z.usage_id = x.usage_id
                                                       /\ z.activation_date > x.activation_date}}
      own  == Where(list, LAMBDA x : <<x.usage_id>>, <<usage_id>>)
  IN First(equal_range(own, LAMBDA x : Expires(x) # {} /\ Min(Expires(x)) < r.currentTime,
                            LAMBDA x : r.currentTime < x.activation_date))

-----------------------------------------------------------------------------
(* Services: the key, the rows activated by now, and of these the ones     *)
(* that have not expired.                                                  *)

Unexpired(list, time) == SelectSeq(list, LAMBDA x : x.expire_dt >= time)

getServiceNumber(r, number) ==
  LET list == load(r.service_number, LAMBDA x : <<x.did, <<x.activation_dt>>>>)
      own  == Where(list, LAMBDA x : x.did, number)
  IN First(Unexpired(Until(own, LAMBDA x : x.activation_dt, r.currentTime), r.currentTime))

getServiceNumberByTechnicalNumber(r, number) ==
  LET rows == {x \in Local(r, r.service_number) : x.tech_number # nullptr}
      list == load(rows, LAMBDA x : <<x.tech_number, <<x.activation_dt>>>>)
      own  == Where(list, LAMBDA x : x.tech_number, number)
  IN First(Unexpired(Until(own, LAMBDA x : x.activation_dt, r.currentTime), r.currentTime))

getServiceNumberByClientID(r, client_id) ==
  SelectSeq(load(r.service_number, LAMBDA x : <<x.did, <<x.activation_dt>>>>),
            LAMBDA x : x.client_account_id = client_id)

getAllServiceTrunk(r, trunk_id) ==
  LET list == load(r.service_trunk, LAMBDA x : <<<<x.trunk_id>>, <<x.activation_dt>>>>)
      own  == Where(list, LAMBDA x : <<x.trunk_id>>, <<trunk_id>>)
  IN Unexpired(Until(own, LAMBDA x : x.activation_dt, r.currentTime), r.currentTime)
getServiceTrunk(r, trunk_id) == First(getAllServiceTrunk(r, trunk_id))

SERVICE_TRUNK_SETTINGS_ORIGINATION == 1
SERVICE_TRUNK_SETTINGS_TERMINATION == 2
getAllServiceTrunkSettings(r, trunk_id, type) ==
  LET list == load(r.service_trunk_settings, LAMBDA x : <<<<x.trunk_id>>, <<x.type>>, <<x.order>>>>)
  IN Where(Where(list, LAMBDA x : <<x.trunk_id>>, <<trunk_id>>), LAMBDA x : <<x.type>>, <<type>>)

\* A package stops at its end, a number or a trunk after it.
getAllServiceNumberPackage(r, service_number_id) ==
  LET rows == {x \in r.service_package : x.service_number_id > 0}
      list == load(rows, LAMBDA x : <<<<x.service_number_id>>, <<x.activation_dt>>, Id(x)>>)
      own  == Where(list, LAMBDA x : <<x.service_number_id>>, <<service_number_id>>)
  IN SelectSeq(Until(own, LAMBDA x : x.activation_dt, r.currentTime),
               LAMBDA x : x.expire_dt > r.currentTime)
getAllServiceTrunkPackage(r, service_trunk_id) ==
  LET rows == {x \in r.service_package : x.service_trunk_id > 0}
      list == load(rows, LAMBDA x : <<<<x.service_trunk_id>>, <<x.activation_dt>>, Id(x)>>)
      own  == Where(list, LAMBDA x : <<x.service_trunk_id>>, <<service_trunk_id>>)
  IN SelectSeq(Until(own, LAMBDA x : x.activation_dt, r.currentTime),
               LAMBDA x : x.expire_dt > r.currentTime)

-----------------------------------------------------------------------------
(* Trunks, their groups, rules and priorities.                             *)

ByTrunk(x) == <<x.trunk_id>>
ByOrder(rows) == load(rows, LAMBDA x : <<ByTrunk(x), <<x.order>>>>)

\* A trunk of the region itself, or a shared one of a region of its hub.
Reachable(trunk, server_id, simblingRegions) ==
  \/ trunk.server_id = server_id
  \/ trunk.server_id \in simblingRegions /\ trunk.sw_shared
TrunkList(r) == load(Local(r, r.trunk), LAMBDA x : <<Id(x)>>)
getAllAutoRoutingTrunks(r, server_id, simblingRegions) ==
  SelectSeq(TrunkList(r), LAMBDA x : x.auto_routing /\ Reachable(x, server_id, simblingRegions))
findAnyOurTrunk(r, server_id) ==
  First(SelectSeq(TrunkList(r), LAMBDA x : x.our_trunk /\ x.server_id = server_id))
getAllRoadToRegion(r, server_id, road_to_region, simblingRegions) ==
  SelectSeq(TrunkList(r), LAMBDA x : /\ road_to_region \in x.road_to_regions
                                     /\ Reachable(x, server_id, simblingRegions))

trunkByName_find(r, trunk_name, simblingRegions) ==
  LET list == load(Local(r, r.trunk), LAMBDA x : <<x.trunk_name, <<x.server_id>>>>)
  IN First(SelectSeq(Where(list, LAMBDA x : x.trunk_name, trunk_name),
                     LAMBDA x : x.server_id \in simblingRegions))
\* Selects the trunks that have an alias, and compares their names.
trunkByAlias_find(r, trunk_name, simblingRegions) ==
  LET rows == {x \in Local(r, r.trunk) : x.trunk_name_alias # nullptr}
      list == load(rows, LAMBDA x : <<x.trunk_name, x.trunk_name_alias, <<x.server_id>>>>)
  IN First(SelectSeq(Where(list, LAMBDA x : x.trunk_name, trunk_name),
                     LAMBDA x : x.server_id \in simblingRegions))

getAllTrunkGroupTrunkIds(r, trunk_group_id) ==
  LET list == load(r.trunk_group_item, LAMBDA x : <<<<x.trunk_group_id>>, ByTrunk(x)>>)
      own  == Where(list, LAMBDA x : <<x.trunk_group_id>>, <<trunk_group_id>>)
  IN [i \in 1..Len(own) |-> own[i].trunk_id]
getTrunkNumberPreprocessing(r, trunk_id, order) ==
  First(Where(Where(ByOrder(r.trunk_number_preprocessing), ByTrunk, <<trunk_id>>),
              LAMBDA x : <<x.order>>, <<order>>))
getTrunkPriority(r, trunk_id) == Where(ByOrder(r.trunk_priority), ByTrunk, <<trunk_id>>)
Bit(b) == IF b THEN 1 ELSE 0
getAllTrunkRules(r, trunk_id, outgoing) ==
  LET list == load(r.trunk_rule, LAMBDA x : <<ByTrunk(x), <<Bit(x.outgoing)>>, <<x.order>>>>)
  IN Where(Where(list, ByTrunk, <<trunk_id>>), LAMBDA x : <<Bit(x.outgoing)>>, <<Bit(outgoing)>>)
getAllTrunkGroupRules(r, trunk_id) == Where(ByOrder(r.trunk_trunk_rule), ByTrunk, <<trunk_id>>)

getPrefixlistPrefix(r, prefixlist_id, number) ==
  LET list == load(r.prefixlist_prefix, LAMBDA x : <<<<x.prefixlist_id>>, x.prefix>>)
      own  == Where(list, LAMBDA x : <<x.prefixlist_id>>, <<prefixlist_id>>)
  IN LongestPrefix(number, LAMBDA prefix : First(Where(own, LAMBDA x : x.prefix, prefix)))
getAllRouteTableRoutes(r, route_table_id) ==
  LET list == load(r.route_table_route, LAMBDA x : <<<<x.route_table_id>>, <<x.order>>>>)
  IN Where(list, LAMBDA x : <<x.route_table_id>>, <<route_table_id>>)
getAllStatPrefixlistIdsByStatDestinationId(r, destination_id) ==
  LET list == load(r.stat_destination_prefixlists, LAMBDA x : <<<<x.destination_id>>>>)
      own  == Where(list, LAMBDA x : <<x.destination_id>>, <<destination_id>>)
  IN [i \in 1..Len(own) |-> own[i].prefixlist_id]

\* The query leaves, of the past rates of a currency, only the last; the list
\* runs from the latest date to the earliest.
currencyRate_find(r, currency_id) ==
  LET today == r.now \div Day
      Past(x) == {y \in r.currency_rate : y.currency = x.currency /\ y.date <= today}
      rows == {x \in r.currency_rate : x.date > today \/ \A y \in Past(x) : y.date <= x.date}
      list == Reverse(load(rows, LAMBDA x : <<<<x.date>>>>))
  IN First(SelectSeq(list, LAMBDA x : x.currency = currency_id /\ today >= x.date))

-----------------------------------------------------------------------------
(* The national numbering plan.                                            *)

atoll(number) == FoldLeft(LAMBDA v, d : 10 * v + d, 0, number)

\* The shortest range that holds the number; module NumberRange models the
\* tree that finds it.
getNNPNumberRange(r, number) ==
  LET len(x) == x.to - x.from
      num  == atoll(number)
      hold == {x \in r.nnp_number_range : x.is_active /\ x.from <= num /\ num <= x.to}
  IN IF num <= 0 \/ hold = {} THEN nullptr
     ELSE Last(load({x \in hold : \A y \in hold : len(x) <= len(y)}, LAMBDA x : <<Id(x)>>))
getNNPNumberRangeById(r, id) == IF id < 1 THEN nullptr ELSE ById(r.nnp_number_range, id)
getNNPPrefixsByNumberRange(r, id) ==
  {x.nnp_prefix_id : x \in {y \in r.nnp_number_range_prefix : id >= 1 /\ y.nnp_number_range_id = id}}
getNumberRangesByNNPPrefix(r, id) ==
  {x.nnp_number_range_id : x \in {y \in r.nnp_number_range_prefix : id >= 1 /\ y.nnp_prefix_id = id}}
\* The destinations some prefix is added to, less those some prefix is
\* excluded from.
getNNPDestinationsByPrefix(r, nnpPrefixIds) ==
  LET own == {x \in r.nnp_prefix_destination : x.nnp_prefix_id \in nnpPrefixIds}
      Of(rows) == {x.nnp_destination_id : x \in rows}
  IN Of({x \in own : x.is_addition}) \ Of({x \in own : ~x.is_addition})
getPrefixsByNNPDestination(r, destination_id, is_addition) ==
  {x.nnp_prefix_id : x \in {y \in r.nnp_prefix_destination :
                              y.nnp_destination_id = destination_id /\ y.is_addition = is_addition}}
getActiveNNPAccountTariffLight(r, client_id, connect_time, service_id) ==
  SelectSeq(load(r.nnp_account_tariff_light, LAMBDA x : <<Id(x)>>),
            LAMBDA x : /\ x.account_client_id = client_id
                       /\ service_id \in {x.service_number_id, x.service_trunk_id}
                       /\ x.activate_from <= connect_time /\ connect_time <= x.deactivate_from)
\* The minutes of a package scaled by the part of the month it is active.
getNNPPackageMinuteByTariff(r, tariff_id, coefficient) ==
  LET own == SelectSeq(load(r.nnp_package_minute, LAMBDA x : <<Id(x)>>),
                       LAMBDA x : x.nnp_tariff_id = tariff_id)
  IN [i \in 1..Len(own) |-> [own[i] EXCEPT !.minute = (@ * coefficient[1]) \div coefficient[2]]]
getNNPPackageMinute(r, id) == ById(r.nnp_package_minute, id)
findNNPPackagePriceIds(r, tariff_id, nnpDestinationIds) ==
  {x \in r.nnp_package_price : x.nnp_tariff_id = tariff_id /\ x.nnp_destination_id \in nnpDestinationIds}
findPackagePricelistIds(r, tariff_id) == {x \in r.nnp_package_pricelist : x.nnp_tariff_id = tariff_id}

\* Of the country prefixes of one to four digits the longest a number has.
getNNPCountryPrefix(r, number) ==
  LET prefixList == {<<p, c.code>> : p \in UNION {x.prefixes : x \in r.nnp_country}, c \in r.nnp_country}
      own  == {q \in prefixList : \E c \in r.nnp_country : c.code = q[2] /\ q[1] \in c.prefixes}
      Of(p) == {q \in own : q[1] = p}
      hits == {n \in 1..4 : n <= Len(number) /\ Of(SubSeq(number, 1, n)) # {}}
  IN IF hits = {} THEN nullptr
     ELSE CHOOSE q \in Of(SubSeq(number, 1, Max(hits))) : TRUE
globalCounter(r, account_tariff_light_id, package_minute_id) ==
  LET list == load(r.global_nnp_package_minute,
                   LAMBDA x : <<<<x.nnp_account_tariff_light_id>>, <<x.nnp_package_minute_id>>>>)
      own  == Where(list, LAMBDA x : <<x.nnp_account_tariff_light_id>>, <<account_tariff_light_id>>)
      hit  == First(Where(own, LAMBDA x : <<x.nnp_package_minute_id>>, <<package_minute_id>>))
  IN IF hit = nullptr THEN 0 ELSE hit.used_seconds
getRoutingReportData(r, number) ==
  LET list == load(r.routing_report_data, LAMBDA x : <<x.prefix>>)
  IN LongestPrefix(number, LAMBDA prefix : First(Where(list, LAMBDA x : x.prefix, prefix)))

=============================================================================
