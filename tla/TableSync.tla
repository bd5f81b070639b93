----------------------------- MODULE TableSync -----------------------------
(***************************************************************************)
(* The wiring of the dictionaries: which event makes thread "sync" pull    *)
(* which table, which event the regional trigger then raises, and which    *)
(* lists thread "loader" reads again for it, in which order.  EventPull    *)
(* shows that no event is forgotten on this way; here every table and      *)
(* every list of the program is present, and the question is whether the   *)
(* events are the right ones.                                              *)
(***************************************************************************)
EXTENDS Naturals, Sequences

CONSTANTS
  Events,           \* the events that start a behaviour: those of Pulls, or some
  MaxTableChanges,  \* bound: changes of central tables
  MaxTableFaults    \* bound: loads that fail halfway

VARIABLES
  tableEvents,  \* the central event.queue: names of events
  behind,       \* the tables whose last change the region has not pulled
  tableQueue,   \* the regional event.queue: names of events
  stale,        \* <<list, table>>: the list misses the table's last change
  tableChanges, tableFaults

tableVars == <<tableEvents, behind, tableQueue, stale, tableChanges, tableFaults>>

-----------------------------------------------------------------------------
(* The pulls: their event, the regional table they write, and its key.     *)

Pull(event, schema, relname, key) ==
  [event |-> event, table |-> <<schema, relname>>, key |-> key]

PullClient                     == Pull("client", "billing", "clients", "id")
PullOrganization               == Pull("organization", "billing", "organization", "id")
PullGeo                        == Pull("geo", "geo", "geo", "id")
PullMobPrefix                  == Pull("mob_prefix", "geo", "mob_prefix", "none")
PullGeoPrefix                  == Pull("geo_prefix", "geo", "prefix", "none")
PullInstance                   == Pull("instance_settings", "billing", "instance_settings", "id")
PullNetworkPrefix              == Pull("network_prefix", "billing", "network_prefix", "network_config_id")
PullOperator                   == Pull("operator", "billing", "operator", "none")
PullPricelist                  == Pull("pricelist", "billing", "pricelist", "id")
PullTariff                     == Pull("tariff", "billing", "tariff", "id")
PullTariffPackage              == Pull("tariff_package", "billing", "tariff_package", "id")
PullDefs                       == Pull("defs", "billing", "defs", "pricelist_id")
PullServiceNumber              == Pull("service_number", "billing", "service_number", "id")
PullServicePackage             == Pull("service_package", "billing", "service_package", "id")
PullServiceTrunk               == Pull("service_trunk", "billing", "service_trunk", "id")
PullServiceTrunkSettings       == Pull("service_trunk_settings", "billing", "service_trunk_settings", "id")
PullLogTariff                  == Pull("tariff_change_log", "billing", "tariff_change_log", "id")
PullStatPrefixlist             == Pull("stat_prefixlist", "billing", "stat_prefixlist", "id")
PullStatDestinationPrefixlists == Pull("stat_destination_prefixlists", "billing", "stat_destination_prefixlists", "id")
PullCurrencyRate               == Pull("currency_rate", "billing", "currency_rate", "none")
PullServer                     == Pull("server", "public", "server", "id")
PullHub                        == Pull("hub", "auth", "hub", "id")
PullAirp                       == Pull("airp", "auth", "airp", "id")
PullNumber                     == Pull("number", "auth", "number", "id")
PullOutcome                    == Pull("outcome", "auth", "outcome", "id")
PullPrefixlist                 == Pull("prefixlist", "auth", "prefixlist", "id")
PullPrefixlistPrefix           == Pull("prefixlist_prefix", "auth", "prefixlist_prefix", "none")
PullReleaseReason              == Pull("release_reason", "auth", "release_reason", "id")
PullRouteCase                  == Pull("route_case", "auth", "route_case", "id")
PullRouteTable                 == Pull("route_table", "auth", "route_table", "id")
PullRouteTableRoute            == Pull("route_table_route", "auth", "route_table_route", "none")
PullRoutingReportData          == Pull("routing_report_data", "auth", "routing_report_data", "none")
PullTrunk                      == Pull("trunk", "auth", "trunk", "id")
PullTrunkGroup                 == Pull("trunk_group", "auth", "trunk_group", "id")
PullTrunkGroupItem             == Pull("trunk_group_item", "auth", "trunk_group_item", "none")
PullTrunkNumberPreprocessing   == Pull("trunk_number_preprocessing", "auth", "trunk_number_preprocessing", "id")
PullTrunkPriority              == Pull("trunk_priority", "auth", "trunk_priority", "id")
PullTrunkRule                  == Pull("trunk_rule", "auth", "trunk_rule", "none")
PullTrunkTrunkRule             == Pull("trunk_trunk_rule", "auth", "trunk_trunk_rule", "none")
NNPAccountTariffLightPull      == Pull("nnp_account_tariff_light", "nnp", "account_tariff_light", "id")
NNPNumberRangePrefixPull       == Pull("nnp_number_range_prefix", "nnp", "number_range_prefix", "prefix_id")
NNPOperatorPull                == Pull("nnp_operator", "nnp", "operator", "id")
NNPPackagePricelistPull        == Pull("nnp_package_pricelist", "nnp", "package_pricelist", "id")
NNPPackagePull                 == Pull("nnp_package", "nnp", "package", "tariff_id")
NNPPrefixPull                  == Pull("nnp_prefix", "nnp", "prefix", "id")
NNPDestinationPull             == Pull("nnp_destination", "nnp", "destination", "id")
NNPNumberRangePull             == Pull("nnp_number_range", "nnp", "number_range", "id")
NNPPackageMinutePull           == Pull("nnp_package_minute", "nnp", "package_minute", "id")
NNPPackagePricePull            == Pull("nnp_package_price", "nnp", "package_price", "id")
NNPPrefixDestinatioPull        == Pull("nnp_prefix_destination", "nnp", "prefix_destination", "prefix_id")
NNPRegionPull                  == Pull("nnp_region", "nnp", "region", "id")
NNPCountryCodePull             == Pull("nnp_country", "nnp", "country", "code")

\* The pulls the constructor of ThreadSync adds.
Pulls == {PullClient, PullOrganization, PullGeo, PullMobPrefix, PullGeoPrefix,
  PullInstance, PullNetworkPrefix, PullOperator, PullPricelist, PullTariff,
  PullTariffPackage, PullDefs, PullServiceNumber, PullServicePackage,
  PullServiceTrunk, PullServiceTrunkSettings, PullLogTariff,
  PullStatPrefixlist, PullStatDestinationPrefixlists, PullCurrencyRate,
  PullServer, PullHub, PullAirp, PullNumber, PullOutcome, PullPrefixlist,
  PullPrefixlistPrefix, PullReleaseReason, PullRouteCase, PullRouteTable,
  PullRouteTableRoute, PullRoutingReportData, PullTrunk, PullTrunkGroup,
  PullTrunkGroupItem, PullTrunkNumberPreprocessing, PullTrunkPriority,
  PullTrunkRule, PullTrunkTrunkRule, NNPAccountTariffLightPull,
  NNPNumberRangePrefixPull, NNPOperatorPull, NNPPackagePricelistPull,
  NNPPackagePull, NNPPrefixPull, NNPDestinationPull, NNPNumberRangePull,
  NNPPackageMinutePull, NNPPackagePricePull, NNPPrefixDestinatioPull,
  NNPRegionPull, NNPCountryCodePull}

PulledTables == {p.table : p \in Pulls}

-----------------------------------------------------------------------------
(* The lists of DataContainer and the tables their queries read.           *)

Of(table) == {table}
ClientTables == {<<"billing", "clients">>, <<"billing", "service_number">>, <<"billing", "service_trunk">>}

ListTables ==
  [server |-> Of(PullServer.table), hub |-> Of(PullHub.table),
   instanceSettings |-> Of(PullInstance.table), airp |-> Of(PullAirp.table),
   number |-> Of(PullNumber.table), outcome |-> Of(PullOutcome.table),
   prefixlist |-> Of(PullPrefixlist.table), prefixlistPrefix |-> Of(PullPrefixlistPrefix.table),
   releaseReason |-> Of(PullReleaseReason.table), routeCase |-> Of(PullRouteCase.table),
   routeTable |-> Of(PullRouteTable.table), routeTableRoute |-> Of(PullRouteTableRoute.table),
   trunk |-> Of(PullTrunk.table), trunkByName |-> Of(PullTrunk.table),
   trunkByAlias |-> Of(PullTrunk.table), trunkGroup |-> Of(PullTrunkGroup.table),
   trunkGroupItem |-> Of(PullTrunkGroupItem.table),
   trunkNumberPreprocessing |-> Of(PullTrunkNumberPreprocessing.table),
   trunkPriority |-> Of(PullTrunkPriority.table), trunkRule |-> Of(PullTrunkRule.table),
   trunkTrunkRule |-> Of(PullTrunkTrunkRule.table), client |-> ClientTables,
   organization |-> Of(PullOrganization.table), voipOperator |-> Of(PullOperator.table),
   pricelist |-> Of(PullPricelist.table), pricelistPrice |-> Of(PullDefs.table),
   networkPrefix |-> Of(PullNetworkPrefix.table), geo |-> Of(PullGeo.table),
   mobPrefix |-> Of(PullMobPrefix.table), geoPrefix |-> Of(PullGeoPrefix.table),
   serviceNumber |-> Of(PullServiceNumber.table),
   serviceNumberByTechNumber |-> Of(PullServiceNumber.table),
   serviceNumberPackage |-> Of(PullServicePackage.table),
   serviceTrunk |-> Of(PullServiceTrunk.table), serviceTrunkPackage |-> Of(PullServicePackage.table),
   serviceTrunkSettings |-> Of(PullServiceTrunkSettings.table), tariff |-> Of(PullTariff.table),
   tariffPackage |-> Of(PullTariffPackage.table), tariffChangeLog |-> Of(PullLogTariff.table),
   statDestinationPrefixlists |-> Of(PullStatDestinationPrefixlists.table),
   statPrefixlist |-> Of(PullStatPrefixlist.table), currencyRate |-> Of(PullCurrencyRate.table),
   activeCounter |-> {PullServiceNumber.table, PullServiceTrunk.table},
   nnpDestination |-> Of(NNPDestinationPull.table),
   nnpNumberRangePrefix |-> Of(NNPNumberRangePrefixPull.table),
   nnpPackage |-> Of(NNPPackagePull.table), nnpPackagePrice |-> Of(NNPPackagePricePull.table),
   nnpPrefix |-> Of(NNPPrefixPull.table), nnpCountry |-> Of(NNPCountryCodePull.table),
   nnpRegion |-> Of(NNPRegionPull.table), nnpNumberRange |-> Of(NNPNumberRangePull.table),
   nnpOperator |-> Of(NNPOperatorPull.table), nnpPackageMinute |-> Of(NNPPackageMinutePull.table),
   nnpPackagePricelist |-> Of(NNPPackagePricelistPull.table),
   nnpPrefixDestination |-> Of(NNPPrefixDestinatioPull.table),
   nnpAccountTariffLight |-> Of(NNPAccountTariffLightPull.table)]

Lists == DOMAIN ListTables

\* activeCounter is built from two lists in memory, not from tables.
Source(table) == IF table = PullServiceNumber.table THEN "serviceNumber" ELSE "serviceTrunk"

-----------------------------------------------------------------------------
(* The branches of ThreadLoader::run: the lists an event loads, in order.  *)

ServiceBranchesCounterFirst ==  \* mutant: the counter before its list
  [service_number |-> <<"client", "activeCounter", "serviceNumber", "serviceNumberByTechNumber">>,
   service_trunk |-> <<"client", "serviceTrunk", "activeCounter">>,
   service_trunk_settings |-> <<"serviceTrunkSettings">>,
   service_package |-> <<"serviceNumberPackage", "serviceTrunkPackage">>]

ServiceBranches ==
  [service_number |-> <<"client", "serviceNumber", "activeCounter", "serviceNumberByTechNumber">>,
   service_trunk |-> <<"client", "serviceTrunk", "activeCounter">>,
   service_trunk_settings |-> <<"serviceTrunkSettings">>,
   service_package |-> <<"serviceNumberPackage", "serviceTrunkPackage">>]

RoutingBranches ==
  [clients |-> <<"client">>, airp |-> <<"airp">>, number |-> <<"number">>, outcome |-> <<"outcome">>,
   prefixlist |-> <<"prefixlist">>, prefixlist_prefix |-> <<"prefixlistPrefix">>,
   release_reason |-> <<"releaseReason">>, route_case |-> <<"routeCase">>,
   route_table |-> <<"routeTable">>, route_table_route |-> <<"routeTableRoute">>,
   routing_report_data |-> <<>>, trunk |-> <<"trunk", "trunkByName", "trunkByAlias">>,
   trunk_group |-> <<"trunkGroup">>, trunk_group_item |-> <<"trunkGroupItem">>,
   trunk_number_preprocessing |-> <<"trunkNumberPreprocessing">>,
   trunk_priority |-> <<"trunkPriority">>, trunk_rule |-> <<"trunkRule">>,
   trunk_trunk_rule |-> <<"trunkTrunkRule">>, defs |-> <<"pricelistPrice">>]

DictionaryBranches ==
  [geo |-> <<"geo">>, prefix |-> <<"geoPrefix">>, mob_prefix |-> <<"mobPrefix">>,
   instance_settings |-> <<"instanceSettings">>, hub |-> <<"hub">>,
   network_prefix |-> <<"networkPrefix">>, organization |-> <<"organization">>,
   operator |-> <<"voipOperator">>, pricelist |-> <<"pricelist">>]

TariffBranches ==
  [tariff |-> <<"tariff">>, tariff_change_log |-> <<"tariffChangeLog">>,
   tariff_package |-> <<"tariffPackage">>,
   stat_destination_prefixlists |-> <<"statDestinationPrefixlists">>,
   stat_prefixlist |-> <<"statPrefixlist">>, server |-> <<"server">>, currency_rate |-> <<"currencyRate">>]

NNPBranches ==
  [nnp_account_tariff_light |-> <<"nnpAccountTariffLight">>, nnp_destination |-> <<"nnpDestination">>,
   nnp_number_range_prefix |-> <<"nnpNumberRangePrefix">>, nnp_number_range |-> <<"nnpNumberRange">>,
   nnp_operator |-> <<"nnpOperator">>, nnp_package_minute |-> <<"nnpPackageMinute">>,
   nnp_package_pricelist |-> <<"nnpPackagePricelist">>, nnp_package_price |-> <<"nnpPackagePrice">>,
   nnp_package |-> <<"nnpPackage">>, nnp_prefix_destination |-> <<"nnpPrefixDestination">>,
   nnp_prefix |-> <<"nnpPrefix">>, nnp_region |-> <<"nnpRegion">>, nnp_country |-> <<"nnpCountry">>]

\* An event of no branch is deleted like the others, and loads nothing.
Branch(event) ==
  IF event \in DOMAIN RoutingBranches THEN RoutingBranches[event]
  ELSE IF event \in DOMAIN DictionaryBranches THEN DictionaryBranches[event]
  ELSE IF event \in DOMAIN ServiceBranches THEN ServiceBranches[event]
  ELSE IF event \in DOMAIN TariffBranches THEN TariffBranches[event]
  ELSE IF event \in DOMAIN NNPBranches THEN NNPBranches[event]
  ELSE <<>>

-----------------------------------------------------------------------------

TableInit ==
  /\ tableEvents = {} /\ behind = {} /\ tableQueue = {} /\ stale = {}
  /\ tableChanges = 0 /\ tableFaults = 0

\* A table changes in the central database, and its trigger queues the event;
\* an event nobody pulls for may be queued as well.
TableChange(event) ==
  /\ tableChanges < MaxTableChanges
  /\ tableChanges' = tableChanges + 1
  /\ tableEvents' = tableEvents \cup {event}
  /\ LET changed == {p.table : p \in {q \in Pulls : q.event = event}}
     IN /\ behind' = behind \cup changed
        /\ stale' = stale \cup {s \in Lists \X changed : s[2] \in ListTables[s[1]]}
  /\ UNCHANGED <<tableQueue, tableFaults>>

\* What the regional trigger calls the event of a table: event.notify(TG_RELNAME).
tr_notify(table) == table[2]

\* ManagerPull::pull for one pull: the rows are copied, the trigger of the
\* regional table queues its event, the central event is deleted.
PullRows(p) ==
  /\ p.event \in tableEvents
  /\ tableEvents' = tableEvents \ {p.event}
  /\ behind' = behind \ {p.table}
  /\ tableQueue' = tableQueue \cup {tr_notify(p.table)}
  /\ UNCHANGED <<stale, tableChanges, tableFaults>>

\* An event without a pull is deleted.
PullUnknown(event) ==
  /\ event \in tableEvents
  /\ \A p \in Pulls : p.event # event
  /\ tableEvents' = tableEvents \ {event}
  /\ UNCHANGED <<behind, tableQueue, stale, tableChanges, tableFaults>>

\* The i-th list read again has table t's last change: it reads the regional
\* table, or a list that had the change or was read again before it.
Loaded(lists, i, t) ==
  IF lists[i] = "activeCounter"
  THEN \/ <<Source(t), t>> \notin stale
       \/ t \notin behind /\ \E j \in 1..(i - 1) : lists[j] = Source(t)
  ELSE t \notin behind

LoadedAll(lists) == {s \in stale : \A i \in DOMAIN lists : s[1] = lists[i] => ~Loaded(lists, i, s[2])}

LoadLists(event) ==
  /\ event \in tableQueue
  /\ stale' = LoadedAll(Branch(event))
  /\ tableQueue' = tableQueue \ {event}
  /\ UNCHANGED <<tableEvents, behind, tableChanges, tableFaults>>

\* An exception after the first n lists: the event stays.
LoadListsFails(event, n) ==
  /\ event \in tableQueue
  /\ n < Len(Branch(event))
  /\ tableFaults < MaxTableFaults
  /\ tableFaults' = tableFaults + 1
  /\ stale' = LoadedAll(SubSeq(Branch(event), 1, n))
  /\ UNCHANGED <<tableEvents, behind, tableQueue, tableChanges>>

TableNext ==
  \/ \E e \in Events : TableChange(e) \/ PullUnknown(e)
  \/ \E p \in Pulls : PullRows(p)
  \/ \E e \in tableQueue : LoadLists(e) \/ \E n \in 0..3 : LoadListsFails(e, n)

TableSpec == TableInit /\ [][TableNext]_tableVars

-----------------------------------------------------------------------------

Quiet == tableEvents = {} /\ tableQueue = {}
IsNNP(table) == table[1] = "nnp"

\* Once no event waits, every list has the last change of every central table
\* it is made from, the ones derived through other lists and the client flags
\* taken from the services included.  (The branches of ThreadLoader::run against
\* the pulls.  The lists of the numbering plan are excepted: ThreadLoader::run
\* waits for events "nnp_..." that no trigger raises.)
QuietIsFresh == Quiet => \A s \in stale : IsNNP(s[2])

=============================================================================
