------------------------------ MODULE MCRating ------------------------------
(***************************************************************************)
(* Rating for TLC.  Region 99 has its own trunk, the trunk of an operator  *)
(* and the trunk of a client; three clients have a number each.  Time is   *)
(* counted in steps of which a day has 10 and a month 300.                 *)
(***************************************************************************)
EXTENDS Rating

Far == 10000
OurTrunk == <<1>>  OperatorTrunk == <<2>>  ClientTrunk == <<3>>
LocalNumber == <<7, 4, 1>>  FarNumber == <<4, 9, 1>>
NumberV4 == <<7, 4, 2>>  NumberV5 == <<7, 4, 3>>  NumberOfTrunk == <<7, 4, 4>>

TrunkRow(id, name, our, byNumber) ==
  [id |-> id, server_id |-> 99, trunk_name |-> name, trunk_name_alias |-> nullptr, our_trunk |-> our,
   auth_by_number |-> byNumber, orig_redirect_number |-> FALSE, orig_redirect_number_7800 |-> FALSE,
   tech_trunk |-> FALSE, sw_minimalki |-> TRUE, sw_shared |-> FALSE, auto_routing |-> FALSE,
   road_to_regions |-> {}]
Client(id, version) ==
  [id |-> id, account_version |-> version, timezone_offset |-> 0, price_include_vat |-> TRUE,
   effective_vat_rate |-> 0]
NumberRow(id, did, client) ==
  [id |-> id, did |-> did, client_account_id |-> client, server_id |-> 99, tech_number |-> nullptr,
   lines_count |-> 1, activation_dt |-> 0, expire_dt |-> Far]
ServiceTrunkRow(id, client, trunk) ==
  [id |-> id, client_account_id |-> client, trunk_id |-> trunk, server_id |-> 99,
   orig_enabled |-> FALSE, term_enabled |-> FALSE, activation_dt |-> 0, expire_dt |-> Far]
PackageRow(id, number, tariff, periodical, from) ==
  [id |-> id, service_number_id |-> number, service_trunk_id |-> 0, tariff_package_id |-> tariff,
   periodical |-> periodical, activation_dt |-> from, expire_dt |-> Far]
PricelistRow(id) ==
  [id |-> id, local |-> FALSE, local_network_config_id |-> 0, price_include_vat |-> TRUE,
   tariffication_by_minutes |-> FALSE, tariffication_full_first_minute |-> TRUE,
   initiate_zona_cost |-> 1, initiate_mgmn_cost |-> 2, currency_id |-> 1]
PriceRow(pricelist, prefix, price) ==
  [pricelist_id |-> pricelist, prefix |-> prefix, price |-> price, date_from |-> 0, date_to |-> Far]
SettingsRow(id, type, trunk) ==
  [id |-> id, trunk_id |-> trunk, type |-> type, order |-> 1, src_number_id |-> 0, dst_number_id |-> 0,
   pricelist_id |-> 2, nnp_tariff_id |-> 0, minimum_minutes |-> 1, minimum_cost |-> 0]

\* The tables every world has; account 10 is the operator, 20 and 40 are of
\* version 4, 30 is of version 5.
Base ==
  [instance_id |-> 99, origRegion |-> 99, hub_id |-> 0, api_host |-> FALSE, currentTime |-> 0, now |-> 700,
   server |-> {[id |-> 99, hub_id |-> 0, service_numbers |-> {}]}, hub |-> {},
   instance_settings |-> {[id |-> 99, city_id |-> 1, region_ids |-> {1}, country_id |-> 7]},
   clients |-> {Client(10, 4), Client(20, 4), Client(30, 5), Client(40, 4)},
   trunk |-> {TrunkRow(1, OurTrunk, TRUE, TRUE), TrunkRow(2, OperatorTrunk, FALSE, FALSE),
              TrunkRow(3, ClientTrunk, FALSE, TRUE)},
   service_trunk |-> {ServiceTrunkRow(1, 10, 2), ServiceTrunkRow(2, 40, 3)},
   service_trunk_settings |-> {SettingsRow(1, SERVICE_TRUNK_SETTINGS_TERMINATION, 1),
                              SettingsRow(2, SERVICE_TRUNK_SETTINGS_ORIGINATION, 1)},
   service_number |-> {NumberRow(1, NumberV4, 20), NumberRow(2, NumberV5, 30), NumberRow(3, NumberOfTrunk, 40)},
   service_package |-> {}, tariff_package |-> {},
   pricelist |-> {PricelistRow(1), PricelistRow(2)},
   defs |-> {PriceRow(1, <<7>>, 2), PriceRow(1, <<4>>, 5), PriceRow(2, <<7>>, 1), PriceRow(2, <<4>>, 3)},
   tariff |-> {[id |-> 1, pricelist_id |-> 1, freemin |-> 1, freemin_for_number |-> TRUE,
                tariffication_by_minutes |-> TRUE, tariffication_full_first_minute |-> TRUE,
                tariffication_free_first_seconds |-> TRUE]},
   tariff_change_log |-> {[id |-> n, usage_id |-> n, activation_date |-> 0, tariff_id_local |-> 1,
                           tariff_id_local_mob |-> 1, tariff_id_russia |-> 1, tariff_id_russia_mob |-> 1,
                           tariff_id_intern |-> 1] : n \in 1..3},
   geo_prefix |-> {[prefix |-> <<7, 4>>, geo_id |-> 1, geo_operator_id |-> 1],
                   [prefix |-> <<4, 9>>, geo_id |-> 2, geo_operator_id |-> 2]},
   geo |-> {[id |-> 1, city_id |-> 1, region_id |-> 1, country_id |-> 7],
            [id |-> 2, city_id |-> 2, region_id |-> 2, country_id |-> 49]},
   mob_prefix |-> {}, stat_prefixlist |-> {[id |-> 1, type |-> "manual", prefixes |-> {<<4>>}]},
   stat_destination_prefixlists |-> {[destination_id |-> 1, prefixlist_id |-> 1]},
   trunk_number_preprocessing |-> {}, currency_rate |-> {}, network_prefix |-> {}, number |-> {},
   nnp_number_range |-> {}, nnp_number_range_prefix |-> {}, nnp_prefix_destination |-> {},
   nnp_country |-> {[code |-> 7, prefixes |-> {<<7>>}], [code |-> 49, prefixes |-> {<<4, 9>>}]},
   nnp_account_tariff_light |-> {}, nnp_package |-> {}, nnp_package_minute |-> {},
   nnp_package_price |-> {}, nnp_package_pricelist |-> {}, global_nnp_package_minute |-> {}]

CdrOf(src, dst, route, time, seconds) ==
  [connect_time |-> time, session_time |-> seconds, src_number |-> src, dst_number |-> dst,
   redirect_number |-> <<>>, dst_replace |-> <<>>, src_route |-> route, dst_route |-> OperatorTrunk,
   src_noa |-> 3, dst_noa |-> 3, in_sig_call_id |-> nullptr, out_sig_call_id |-> nullptr]

\* The number of version 4 has a minute of free calls a month and, for calls
\* abroad, a package of two minutes for all its life and one of a minute a
\* month; a call from it may also come out of the trunk of the other client.
PackageWorld ==
  [tables |-> [Base EXCEPT
     !.service_package = {PackageRow(5, 1, 1, FALSE, 600), PackageRow(6, 1, 2, TRUE, 600)},
     !.tariff_package = {[id |-> 1, prepaid_minutes |-> 2, pricelist_id |-> 0, destination_id |-> 1],
                         [id |-> 2, prepaid_minutes |-> 1, pricelist_id |-> 0, destination_id |-> 1]}],
   calls |-> {CdrOf(NumberV4, LocalNumber, OurTrunk, 620, 59), CdrOf(NumberV4, FarNumber, OurTrunk, 640, 100),
              CdrOf(NumberV4, FarNumber, ClientTrunk, 650, 70)},
   restarts |-> 1, recalcs |-> 2]

\* The number of version 5 has two packages of minutes of one tariff, for its
\* own city and for another country, and prices for the rest.
MinuteWorld ==
  [tables |-> [Base EXCEPT
     !.nnp_number_range = {[id |-> 1, from |-> 740, to |-> 749, is_active |-> TRUE, country_prefix |-> <<7>>,
                            country_code |-> 7, nnp_city_id |-> 1, nnp_region_id |-> 1],
                           [id |-> 2, from |-> 490, to |-> 499, is_active |-> TRUE, country_prefix |-> <<4, 9>>,
                            country_code |-> 0, nnp_city_id |-> 2, nnp_region_id |-> 2]},
     !.nnp_number_range_prefix = {[nnp_number_range_id |-> n, nnp_prefix_id |-> n] : n \in 1..2},
     !.nnp_prefix_destination = {[nnp_prefix_id |-> n, nnp_destination_id |-> n, is_addition |-> TRUE] : n \in 1..2},
     !.nnp_account_tariff_light = {[id |-> 1, account_client_id |-> 30, service_number_id |-> 2,
                                    service_trunk_id |-> 0, nnp_tariff_id |-> 1, activate_from |-> 600,
                                    deactivate_from |-> Far, coefficient |-> <<1, 1>>, price |-> 10]},
     !.nnp_package = {[id |-> 1, currency_id |-> 1, interval_seconds |-> 60, free_seconds |-> 0,
                       min_paid_seconds |-> 0, round_down |-> TRUE, is_include_vat |-> TRUE]},
     !.nnp_package_minute = {[id |-> 1, nnp_tariff_id |-> 1, nnp_destination_id |-> 1, minute |-> 1],
                             [id |-> 2, nnp_tariff_id |-> 1, nnp_destination_id |-> 2, minute |-> 2]},
     !.nnp_package_price = {[id |-> 1, nnp_tariff_id |-> 1, nnp_destination_id |-> 2, price |-> 4,
                             interconnect_price |-> 1]},
     !.nnp_package_pricelist = {[id |-> 1, nnp_tariff_id |-> 1, pricelist_id |-> 1]}],
   calls |-> {CdrOf(NumberV5, LocalNumber, OurTrunk, 620, 85), CdrOf(NumberV5, FarNumber, OurTrunk, 640, 100),
              CdrOf(NumberOfTrunk, FarNumber, ClientTrunk, 650, 20)},
   restarts |-> 1, recalcs |-> 1]

MCWorlds == <<PackageWorld, MinuteWorld>>
ASSUME ListsAreOrdered
=============================================================================
