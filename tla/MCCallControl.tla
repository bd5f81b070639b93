--------------------------- MODULE MCCallControl ---------------------------
(***************************************************************************)
(* CallControl for TLC: a client with a number, our trunk and the trunk of *)
(* an operator that takes calls by automatic routing.  A step of time is   *)
(* half a minute.                                                          *)
(***************************************************************************)
EXTENDS CallControl

Far == 100000
OurTrunk == <<1>>
OperatorTrunk == <<2>>
FarNumber == <<4, 9, 1>>
OwnNumber == <<7, 4, 2>>

TrunkRow(id, name, our) ==
  [id |-> id, server_id |-> 99, trunk_name |-> name, trunk_name_alias |-> nullptr, our_trunk |-> our,
   auth_by_number |-> our, orig_redirect_number |-> FALSE, orig_redirect_number_7800 |-> FALSE,
   tech_trunk |-> FALSE, sw_minimalki |-> TRUE, sw_shared |-> FALSE, auto_routing |-> ~our,
   road_to_regions |-> {}, route_table_id |-> 1, pstn_trunk |-> FALSE,
   source_trunk_rule_default_allowed |-> TRUE, source_rule_default_allowed |-> TRUE,
   destination_rule_default_allowed |-> TRUE, term_redirect_number |-> TRUE, default_priority |-> 1]
Client(id, balance) ==
  [id |-> id, account_version |-> 4, timezone_offset |-> 0, price_include_vat |-> TRUE,
   effective_vat_rate |-> 0, balance |-> balance, credit |-> 0, limit_d |-> 5000, limit_d_mn |-> 5000,
   is_trunk_client |-> FALSE, is_blocked |-> FALSE, disabled |-> FALSE, anti_fraud_disabled |-> TRUE]
PricelistRow(id) ==
  [id |-> id, local |-> FALSE, local_network_config_id |-> 0, price_include_vat |-> TRUE,
   tariffication_by_minutes |-> FALSE, tariffication_full_first_minute |-> TRUE,
   initiate_zona_cost |-> 1, initiate_mgmn_cost |-> 2, currency_id |-> 1]
PriceRow(pricelist, prefix, price) ==
  [pricelist_id |-> pricelist, prefix |-> prefix, price |-> price, date_from |-> 0, date_to |-> Far]

Tables(balance) ==
  [instance_id |-> 99, origRegion |-> 99, hub_id |-> 0, api_host |-> FALSE, currentTime |-> 0, now |-> 0,
   ready |-> TRUE,
   server |-> {[id |-> 99, hub_id |-> 0, service_numbers |-> {}, emergency_prefixlist_id |-> 0,
                blocked_outcome_id |-> 0, low_balance_outcome_id |-> 2, min_price_for_autorouting |-> 0,
                calling_station_id_for_line_without_number |-> <<>>, nas_ip_address |-> 1]}, hub |-> {},
   instance_settings |-> {[id |-> 99, city_id |-> 1, region_ids |-> {1}, country_id |-> 7,
                           auto_lock_finance |-> TRUE]},
   clients |-> {Client(10, 5000), Client(20, balance)},
   trunk |-> {TrunkRow(1, OurTrunk, TRUE), TrunkRow(2, OperatorTrunk, FALSE)},
   service_trunk |-> {[id |-> 1, client_account_id |-> 10, trunk_id |-> 2, server_id |-> 99,
                       orig_enabled |-> FALSE, term_enabled |-> TRUE, activation_dt |-> 0, expire_dt |-> Far]},
   service_trunk_settings |-> {[id |-> 1, trunk_id |-> 1, type |-> SERVICE_TRUNK_SETTINGS_TERMINATION,
                                order |-> 1, src_number_id |-> 0, dst_number_id |-> 0, pricelist_id |-> 2,
                                nnp_tariff_id |-> 0, minimum_minutes |-> 0, minimum_cost |-> 0,
                                minimum_margin_type |-> "value", minimum_margin |-> 1]},
   service_number |-> {[id |-> 1, did |-> OwnNumber, client_account_id |-> 20, server_id |-> 99,
                        tech_number |-> nullptr, lines_count |-> 1, activation_dt |-> 0, expire_dt |-> Far]},
   service_package |-> {}, tariff_package |-> {},
   pricelist |-> {PricelistRow(1), PricelistRow(2)},
   defs |-> {PriceRow(1, <<7>>, 2), PriceRow(1, <<4>>, 5), PriceRow(2, <<7>>, 1), PriceRow(2, <<4>>, 3)},
   tariff |-> {[id |-> 1, pricelist_id |-> 1, freemin |-> 0, freemin_for_number |-> TRUE,
                tariffication_by_minutes |-> TRUE, tariffication_full_first_minute |-> TRUE,
                tariffication_free_first_seconds |-> TRUE]},
   tariff_change_log |-> {[id |-> 1, usage_id |-> 1, activation_date |-> 0, tariff_id_local |-> 1,
                           tariff_id_local_mob |-> 1, tariff_id_russia |-> 1, tariff_id_russia_mob |-> 1,
                           tariff_id_intern |-> 1]},
   geo_prefix |-> {[prefix |-> <<7, 4>>, geo_id |-> 1, geo_operator_id |-> 1],
                   [prefix |-> <<4, 9>>, geo_id |-> 2, geo_operator_id |-> 2]},
   geo |-> {[id |-> 1, city_id |-> 1, region_id |-> 1, country_id |-> 7],
            [id |-> 2, city_id |-> 2, region_id |-> 2, country_id |-> 49]},
   mob_prefix |-> {}, stat_prefixlist |-> {}, stat_destination_prefixlists |-> {},
   trunk_number_preprocessing |-> {}, currency_rate |-> {}, network_prefix |-> {}, number |-> {},
   nnp_number_range |-> {}, nnp_number_range_prefix |-> {}, nnp_prefix_destination |-> {},
   nnp_country |-> {[code |-> 7, prefixes |-> {<<7>>}], [code |-> 49, prefixes |-> {<<4, 9>>}]},
   nnp_account_tariff_light |-> {}, nnp_package |-> {}, nnp_package_minute |-> {},
   nnp_package_price |-> {}, nnp_package_pricelist |-> {}, global_nnp_package_minute |-> {},
   route_table |-> {[id |-> 1, server_id |-> 99]},
   route_table_route |-> {[route_table_id |-> 1, order |-> 1, a_number_id |-> 0, b_number_id |-> 0,
                           outcome_id |-> 1, outcome_route_table_id |-> 0]},
   outcome |-> {[id |-> 1, server_id |-> 99, type |-> "auto"],
                [id |-> 2, server_id |-> 99, type |-> "release_reason", release_reason_id |-> 1]},
   release_reason |-> {[id |-> 1, server_id |-> 99, name |-> "LOW_BALANCE"]},
   route_case |-> {}, airp |-> {}, prefixlist |-> {}, prefixlist_prefix |-> {}, trunk_group |-> {},
   trunk_group_item |-> {}, trunk_rule |-> {}, trunk_trunk_rule |-> {}, trunk_priority |-> {}]

Ask(src, dst) ==
  [region |-> 0, trunkName |-> OurTrunk, srcNumber |-> src, dstNumber |-> dst, redirectNumber |-> <<>>,
   intercept |-> FALSE, nasIpAddress |-> 1, srcNoa |-> 3, dstNoa |-> 3]

\* The price of a minute abroad is 300.  A client that pays for less than one
\* minute is under limit control over three steps of time; one that pays for
\* more keeps the table of current calls busy, through a restart.
World(balance, skip_threads, end, count, starts, losses) ==
  [tables |-> Tables(balance), requests |-> {Ask(OwnNumber, FarNumber)}, default_route |-> OperatorTrunk,
   skip_threads |-> skip_threads, now |-> end, calls |-> count, restarts |-> starts, lost |-> losses]
MoneyWorld == World(250, {"checkstarttable"}, 3, 2, 0, 1)
TableWorld == World(700, {"limitcontrol"}, 0, 2, 1, 1)
\* One call that its client can pay for, but not twice.
PaidWorld  == World(450, {"checkstarttable"}, 2, 1, 0, 0)
MCWorlds == <<MoneyWorld, TableWorld, PaidWorld>>
ASSUME RefusalsRefuse
=============================================================================
