------------------------------- MODULE Rating -------------------------------
(***************************************************************************)
(* Calls rated one after another against the counters they use up: the     *)
(* tariffication and the counters of packages with the memory and the      *)
(* database they live in, a save that runs beside the billing, restarts,   *)
(* recalculations and the copy of the counters in the central database.    *)
(* A world is a set of tables, the calls that may come and the faults.     *)
(* How a record is rated is a parameter of the machine: Legs.              *)
(***************************************************************************)
EXTENDS Tariffication, Maps

CONSTANTS
  Rate(_, _, _),  \* the rating of a record: Legs
  Worlds,   \* worlds [tables, calls : the records that may arrive, restarts, recalcs : bounds]
  MaxCdrs   \* bound: records that arrive

ASSUME RatingAssumption ==
  \A w \in DOMAIN Worlds :
    /\ {"currentTime", "instance_id", "hub_id", "api_host", "server", "trunk", "service_trunk",
        "service_trunk_settings"} \subseteq DOMAIN Worlds[w].tables
    /\ \A cdr \in Worlds[w].calls : {"connect_time", "src_route", "dst_route"} \subseteq DOMAIN cdr

VARIABLES
  world,    \* the world of this behaviour
  cdrs,     \* calls_cdr.cdr
  m,        \* the billing container, with the last record billed
  prepared, \* the part save has prepared, or nullptr
  d,        \* the database of the region
  central,  \* the counters in the central database
  charges,  \* for every record, how it was charged when it was first billed
  failed,   \* whether a recalculation has ended with an error
  restarts, recalcs
vars == <<world, cdrs, m, prepared, d, central, charges, failed, restarts, recalcs>>

W == Worlds[world]
LastCdr(db) == MaxIn({c.cdr_id : c \in db.calls})
Loaded(db) == Put(loadAll(db), "lastCdr", LastCdr(db))

-----------------------------------------------------------------------------
(* Billing::calc for one record: both legs are rated, then both are added. *)

Start(r, mem, cdr, mega, call) ==
  [r |-> r, m |-> mem, cdr |-> cdr, mega |-> mega, call |-> call, info |-> CallInfo, stop |-> ""]
\* The terminating leg takes the numbers the originating one has found.
Legs(tables, mem, cdr) ==
  LET r    == prepareAt(tables, cdr.connect_time)
      mega == PhaseCalc(r, prepareFromCdr(r, r.origRegion, cdr.src_route, cdr.src_number, cdr.dst_number))
      orig == calc(Start(r, mem.counters, cdr, mega, Call(cdr, TRUE, mem.lastCallId + 1)))
      term == calc(Start(r, orig.m, cdr, mega,
                         [Call(cdr, FALSE, mem.lastCallId + 2) EXCEPT
                            !.src_number = orig.call.src_number, !.dst_number = orig.call.dst_number]))
  IN IF isBilled(r, mega) THEN <<orig, term>> ELSE <<>>
\* What the accounts are charged: everything but the ids of the counters.
Charge(call) == [call EXCEPT !.service_package_stats_id = 0, !.trunk_settings_stats_id = 0,
                             !.stats_nnp_package_minute_id = 0]
\* b is the memory and the history of charges.
Billed(b, cdr) ==
  LET legs  == Rate(W.tables, b.m, cdr)
      after == IF legs = <<>> THEN b.m
               ELSE addCall(addCall([b.m EXCEPT !.counters = legs[2].m], legs[1].call, legs[1].info),
                            legs[2].call, legs[2].info)
  IN [m |-> [after EXCEPT !.lastCdr = cdr.id],
      charges |-> IF cdr.id <= Len(b.charges) THEN b.charges
                  ELSE Append(b.charges, [i \in DOMAIN legs |-> Charge(legs[i].call)])]

-----------------------------------------------------------------------------

Init ==
  /\ world \in DOMAIN Worlds
  /\ cdrs = <<>>
  /\ d = [calls |-> {}, stats |-> NoStats]
  /\ m = Loaded(d)
  /\ prepared = nullptr
  /\ central = NoStats
  /\ charges = <<>>
  /\ failed = FALSE
  /\ restarts = 0 /\ recalcs = 0

\* The switch writes a record.
Arrive(call) ==
  /\ Len(cdrs) < MaxCdrs
  /\ cdrs' = Append(cdrs, Put(call, "id", Len(cdrs) + 1))
  /\ UNCHANGED <<world, m, prepared, d, central, charges, failed, restarts, recalcs>>

Bill ==
  /\ m.lastCdr < Len(cdrs)
  /\ LET b == Billed([m |-> m, charges |-> charges], cdrs[m.lastCdr + 1])
     IN m' = b.m /\ charges' = b.charges
  /\ UNCHANGED <<world, cdrs, prepared, d, central, failed, restarts, recalcs>>

\* save cuts the first part off and prepares its queries; the transaction and
\* the removal of the part follow, with billing between them.
FirstPart(b) == [calls |-> b.calls[1], stats |-> b.counters.parts[1]]
SavePrepare ==
  /\ prepared = nullptr
  /\ m.calls[1] # {} \/ Len(m.calls) > 1
  /\ prepared' = FirstPart(m)
  /\ m' = IF Len(m.calls) > 1 THEN m
          ELSE [m EXCEPT !.calls = Append(@, {}), !.counters.parts = Append(@, NoStats)]
  /\ UNCHANGED <<world, cdrs, d, central, charges, failed, restarts, recalcs>>
SaveCommit ==
  /\ prepared # nullptr
  /\ d' = Saved(d, prepared)
  /\ m' = [m EXCEPT !.calls = Tail(@), !.counters.parts = Tail(@)]
  /\ prepared' = nullptr
  /\ UNCHANGED <<world, cdrs, central, charges, failed, restarts, recalcs>>

\* ThreadSyncCounters: one manager after the other, each with a table of its own.
SyncCounters ==
  /\ central' = syncAll(d.stats, central)
  /\ central' # central
  /\ UNCHANGED <<world, cdrs, m, prepared, d, charges, failed, restarts, recalcs>>

Restart ==
  /\ restarts < W.restarts
  /\ restarts' = restarts + 1
  /\ m' = Loaded(d)
  /\ prepared' = nullptr
  /\ UNCHANGED <<world, cdrs, d, central, charges, failed, recalcs>>

\* TaskRecalc from a date: the first call at or after it and all that follow
\* are deleted, the counters counted again, every record without calls billed
\* and saved, the counters of the central database replaced.  Its interleaving
\* with the other threads is in module Recalculation.
Deleted(date_from) ==
  LET from == Min({c.id : c \in {x \in d.calls : x.connect_time >= date_from}})
  IN [d EXCEPT !.calls = {c \in @ : c.id < from}]
BilledAgain(db) ==
  LET billed[n \in 0..Len(cdrs)] ==
        IF n = 0 \/ n <= LastCdr(db) THEN [m |-> Loaded(db), charges |-> charges]
        ELSE Billed(billed[n - 1], cdrs[n])
  IN billed[Len(cdrs)]
Recalculate(date_from) ==
  LET kept  == Deleted(date_from)
      again == BilledAgain(recalcAll(kept))
      db    == Saved(recalcAll(kept), FirstPart(again.m))
      stays == [k \in Kinds |-> {c \in central[k] : c.max_call_id <= StoredLastId(kept)}]
  IN /\ recalcs < W.recalcs
     /\ prepared = nullptr
     /\ ~nnpRecalcFails(kept)
     /\ recalcs' = recalcs + 1
     /\ d' = db
     /\ m' = Loaded(db)
     /\ charges' = again.charges
     /\ central' = syncAll(db.stats, stays)
     /\ UNCHANGED <<world, cdrs, prepared, failed, restarts>>
\* The query of the last manager fails: the calls are deleted, the counters
\* before it counted again, and the memory is as it was.
RecalculateFails(date_from) ==
  LET kept == Deleted(date_from)
  IN /\ recalcs < W.recalcs
     /\ prepared = nullptr
     /\ nnpRecalcFails(kept)
     /\ recalcs' = recalcs + 1
     /\ d' = recalcAll(kept)
     /\ failed' = TRUE
     /\ UNCHANGED <<world, cdrs, m, prepared, central, charges, restarts>>

Next ==
  \/ \E call \in W.calls : Arrive(call)
  \/ Bill \/ SavePrepare \/ SaveCommit \/ SyncCounters \/ Restart
  \/ \E date \in {c.connect_time : c \in d.calls} : Recalculate(date) \/ RecalculateFails(date)

Spec == Init /\ [][Next]_vars

-----------------------------------------------------------------------------

Calls == d.calls \cup UNION Range(m.calls)

\* The calls a counter is named by.
CallsOf(kind, id) ==
  {c \in Calls : CASE kind = "freemin" -> c.service_package_id = 1 /\ c.service_package_stats_id = id
                   [] kind = "package" -> c.service_package_id > 1 /\ c.service_package_stats_id = id
                   [] kind = "trunk" -> c.trunk_settings_stats_id = id
                   [] kind = "nnp" -> c.stats_nnp_package_minute_id = id}

\* The counters can be relied on until a recalculation fails half way, or until
\* a second one: the first recount writes "max(id) as min_call_id", and the next
\* counts the calls from there on only.
CountersHold == ~failed /\ recalcs <= 1

\* Every counter in memory is the sum of the calls that name it, however the
\* calls got there: through addCall, through save and loadAll, or counted again
\* by the recalc queries; as long as no recalculation has failed half way and
\* none has been repeated.
CountersMatchCalls ==
  CountersHold =>
    \A kind \in Kinds : \A i \in DOMAIN m.counters.stats[kind] :
      LET c == m.counters.stats[kind][i]
      IN c.used = Sum(CallsOf(kind, c.id), LAMBDA x : IF kind = "trunk" THEN x.billed_time ELSE x.package_time)

\* No package gives more seconds than were paid for: neither a prepaid package
\* over its whole life (setupPackagePrepaid), nor a package of minutes
\* (setupNNPPackageMinute), nor the free minutes of a tariff over a month
\* (setupFreemin), taken over all calls and all counters it ever had, while the
\* counters can be relied on.
Taken(Of(_)) == Sum({c \in Calls : Of(c)}, LAMBDA x : x.package_time)
PackagesNotOverdrawn ==
  CountersHold =>
    /\ \A p \in W.tables.service_package : ~p.periodical =>
         Taken(LAMBDA c : c.service_package_id = p.id)
           <= getTariffPackage(W.tables, p.tariff_package_id).prepaid_minutes * 60
    /\ \A x \in W.tables.nnp_package_minute :
         Taken(LAMBDA c : c.nnp_package_minute_id = x.id) <= x.minute * 60
    /\ \A n \in W.tables.service_number, t \in W.tables.tariff, y \in Calls :
         Taken(LAMBDA c : /\ c.number_service_id = n.id /\ c.service_package_id = 1
                          /\ get_tmonth(c.connect_time, 0) = get_tmonth(y.connect_time, 0))
           <= t.freemin * n.lines_count * 60

\* A record that is billed again, after a restart that lost its calls or by a
\* recalculation, is charged exactly as it was the first time (Billing::calc
\* from the counters of loadAll, while they can be relied on).
ChargedTheSame ==
  CountersHold =>
    \A c \in Calls : \E i \in DOMAIN charges[c.cdr_id] : charges[c.cdr_id][i] = Charge(c)

\* What the searches must answer for charges to be right: the lists are in the
\* order their binary searches want, and ids of trunks are unique.  Under that,
\* a search by name gives a trunk of the list, and a search by key the rows of
\* that key.
SearchesFind(r, cdr) ==
  LET trunks == Local(r, r.trunk)
  IN /\ \A t \in trunks, u \in trunks : t.id = u.id => t = u
     /\ \A route \in {cdr.src_route, cdr.dst_route} : getTrunkByName(r, route, r.origRegion) \in trunks \cup {nullptr}
     /\ \A t \in trunks : getAllServiceTrunk(r, t.id) \in Seq({x \in r.service_trunk : x.trunk_id = t.id})
     /\ \A x \in r.service_trunk, type \in {SERVICE_TRUNK_SETTINGS_ORIGINATION, SERVICE_TRUNK_SETTINGS_TERMINATION} :
          getAllServiceTrunkSettings(r, x.id, type) \in Seq(r.service_trunk_settings)
ListsAreOrdered ==
  \A w \in DOMAIN Worlds : \A cdr \in Worlds[w].calls :
    SearchesFind(prepareAt(Worlds[w].tables, cdr.connect_time), cdr)

\* What is charged goes to the owner of the trunk the leg uses: a number of one
\* client in a trunk of another is not charged at all (setupServiceTrunkForNumber).
Owners(tables, trunk_id) == {t.client_account_id : t \in {x \in tables.service_trunk : x.trunk_id = trunk_id}}
OwnerPays(tables, c) ==
  c.cost # 0 \/ c.package_time # 0 =>
    getTrunk(tables, c.trunk_id).our_trunk \/ c.account_id \in Owners(tables, c.trunk_id)
ChargedToOwner == \A c \in Calls : OwnerPays(W.tables, c)

\* A counter that calls have been charged to is in the central database as it
\* is, or the next synchronisation copies it (sync of the managers; step 15 to
\* 18 of TaskRecalc delete rows there and must not lose one).
NothingLeftBehind ==
  ~failed => \A kind \in Kinds : \A c \in d.stats[kind] :
    c.max_call_id # 0 => c \in syncAll(d.stats, central)[kind]

=============================================================================
