--------------------------- MODULE PackageCounters ---------------------------
(***************************************************************************)
(* The counters of free minutes, prepaid packages, trunk settings and      *)
(* packages of minutes, as the four managers keep them.  The managers are  *)
(* a record m:                                                             *)
(*   m.stats[kind]   the counters of a manager, as getCurrent runs over    *)
(*                   them: the one pushed last is first;                   *)
(*   m.lastId[kind]  the last id given to a counter;                       *)
(*   m.parts         the partitions that wait for save: the copies of      *)
(*                   counters made while they were the last one.           *)
(* The billing container b has them in b.counters, beside b.calls, the     *)
(* partitions of calls, and b.lastCallId, the last id given to a call.     *)
(* The database d of the region has d.calls and d.stats[kind].  A counter  *)
(* and its copies share an id.                                             *)
(***************************************************************************)
EXTENDS Lists

CONSTANTS
  Month,     \* the length of a month in the model's time unit
  KeepTime   \* 86400 * 60: how far back load looks for counters

Kinds == {"freemin", "package", "trunk", "nnp"}

get_tmonth(time, offset)     == ((time + offset) \div Month) * Month - offset
get_tmonth_end(time, offset) == get_tmonth(time, offset) + Month - 1

Covers(c, key, time) == c.key = key /\ c.from <= time /\ time <= c.to
Find(m, kind, key, time) ==
  First(SelectSeq(m.stats[kind], LAMBDA c : Covers(c, key, time)))

\* A copy of the counter goes into the last partition, over an earlier one.
Copied(m, kind, c) ==
  LET n == Len(m.parts)
  IN [m EXCEPT !.parts[n][kind] = {x \in @ : x.id # c.id} \cup {c}]

\* The counter found, or a new one that is put in front of the others.
Opened(m, kind, key, time, new) ==
  LET c == [id |-> m.lastId[kind] + 1, key |-> key, used |-> 0, credit |-> 0,
            min_call_id |-> 0, max_call_id |-> 0] @@ new
  IN IF Find(m, kind, key, time) # nullptr THEN m
     ELSE Copied([m EXCEPT !.lastId[kind] = @ + 1, !.stats[kind] = <<c>> \o @], kind, c)

-----------------------------------------------------------------------------
(* getCurrent of the four managers: the memory after it; Find gives the    *)
(* counter itself.                                                         *)

\* Free minutes are counted by month, in the time zone of the account: the month
\* is the key, a counter is the one of a call when it covers its time.
createStatsFreemin(call, account) ==
  [from |-> get_tmonth(call.connect_time, account.timezone_offset),
   to   |-> get_tmonth_end(call.connect_time, account.timezone_offset), paid |-> 0]
freeminGetCurrent(m, call, account) ==
  Opened(m, "freemin", call.number_service_id, call.connect_time, createStatsFreemin(call, account))

\* round(a / b) for a >= 0
Round(a, b) == (2 * a + b) \div (2 * b)
\* A periodical package gives its minutes every month, for a part of the month
\* in proportion.
createStatsPackage(time, account, package, tariff) ==
  LET begin == get_tmonth(time, account.timezone_offset)
      end   == get_tmonth_end(time, account.timezone_offset)
      from  == IF begin < package.activation_dt THEN package.activation_dt ELSE begin
      to    == IF end > package.expire_dt THEN package.expire_dt ELSE end
      prepaid == tariff.prepaid_minutes * 60
  IN IF package.periodical
     THEN [from |-> from, to |-> to, paid |-> Round((to + 1 - from) * prepaid, end + 1 - begin)]
     ELSE [from |-> package.activation_dt, to |-> package.expire_dt, paid |-> prepaid]
packageGetCurrent(m, call, account, package, tariff) ==
  Opened(m, "package", package.id, call.connect_time,
         createStatsPackage(call.connect_time, account, package, tariff))

createStatsTrunkSettings(time, account) ==
  [from |-> get_tmonth(time, account.timezone_offset),
   to   |-> get_tmonth_end(time, account.timezone_offset), paid |-> 0]
trunkGetCurrent(m, time, account, settings) ==
  Opened(m, "trunk", settings.id, time, createStatsTrunkSettings(time, account))

\* A counter of minutes is found by the tariff of the account alone: the package
\* of minutes it was opened for does not matter.  It lives as long as the tariff;
\* its paid seconds are never set.
createStatsNNPPackageMinute(light) ==
  [from |-> light.activate_from, to |-> light.deactivate_from, paid |-> 0]
nnpGetCurrent(m, time, light) == Opened(m, "nnp", light.id, time, createStatsNNPPackageMinute(light))
nnpGetUsedSeconds(m, light_id, time) ==
  LET c == Find(m, "nnp", light_id, time) IN IF c = nullptr THEN 0 ELSE c.used

-----------------------------------------------------------------------------
(* addCall: the counters a call has been rated by grow.                    *)

\* update...: nothing for an id that is not in memory.
Grown(m, kind, id, seconds, credit, call_id) ==
  LET Grow(c) == IF c.id # id THEN c
                 ELSE [c EXCEPT !.used = @ + seconds, !.credit = @ + credit, !.max_call_id = call_id,
                                !.min_call_id = IF @ = 0 THEN call_id ELSE @]
      list == [i \in 1..Len(m.stats[kind]) |-> Grow(m.stats[kind][i])]
      hit  == First(SelectSeq(list, LAMBDA c : c.id = id))
  IN IF hit = nullptr THEN m ELSE Copied([m EXCEPT !.stats[kind] = list], kind, hit)

updateStatsFreemin(m, call) ==
  Grown(m, "freemin", call.service_package_stats_id, call.package_time, call.package_credit, call.id)
updateStatsPackage(m, call) ==
  Grown(m, "package", call.service_package_stats_id, call.package_time, call.package_credit, call.id)
updateStatsTrunkSettings(m, call) ==
  Grown(m, "trunk", call.trunk_settings_stats_id, call.billed_time, call.cost, call.id)
updateStatsNNPPackageMinute(m, call) ==
  Grown(m, "nnp", call.stats_nnp_package_minute_id, call.package_time, call.cost, call.id)

freeminAdd(m, call, info) ==
  IF call.number_service_id = 0 \/ call.service_package_id # 1 \/ call.service_package_stats_id = 0
  THEN m ELSE updateStatsFreemin(m, call)
\* Mutant: counts the packages that set the price, not the prepaid ones.
packageAddPricelist(m, call, info) ==
  IF \/ call.number_service_id = 0 \/ call.service_package_id <= 1
     \/ call.service_package_stats_id = 0 \/ info.servicePackagePricelist = nullptr
  THEN m ELSE updateStatsPackage(m, call)
packageAdd(m, call, info) ==
  IF \/ call.number_service_id = 0 \/ call.service_package_id <= 1
     \/ call.service_package_stats_id = 0 \/ info.servicePackagePrepaid = nullptr
  THEN m ELSE updateStatsPackage(m, call)
trunkAdd(m, call, info) ==
  IF call.trunk_settings_stats_id = 0 THEN m ELSE updateStatsTrunkSettings(m, call)
nnpAdd(m, call, info) ==
  IF call.stats_nnp_package_minute_id = 0 THEN m ELSE updateStatsNNPPackageMinute(m, call)

\* The statistics of the account are in module AccountStats, the limits of
\* partitions in BillingPipeline.
addCall(b, call, info) ==
  LET m == nnpAdd(trunkAdd(packageAdd(freeminAdd(b.counters, call, info), call, info), call, info), call, info)
  IN [b EXCEPT !.counters = m, !.calls[Len(b.calls)] = @ \cup {call}, !.lastCallId = call.id]

-----------------------------------------------------------------------------
(* The database.                                                           *)

NoStats == [k \in Kinds |-> {}]
MaxIn(S) == IF S = {} THEN 0 ELSE Max(S)
MinIn(S) == IF S = {} THEN 0 ELSE Min(S)
StoredLastId(d) == MaxIn({c.id : c \in d.calls})
StoredLastTime(d) == MaxIn({c.connect_time : c \in d.calls})

\* load of the four managers: the counters that begin in the last KeepTime before
\* the last call, pushed to the front one by one in the order of their query.
\* Mutant: looks back no further than the last call.
filterFromLatest(time) == time
filterFrom(time) == IF time > 0 THEN time - KeepTime ELSE time
Recent(rows, time) == {c \in rows : c.from >= filterFrom(time)}
freeminLoad(rows, time) == Reverse(load(Recent(rows, time), LAMBDA c : <<<<c.from>>, <<c.id>>>>))
packageLoad(rows, time) == Reverse(load(Recent(rows, time), LAMBDA c : <<<<c.key>>, <<c.from>>, <<c.id>>>>))
trunkLoad(rows, time)   == Reverse(load(Recent(rows, time), LAMBDA c : <<<<c.key>>, <<c.from>>, <<c.id>>>>))
nnpLoad(rows, time)     == Reverse(load(Recent(rows, time), LAMBDA c : <<<<c.id>>>>))

loadAll(d) ==
  LET time == StoredLastTime(d)
      stats == [freemin |-> freeminLoad(d.stats.freemin, time), package |-> packageLoad(d.stats.package, time),
                trunk |-> trunkLoad(d.stats.trunk, time), nnp |-> nnpLoad(d.stats.nnp, time)]
  IN [counters |-> [stats |-> stats, lastId |-> [k \in Kinds |-> MaxIn(Ids(d.stats[k]))], parts |-> <<NoStats>>],
      calls |-> <<{}>>, lastCallId |-> StoredLastId(d)]

\* The transaction of save: the first partition, its calls and its copies; the
\* rule of a table turns the insertion of an id it has into an update.
\* Mutant: the rule drops the new row.
MergedKeepsOld(rows, copies) == rows \cup {x \in copies : x.id \notin Ids(rows)}
Merged(rows, copies) == {x \in rows : x.id \notin Ids(copies)} \cup copies
Saved(d, part) ==
  [calls |-> d.calls \cup part.calls,
   stats |-> [k \in Kinds |-> Merged(d.stats[k], part.stats[k])]]

-----------------------------------------------------------------------------
(* loadAll of a recalculation: the counters are counted again from the     *)
(* calls that have not been deleted.                                       *)

Sum(S, Of(_)) == FoldSet(LAMBDA x, n : n + Of(x), 0, S)

\* The counters opened after the stored calls are deleted; minCallId is the
\* first call of those that have a call at or after the last stored one.
Kept(rows, stored) == {c \in rows : c.min_call_id <= stored}
Touched(rows, stored) == {c \in Kept(rows, stored) : c.max_call_id >= stored}
minCallId(rows, stored) == MinIn({c.min_call_id : c \in Touched(rows, stored)})

\* "max(id) as min_call_id": the first call becomes the last one.
Recounted(c, calls, Seconds(_), Credit(_)) ==
  [c EXCEPT !.used = Sum(calls, Seconds), !.credit = Sum(calls, Credit), !.min_call_id = MaxIn(Ids(calls)),
            !.max_call_id = MaxIn(Ids(calls))]
\* Counters left without a call are deleted, those never used as well.
Recalculated(rows, calls, stored, Mine(_, _), Seconds(_), Credit(_)) ==
  LET from  == minCallId(rows, stored)
      Of(c) == {x \in calls : x.id >= from /\ Mine(x, c)}
  IN IF from = 0 THEN Kept(rows, stored)
     ELSE {c \in Kept(rows, stored) : c.max_call_id < stored /\ c.min_call_id # 0}
          \cup {Recounted(c, Of(c), Seconds, Credit) : c \in {x \in Touched(rows, stored) : Of(x) # {}}}

freeminRecalc(d) ==
  Recalculated(d.stats["freemin"], d.calls, StoredLastId(d),
    LAMBDA x, c : x.service_package_id = 1 /\ x.service_package_stats_id = c.id,
    LAMBDA x : x.package_time, LAMBDA x : x.package_credit)
packageRecalc(d) ==
  Recalculated(d.stats["package"], d.calls, StoredLastId(d),
    LAMBDA x, c : x.service_package_id > 1 /\ x.service_package_stats_id = c.id,
    LAMBDA x : x.package_time, LAMBDA x : x.package_credit)
trunkRecalc(d) ==
  Recalculated(d.stats["trunk"], d.calls, StoredLastId(d),
    LAMBDA x, c : x.trunk_settings_stats_id = c.id, LAMBDA x : x.billed_time, LAMBDA x : x.cost)
\* The counters of minutes are asked for by a column that calls_raw has no more:
\* the query fails whenever there is something to count.
nnpRecalcFails(d) == minCallId(d.stats["nnp"], StoredLastId(d)) > 0
nnpRecalc(d) == Kept(d.stats["nnp"], StoredLastId(d))

recalcAll(d) ==
  [d EXCEPT !.stats = [freemin |-> freeminRecalc(d), package |-> packageRecalc(d),
                       trunk |-> trunkRecalc(d), nnp |-> nnpRecalc(d)]]

-----------------------------------------------------------------------------
(* sync: the rows with a call after the last call of any row the central   *)
(* database has.                                                           *)

\* Mutant: copies only the rows the central database does not have.
syncStatsNew(rows, central) == central \cup {c \in rows : c.id \notin Ids(central)}
syncStats(rows, central) ==
  Merged(central, {c \in rows : c.max_call_id > MaxIn({x.max_call_id : x \in central})})

freeminSync(stats, central) == syncStats(stats.freemin, central.freemin)
packageSync(stats, central) == syncStats(stats.package, central.package)
trunkSync(stats, central)   == syncStats(stats.trunk, central.trunk)
nnpSync(stats, central)     == syncStats(stats.nnp, central.nnp)
syncAll(stats, central) ==
  [freemin |-> freeminSync(stats, central), package |-> packageSync(stats, central),
   trunk |-> trunkSync(stats, central), nnp |-> nnpSync(stats, central)]

=============================================================================
