---------------------------- MODULE AccountStats ----------------------------
(***************************************************************************)
(* StatsAccountManager, the running balances of the accounts, and the      *)
(* threads that share it: "runtime" adds calls, "save" writes them to the  *)
(* region, "account_balance_recalc" reloads a balance when an invoice has  *)
(* moved the account's amount_date, "sync_counters" sends what changed to  *)
(* the central database, "loader" refreshes the list of clients and a      *)
(* recalculation task replaces everything.                                 *)
(*                                                                         *)
(* Every call costs 1 and a balance is the pair of StatsAccount::sum and   *)
(* StatsAccount::amount_date; sum_day, sum_mn_day and sum_month, windows   *)
(* over the same calls, are left out.  Writing a partition to the region   *)
(* is one step here: BillingPipeline opens it up.                          *)
(***************************************************************************)
EXTENDS Naturals, Sequences, FiniteSets, Maps

CONSTANTS
  Account,        \* the accounts, all of them active
  MaxDate,        \* bound: dates are 0..MaxDate
  MaxCalls,       \* bound: calls ever billed in any configuration
  Configurations  \* of the daemon and its surroundings: skip_threads, the kinds of fault
                  \*   that may happen, and bounds for calls, invoices, recalcs, months and faults

ASSUME AccountStatsAssumption ==
  /\ {MaxDate, MaxCalls} \subseteq Nat
  /\ Configurations \subseteq
       [skip_threads : SUBSET {"account_balance_recalc"}, calls : 0..MaxCalls, invoices : Nat, recalcs : Nat,
        months : Nat, faults : Nat, kinds : SUBSET {"outage", "reconnect", "lostReply", "crash"}]

VARIABLES
  conf,          \* the configuration of this behaviour
  clientDate,    \* billing.clients.amount_date, per account
  prevMonth,     \* sPrevMonth: the queries look at no call before it
  listDate,      \* the same in the ClientList the threads read
  raw,           \* calls_raw.calls_raw of the region
  stored,        \* billing.stats_account of the region
  statsAccount,  \* StatsAccountManager::statsAccount
  forSync,       \* StatsAccountManager::forSync
  needClear,     \* StatsAccountManager::needClear
  parts,         \* the partitions: calls, and realtimeStatsAccountParts
  reload,        \* ThreadAccountBalanceRecalc::run: where it is and what it holds
  sync,          \* StatsAccountManager::sync: where it is and what it holds
  central,       \* billing.stats_account of the central database, this server's rows
  lost,          \* history: the accounts whose rows a repeated COMMIT left out of it,
                 \*   and that have not been sent since
  count          \* how often each bounded thing has happened

centre  == <<central, lost>>
dates   == <<listDate, prevMonth>>
dbVars  == <<clientDate, raw, stored, centre>>
memVars == <<statsAccount, forSync, needClear>>
vars == <<dbVars, dates, memVars, parts, reload, sync, count>>

\* Maps and tables hold a balance for some of the accounts.
NoBalances == [a \in {} |-> 0]

EmptyPart == [calls |-> {}, stats |-> NoBalances]
ReloadIdle == [pc |-> "idle", ids |-> {}, res |-> NoBalances]
SyncIdle == [pc |-> "idle", changes |-> NoBalances, clear |-> FALSE]

MemoryCalls == UNION {parts[i].calls : i \in 1..Len(parts)}

\* sum(cost) of one account's calls from a date on.
SumFrom(calls, a, date) ==
  Cardinality({c \in calls : c.account = a /\ c.time >= date})

\* What the query of reloadSum, and the one of recalc, answers for account a:
\* the calls from amount_date on, and none from before the previous month.
Reckoned(calls, a) ==
  [sum |-> SumFrom(calls, a, IF prevMonth > clientDate[a] THEN prevMonth ELSE clientDate[a]),
   amount_date |-> clientDate[a]]

Times(what, max) == count[what] < max /\ count' = [count EXCEPT ![what] = @ + 1]
Fault(kind) == kind \in conf.kinds /\ Times("faults", conf.faults)

-----------------------------------------------------------------------------
(* An invoice moves amount_date; the loader refreshes the client list; the *)
(* month changes.                                                          *)

Invoice(a) ==
  /\ clientDate[a] < MaxDate
  /\ Times("invoices", conf.invoices)
  /\ clientDate' = [clientDate EXCEPT ![a] = @ + 1]
  /\ UNCHANGED <<raw, stored, centre, dates, memVars, parts, reload, sync>>

LoadClients ==
  /\ listDate # clientDate
  /\ listDate' = clientDate
  /\ UNCHANGED <<dbVars, prevMonth, memVars, parts, reload, sync, count>>

\* get_tmonth and what is taken from it in recalc and reloadSum: add knows no such bound.
NewMonth ==
  /\ prevMonth < MaxDate
  /\ Times("months", conf.months)
  /\ prevMonth' = prevMonth + 1
  /\ UNCHANGED <<dbVars, listDate, memVars, parts, reload, sync>>

-----------------------------------------------------------------------------
(* Thread "runtime": StatsAccountManager::add, under the spinlock.         *)

Known(a) == IF a \in DOMAIN statsAccount
            THEN statsAccount[a]
            ELSE [sum |-> 0, amount_date |-> listDate[a]]

ChargedAlways(a, time) == [Known(a) EXCEPT !.sum = @ + 1]  \* mutant: whatever the invoice says
Charged(a, time) == [Known(a) EXCEPT !.sum = IF time >= listDate[a] THEN @ + 1 ELSE @]

add(a, time) ==
  LET n == Len(parts) IN
  /\ Times("calls", conf.calls)
  /\ statsAccount' = Put(statsAccount, a, Charged(a, time))
  /\ parts' = [parts EXCEPT
       ![n].calls = @ \cup {[id |-> count.calls + 1, account |-> a, time |-> time]},
       ![n].stats = Put(@, a, Charged(a, time))]
  /\ forSync' = forSync \cup {a}
  /\ UNCHANGED <<dbVars, dates, needClear, reload, sync>>

-----------------------------------------------------------------------------
(* Thread "save".                                                          *)

SaveCut ==
  /\ Len(parts) = 1
  /\ parts[1].calls # {}
  /\ parts' = Append(parts, EmptyPart)
  /\ UNCHANGED <<dbVars, dates, memVars, reload, sync, count>>

SaveCommit ==
  /\ Len(parts) > 1
  /\ raw' = raw \cup parts[1].calls
  /\ stored' = Over(parts[1].stats, stored)
  /\ parts' = Tail(parts)
  /\ UNCHANGED <<clientDate, centre, dates, memVars, reload, sync, count>>

-----------------------------------------------------------------------------
(* Thread "account_balance_recalc": the accounts are picked under the      *)
(* spinlock, the query runs without it, its rows are stored under it.      *)

ReloadPick ==
  /\ "account_balance_recalc" \notin conf.skip_threads
  /\ reload.pc = "idle"
  /\ LET ids == {a \in Account : \/ a \notin DOMAIN statsAccount
                                 \/ statsAccount[a].amount_date # listDate[a]}
     IN  /\ ids # {}
         /\ reload' = [reload EXCEPT !.pc = "query", !.ids = ids]
  /\ UNCHANGED <<dbVars, dates, memVars, parts, sync, count>>

ReloadQuery ==
  /\ reload.pc = "query"
  /\ reload' = [reload EXCEPT !.pc = "write", !.res = [a \in reload.ids |-> Reckoned(raw, a)]]
  /\ UNCHANGED <<dbVars, dates, memVars, parts, sync, count>>

ReloadQueryFails ==
  /\ reload.pc = "query"
  /\ Fault("outage")
  /\ reload' = ReloadIdle
  /\ UNCHANGED <<dbVars, dates, memVars, parts, sync>>

ReloadWrite ==
  /\ reload.pc = "write"
  /\ statsAccount' = Over(reload.res, statsAccount)
  /\ forSync' = forSync \cup DOMAIN reload.res
  /\ reload' = ReloadIdle
  /\ UNCHANGED <<dbVars, dates, needClear, parts, sync, count>>

-----------------------------------------------------------------------------
(* Thread "sync_counters": StatsAccountManager::sync.                      *)

getChanges == IF needClear THEN statsAccount ELSE [a \in forSync |-> statsAccount[a]]

SyncCollect ==
  /\ sync.pc = "idle"
  /\ needClear \/ forSync # {}
  /\ sync' = IF getChanges = NoBalances
             THEN SyncIdle
             ELSE [pc |-> "send", changes |-> getChanges, clear |-> needClear]
  /\ forSync' = {}
  /\ needClear' = FALSE
  /\ UNCHANGED <<dbVars, dates, statsAccount, parts, reload, count>>

\* The central table after a sync: with needClear its rows are deleted first,
\* in the same transaction; otherwise a rule turns INSERT into UPDATE.
Synced == IF sync.clear THEN sync.changes ELSE Over(sync.changes, central)

SyncSend ==
  /\ sync.pc = "send"
  /\ central' = Synced
  /\ lost' = lost \ DOMAIN sync.changes
  /\ sync' = SyncIdle
  /\ UNCHANGED <<clientDate, raw, stored, dates, memVars, parts, reload, count>>

\* The connection is lost in the transaction and exec repeats the statement on a
\* new one.  Between DELETE and INSERT: DELETE is rolled back, INSERT takes
\* effect by itself and COMMIT only warns.  At COMMIT: both are rolled back, the
\* repeated COMMIT only warns, and nothing throws.
SyncReconnect ==
  /\ sync.pc = "send"
  /\ sync.clear
  /\ Fault("reconnect")
  /\ \/ central' = Over(sync.changes, central) /\ lost' = lost \ DOMAIN sync.changes
     \/ central' = central /\ lost' = lost \cup DOMAIN sync.changes
  /\ sync' = SyncIdle
  /\ UNCHANGED <<clientDate, raw, stored, dates, memVars, parts, reload>>

addChangesNothing == UNCHANGED <<forSync, needClear>>  \* mutant
addChanges ==
  /\ forSync' = forSync \cup DOMAIN sync.changes
  /\ needClear' = (needClear \/ sync.clear)

\* exec throws; the statements may have been carried out all the same, or, when
\* DELETE was repeated on a new connection and is outside the transaction, only DELETE.
SyncFails ==
  /\ sync.pc = "send"
  /\ \/ Fault("outage") /\ UNCHANGED centre
     \/ Fault("outage") /\ sync.clear /\ "reconnect" \in conf.kinds /\ central' = NoBalances /\ lost' = lost
     \/ Fault("lostReply") /\ central' = Synced /\ lost' = lost \ DOMAIN sync.changes
  /\ addChanges
  /\ sync' = SyncIdle
  /\ UNCHANGED <<clientDate, raw, stored, dates, statsAccount, parts, reload>>

-----------------------------------------------------------------------------
(* TaskRecalc holds the locks of fetch, calc, save and sync_counters when  *)
(* it reloads the live data.  What it has done to the region before is     *)
(* abstracted to its result: some of the calls that wait in memory have    *)
(* been billed again, and the balances are reckoned from calls_raw.        *)

LoadedUnsynced ==  \* mutant: no full sync follows
  /\ parts' = <<EmptyPart>>
  /\ forSync' = {}
  /\ needClear' = FALSE
Loaded ==
  /\ parts' = <<EmptyPart>>
  /\ forSync' = {}
  /\ needClear' = TRUE

RecalcReload ==
  /\ sync.pc = "idle"
  /\ Times("recalcs", conf.recalcs)
  /\ \E again \in SUBSET MemoryCalls : raw' = raw \cup again
  /\ stored' = [a \in Account |-> Reckoned(raw', a)]
  /\ statsAccount' = stored'
  /\ Loaded
  /\ UNCHANGED <<clientDate, centre, dates, reload, sync>>

-----------------------------------------------------------------------------
(* The daemon dies and is started again: StatsAccountManager::load.        *)

CrashRestart ==
  /\ Fault("crash")
  /\ listDate' = clientDate
  /\ statsAccount' = stored
  /\ forSync' = {}
  /\ needClear' = FALSE
  /\ parts' = <<EmptyPart>>
  /\ reload' = ReloadIdle
  /\ sync' = SyncIdle
  /\ UNCHANGED <<dbVars, prevMonth>>

-----------------------------------------------------------------------------
Init ==
  /\ conf \in Configurations
  /\ clientDate \in [Account -> 0..MaxDate]
  /\ listDate = clientDate
  /\ prevMonth = 0
  /\ raw = {}
  /\ stored = NoBalances
  /\ statsAccount = NoBalances
  /\ forSync = {}
  /\ needClear = FALSE
  /\ parts = <<EmptyPart>>
  /\ reload = ReloadIdle
  /\ sync = SyncIdle
  /\ central = NoBalances
  /\ lost = {}
  /\ count = [calls |-> 0, invoices |-> 0, recalcs |-> 0, months |-> 0, faults |-> 0]

Runtime == \E a \in Account, time \in 0..MaxDate : add(a, time)
Save    == SaveCut \/ SaveCommit
Reload  == ReloadPick \/ ReloadQuery \/ ReloadWrite
Sync    == SyncCollect \/ SyncSend

Next ==
  /\ UNCHANGED conf
  /\ \/ \E a \in Account : Invoice(a)
     \/ LoadClients \/ NewMonth
     \/ Runtime \/ Save \/ Reload \/ Sync
     \/ ReloadQueryFails \/ SyncReconnect \/ SyncFails
     \/ RecalcReload \/ CrashRestart

\* Each thread's loop runs again and again; nothing is assumed of calls,
\* invoices, recalculations and faults.
Fairness == WF_vars(LoadClients) /\ WF_vars(Save) /\ WF_vars(Reload) /\ WF_vars(Sync)

Spec == Init /\ [][Next]_<<conf, vars>>
FairSpec == Spec /\ Fairness

-----------------------------------------------------------------------------
(* Properties.                                                             *)

\* Nothing is on its way that will still change the balance of account a.
Settled(a) ==
  /\ \A c \in MemoryCalls : c.account # a
  /\ reload.pc = "idle"
  /\ a \in DOMAIN statsAccount
  /\ statsAccount[a].amount_date = clientDate[a] /\ listDate[a] = clientDate[a]

\* What StatsAccount.h says of StatsAccount::sum, with the comparison the code
\* makes: add and both queries take a call of the very moment of amount_date
\* (>=), where the header writes connect_time > amount_date.
SumsItsCalls(a) == statsAccount[a].sum = SumFrom(raw, a, clientDate[a])

\* Once an account's calls are saved and its invoice date is known everywhere,
\* its balance is the sum of its calls in calls_raw from that date on, as
\* StatsAccount.h says of StatsAccount::sum.
BalanceIsCallsSum == \A a \in Account : Settled(a) => SumsItsCalls(a)

\* recalc has not left out calls of account a for lying before the previous month.
Whole(a) == count.recalcs = 0 \/ prevMonth <= clientDate[a]

\* That holds where the thread account_balance_recalc is switched off, no
\* recalculation can meet a client list that has not seen an invoice yet (recalc
\* reads amount_date from the database, add from the list), and no recalculation
\* has met an account whose last invoice is older than the previous month: add,
\* save, load and recalc keep every settled balance equal to its calls, across
\* crashes and the turn of the month.
BalanceWithoutReload ==
  "account_balance_recalc" \in conf.skip_threads /\ 0 \in {conf.invoices, conf.recalcs} =>
    \A a \in Account : Settled(a) /\ Whole(a) => SumsItsCalls(a)

\* No change of a balance is forgotten on its way to the central database: it
\* is marked, or on its way, or there, whatever add, reloadSum and a failing
\* sync do in between; only a full sync whose COMMIT exec repeated on a new
\* connection forgets what it sent, until the account is sent again.
NoChangeForgotten ==
  "crash" \notin conf.kinds => \A a \in DOMAIN statsAccount :
    \/ needClear \/ a \in forSync \/ a \in lost
    \/ sync.pc = "send" /\ a \in DOMAIN sync.changes /\ sync.changes[a] = statsAccount[a]
    \/ a \in DOMAIN central /\ central[a] = statsAccount[a]

\* The central database has the region's balances in the end, but for the
\* accounts whose rows were last sent with a COMMIT that was repeated on a new
\* connection, and unless a crash has lost the marks of what is to be sent
\* (forSync lives in memory only).
CentralCatchesUp ==
  <>[]("crash" \in conf.kinds \/
       \A a \in DOMAIN statsAccount \ lost : a \in DOMAIN central /\ central[a] = statsAccount[a])
=============================================================================
