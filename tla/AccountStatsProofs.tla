------------------------- MODULE AccountStatsProofs -------------------------
(***************************************************************************)
(* The balances of the accounts, for any accounts and configurations and   *)
(* any number of calls, invoices, recalculations and faults: no change of  *)
(* a balance is forgotten on its way to the central database but by a      *)
(* COMMIT repeated on a new connection, and without the thread             *)
(* account_balance_recalc a settled balance is the sum of its calls.  The   *)
(* second needs to know of every copy of a balance (in memory, in the      *)
(* partitions, in the region) which calls it counts.                       *)
(***************************************************************************)
EXTENDS AccountStats, TLAPS, FiniteSetTheorems

-----------------------------------------------------------------------------
(* Types.                                                                  *)

Balance == [sum : Nat, amount_date : Nat]
Balances == UNION {[S -> Balance] : S \in SUBSET Account}
Call == [id : Nat, account : Account, time : Nat]
Part == [calls : SUBSET Call, stats : Balances]

AllCalls == raw \cup MemoryCalls
CountType == [calls : Nat, invoices : Nat, recalcs : Nat, months : Nat, faults : Nat]
ReloadType == [pc : {"idle", "query", "write"}, ids : SUBSET Account, res : Balances]
SyncType == [pc : {"idle", "send"}, changes : Balances, clear : BOOLEAN]

TypeDates == clientDate \in [Account -> Nat] /\ listDate \in [Account -> Nat] /\ prevMonth \in Nat
TypeCalls ==
  /\ raw \in SUBSET Call /\ IsFiniteSet(AllCalls)
  /\ parts \in Seq(Part) /\ Len(parts) \in {1, 2}
TypeBalances ==
  /\ stored \in Balances /\ statsAccount \in Balances /\ central \in Balances
  /\ forSync \subseteq DOMAIN statsAccount /\ needClear \in BOOLEAN
  /\ sync \in SyncType /\ DOMAIN sync.changes \subseteq DOMAIN statsAccount
  /\ lost \in SUBSET Account
TypeRest == conf \in Configurations /\ reload \in ReloadType /\ count \in CountType

\* Every variable has its type, the calls are finitely many, save has at most
\* one partition cut off, and what is marked or being sent has a balance.
TypeOK == TypeDates /\ TypeCalls /\ TypeBalances /\ TypeRest

-----------------------------------------------------------------------------
(* The way to the central database.                                        *)

\* While a sync is sending, a balance that has not changed since is among what
\* it sends; without a clearing it may also be at the centre already, or lost
\* by an earlier sync whose COMMIT was repeated on a new connection.
SendsLast ==
  sync.pc = "send" => \A a \in DOMAIN statsAccount :
    \/ needClear \/ a \in forSync
    \/ a \in DOMAIN sync.changes /\ sync.changes[a] = statsAccount[a]
    \/ /\ ~ sync.clear /\ a \notin DOMAIN sync.changes
       /\ a \in lost \/ (a \in DOMAIN central /\ central[a] = statsAccount[a])

SyncInv == "crash" \notin conf.kinds => SendsLast /\ NoChangeForgotten

-----------------------------------------------------------------------------
(* What the balances count.                                                *)

\* The calls that are saved when partition i has been saved.
UpTo(i) == raw \cup UNION {parts[j].calls : j \in 1..i}

\* A balance that has the account's current amount_date counts these calls,
\* unless a recalculation has left out those before the previous month.
Counts(balances, calls) ==
  \A a \in DOMAIN balances :
    Whole(a) /\ balances[a].amount_date = clientDate[a] => balances[a].sum = SumFrom(calls, a, clientDate[a])
\* No balance is ahead of the client list.
Dated(balances) == \A a \in DOMAIN balances : balances[a].amount_date <= listDate[a]
\* Every call has its account's balance.
Holds(balances, calls) == \A c \in calls : c.account \in DOMAIN balances

ListsFollow == \A a \in Account : listDate[a] <= clientDate[a]
IdsUsed == \A c \in AllCalls : c.id <= count.calls

MemoryCounts == Counts(statsAccount, AllCalls) /\ Dated(statsAccount) /\ Holds(statsAccount, AllCalls)
StoredCounts == Counts(stored, raw) /\ Dated(stored) /\ Holds(stored, raw)
PartsCount ==
  \A i \in 1..Len(parts) :
    Counts(parts[i].stats, UpTo(i)) /\ Dated(parts[i].stats) /\ Holds(parts[i].stats, parts[i].calls)

\* An invoice and a recalculation do not meet: one of them does not happen.
Apart == "account_balance_recalc" \in conf.skip_threads /\ 0 \in {conf.invoices, conf.recalcs}

BInv ==
  Apart =>
    /\ reload = ReloadIdle /\ (conf.invoices = 0 => listDate = clientDate)
    /\ ListsFollow /\ IdsUsed /\ MemoryCounts /\ StoredCounts /\ PartsCount

-----------------------------------------------------------------------------
(* Lemmas about maps of balances and sums of calls.                        *)

LEMMA BalancesMember ==
  ASSUME NEW S \in SUBSET Account, NEW f \in [S -> Balance]
  PROVE  f \in Balances
BY DEF Balances

LEMMA BalancesDomain ==
  ASSUME NEW f \in Balances
  PROVE  /\ DOMAIN f \subseteq Account /\ f \in [DOMAIN f -> Balance]
         /\ \A a \in DOMAIN f : f[a] \in Balance
<1>1. PICK S \in SUBSET Account : f \in [S -> Balance]
  BY DEF Balances
<1> QED
  BY <1>1

LEMMA NoBalancesTyped == NoBalances \in Balances /\ DOMAIN NoBalances = {}
<1>1. NoBalances \in [{} -> Balance] /\ DOMAIN NoBalances = {}
  BY DEF NoBalances
<1> QED
  BY <1>1, BalancesMember

LEMMA PutTyped ==
  ASSUME NEW f \in Balances, NEW a \in Account, NEW b \in Balance
  PROVE  /\ Put(f, a, b) \in Balances /\ DOMAIN Put(f, a, b) = {a} \cup DOMAIN f
         /\ Put(f, a, b)[a] = b /\ \A x \in DOMAIN f : x # a => Put(f, a, b)[x] = f[x]
<1>1. DOMAIN f \subseteq Account /\ f \in [DOMAIN f -> Balance]
  BY BalancesDomain
<1>2. Put(f, a, b) \in [{a} \cup DOMAIN f -> Balance]
  BY <1>1 DEF Put
<1>3. {a} \cup DOMAIN f \in SUBSET Account
  BY <1>1
<1>4. Put(f, a, b) \in Balances
  BY <1>2, <1>3, BalancesMember
<1> QED
  BY <1>4 DEF Put

LEMMA OverTyped ==
  ASSUME NEW f \in Balances, NEW g \in Balances
  PROVE  /\ Over(f, g) \in Balances /\ DOMAIN Over(f, g) = DOMAIN f \cup DOMAIN g
         /\ \A x \in DOMAIN f : Over(f, g)[x] = f[x]
         /\ \A x \in DOMAIN g \ DOMAIN f : Over(f, g)[x] = g[x]
<1>1. /\ DOMAIN f \subseteq Account /\ f \in [DOMAIN f -> Balance]
      /\ DOMAIN g \subseteq Account /\ g \in [DOMAIN g -> Balance]
  BY BalancesDomain
<1>2. Over(f, g) \in [DOMAIN f \cup DOMAIN g -> Balance]
  BY <1>1 DEF Over
<1>3. DOMAIN f \cup DOMAIN g \in SUBSET Account
  BY <1>1
<1>4. Over(f, g) \in Balances
  BY <1>2, <1>3, BalancesMember
<1> QED
  BY <1>4 DEF Over

\* What one more call adds to a sum.
LEMMA SumAdd ==
  ASSUME NEW calls, IsFiniteSet(calls), NEW c, c \notin calls, NEW all, all = calls \cup {c}, NEW a, NEW date
  PROVE  /\ SumFrom(calls, a, date) \in Nat
         /\ SumFrom(all, a, date) =
              SumFrom(calls, a, date) + (IF c.account = a /\ c.time >= date THEN 1 ELSE 0)
<1> DEFINE S == {x \in calls : x.account = a /\ x.time >= date}
           T == {x \in all : x.account = a /\ x.time >= date}
<1>1. IsFiniteSet(S)
  BY FS_Subset
<1>2. Cardinality(S) \in Nat
  BY <1>1, FS_CardinalityType
<1>3. CASE c.account = a /\ c.time >= date
  <2>1. T = S \cup {c} /\ c \notin S
    BY <1>3
  <2>2. Cardinality(T) = Cardinality(S) + 1
    BY <1>1, <2>1, FS_AddElement
  <2> QED
    BY <1>2, <1>3, <2>2 DEF SumFrom
<1>4. CASE ~ (c.account = a /\ c.time >= date)
  <2>1. T = S
    BY <1>4
  <2>2. SumFrom(calls, a, date) = Cardinality(S) /\ SumFrom(all, a, date) = Cardinality(S)
    BY <2>1 DEF SumFrom
  <2> QED
    BY <1>2, <1>4, <2>2
<1> QED
  BY <1>3, <1>4

\* Calls of other accounts do not count.
LEMMA SumOthers ==
  ASSUME NEW calls, NEW all, calls \subseteq all, NEW a, \A c \in all \ calls : c.account # a, NEW date
  PROVE  SumFrom(all, a, date) = SumFrom(calls, a, date)
<1>1. {c \in all : c.account = a /\ c.time >= date} = {c \in calls : c.account = a /\ c.time >= date}
  OBVIOUS
<1> QED
  BY <1>1 DEF SumFrom

LEMMA SumType ==
  ASSUME NEW calls, IsFiniteSet(calls), NEW a, NEW date
  PROVE  SumFrom(calls, a, date) \in Nat
<1>1. IsFiniteSet({c \in calls : c.account = a /\ c.time >= date})
  BY FS_Subset
<1> QED
  BY <1>1, FS_CardinalityType DEF SumFrom

-----------------------------------------------------------------------------
(* Type correctness.                                                       *)

LEMMA IdleTyped ==
  /\ ReloadIdle \in ReloadType /\ SyncIdle \in SyncType /\ SyncIdle.pc = "idle"
  /\ EmptyPart \in Part /\ EmptyPart.calls = {} /\ EmptyPart.stats = NoBalances
  /\ <<EmptyPart>> \in Seq(Part) /\ Len(<<EmptyPart>>) = 1 /\ <<EmptyPart>>[1] = EmptyPart
<1>1. EmptyPart \in Part
  BY NoBalancesTyped DEF EmptyPart, Part
<1>2. /\ ReloadIdle \in ReloadType /\ SyncIdle \in SyncType /\ SyncIdle.pc = "idle"
      /\ EmptyPart.calls = {} /\ EmptyPart.stats = NoBalances
  BY NoBalancesTyped DEF EmptyPart, ReloadIdle, ReloadType, SyncIdle, SyncType
<1> QED
  BY <1>1, <1>2

\* A bounded thing happens once more.
LEMMA TimesTyped ==
  ASSUME count \in CountType, NEW what \in {"calls", "invoices", "recalcs", "months", "faults"}, NEW max, Times(what, max)
  PROVE  count' \in CountType /\ count'[what] = count[what] + 1
BY DEF Times, CountType

LEMMA KnownTyped ==
  ASSUME TypeOK, NEW a \in Account, NEW time
  PROVE  /\ Known(a) \in Balance /\ Charged(a, time) \in Balance
         /\ Charged(a, time).amount_date = Known(a).amount_date
         /\ Charged(a, time).sum = Known(a).sum + (IF time >= listDate[a] THEN 1 ELSE 0)
<1>1. Known(a) \in Balance
  BY BalancesDomain DEF TypeOK, TypeDates, TypeBalances, Known, Balance
<1> QED
  BY <1>1 DEF Charged, Balance

\* What add makes of the partitions.
LEMMA AddParts ==
  ASSUME TypeOK, NEW a \in Account, NEW time \in Nat, add(a, time)
  PROVE  LET n == Len(parts)
             c == [id |-> count.calls + 1, account |-> a, time |-> time]
         IN  /\ c \in Call
             /\ parts' \in Seq(Part) /\ Len(parts') = n /\ n \in 1..n
             /\ \A i \in 1..n : i # n => parts'[i] = parts[i]
             /\ parts'[n].calls = parts[n].calls \cup {c}
             /\ parts'[n].stats = Put(parts[n].stats, a, Charged(a, time))
             /\ parts[n] \in Part /\ parts'[n] \in Part
             /\ MemoryCalls' = MemoryCalls \cup {c}
<1> DEFINE n == Len(parts)
           c == [id |-> count.calls + 1, account |-> a, time |-> time]
<1>1. c \in Call
  BY DEF TypeOK, TypeRest, CountType, Call
<1>0. parts \in Seq(Part) /\ n \in {1, 2}
  BY DEF TypeOK, TypeCalls
<1>2. n \in 1..n /\ n \in Nat /\ parts[n] \in Part /\ \A i \in 1..n : parts[i] \in Part
  BY <1>0
<1>3. /\ Len(parts') = n /\ parts' \in Seq(Part)
      /\ \A i \in 1..n : i # n => parts'[i] = parts[i]
      /\ parts'[n] = [parts[n] EXCEPT !.calls = parts[n].calls \cup {c}, !.stats = Put(parts[n].stats, a, Charged(a, time))]
  <2> DEFINE p == [parts[n] EXCEPT !.calls = parts[n].calls \cup {c}, !.stats = Put(parts[n].stats, a, Charged(a, time))]
  <2>1. Put(parts[n].stats, a, Charged(a, time)) \in Balances
    BY <1>2, KnownTyped, PutTyped DEF Part
  <2>2. parts' = [parts EXCEPT ![n].calls = parts[n].calls \cup {c}, ![n].stats = Put(parts[n].stats, a, Charged(a, time))]
    BY <1>0, <1>2 DEF add
  <2> HIDE DEF c
  <2>3. p \in Part
    BY <1>1, <1>2, <2>1 DEF Part
  <2>4. parts' = [parts EXCEPT ![n] = p]
    BY <1>0, <1>2, <2>2
  <2> HIDE DEF p
  <2>5. /\ Len(parts') = n /\ parts' \in Seq(Part)
        /\ \A i \in 1..n : i # n => parts'[i] = parts[i]
        /\ parts'[n] = p
    BY <1>0, <1>2, <2>3, <2>4
  <2> QED
    BY <2>5 DEF p
<1>4. /\ parts'[n].calls = parts[n].calls \cup {c}
      /\ parts'[n].stats = Put(parts[n].stats, a, Charged(a, time))
  BY <1>2, <1>3 DEF Part
<1>5. parts' \in Seq(Part) /\ parts'[n] \in Part
  BY <1>2, <1>3
<1>6. MemoryCalls' = MemoryCalls \cup {c}
  <2> HIDE DEF c, n
  <2>1. \A i \in 1..n : parts'[i].calls = IF i = n THEN parts[i].calls \cup {c} ELSE parts[i].calls
    BY <1>3, <1>4
  <2>2. MemoryCalls' = UNION {parts'[i].calls : i \in 1..n}
    BY <1>3 DEF MemoryCalls
  <2>3. MemoryCalls = UNION {parts[i].calls : i \in 1..n}
    BY DEF MemoryCalls, n
  <2> QED
    BY <1>2, <2>1, <2>2, <2>3
<1> QED
  BY <1>1, <1>2, <1>3, <1>4, <1>5, <1>6

\* What save makes of the partitions.
LEMMA SaveParts ==
  ASSUME TypeOK
  PROVE  /\ SaveCut => /\ Len(parts) = 1 /\ Len(parts') = 2 /\ parts' \in Seq(Part)
                       /\ parts'[1] = parts[1] /\ parts'[2] = EmptyPart
                       /\ MemoryCalls' = MemoryCalls
         /\ SaveCommit => /\ Len(parts) = 2 /\ Len(parts') = 1 /\ parts' \in Seq(Part)
                          /\ parts'[1] = parts[2] /\ parts[1] \in Part
                          /\ MemoryCalls = parts[1].calls \cup parts[2].calls
                          /\ MemoryCalls' = parts[2].calls
         /\ parts' = <<EmptyPart>> => MemoryCalls' = {}
<1>0. parts \in Seq(Part) /\ Len(parts) \in {1, 2}
  BY DEF TypeOK, TypeCalls
<1>1. ASSUME SaveCut
      PROVE  /\ Len(parts) = 1 /\ Len(parts') = 2 /\ parts' \in Seq(Part)
             /\ parts'[1] = parts[1] /\ parts'[2] = EmptyPart
             /\ MemoryCalls' = MemoryCalls
  <2>1. /\ Len(parts) = 1 /\ Len(parts') = 2 /\ parts' \in Seq(Part)
        /\ parts'[1] = parts[1] /\ parts'[2] = EmptyPart
    <3>1. Len(parts) = 1 /\ parts' = Append(parts, EmptyPart)
      BY <1>1 DEF SaveCut
    <3> QED
      BY <1>0, <3>1, IdleTyped
  <2>2. 1..Len(parts) = {1} /\ 1..Len(parts') = {1, 2}
    BY <2>1
  <2> QED
    BY <2>1, <2>2, IdleTyped DEF MemoryCalls
<1>2. ASSUME SaveCommit
      PROVE  /\ Len(parts) = 2 /\ Len(parts') = 1 /\ parts' \in Seq(Part)
             /\ parts'[1] = parts[2] /\ parts[1] \in Part
             /\ MemoryCalls = parts[1].calls \cup parts[2].calls
             /\ MemoryCalls' = parts[2].calls
  <2>1. /\ Len(parts) = 2 /\ Len(parts') = 1 /\ parts' \in Seq(Part)
        /\ parts'[1] = parts[2] /\ parts[1] \in Part
    BY <1>0, <1>2 DEF SaveCommit
  <2>2. 1..Len(parts) = {1, 2} /\ 1..Len(parts') = {1}
    BY <2>1
  <2> QED
    BY <2>1, <2>2 DEF MemoryCalls
<1>3. ASSUME parts' = <<EmptyPart>>
      PROVE  MemoryCalls' = {}
  <2>1. Len(parts') = 1 /\ parts'[1] = EmptyPart /\ 1..Len(parts') = {1}
    BY <1>3
  <2> QED
    BY <2>1, IdleTyped DEF MemoryCalls
<1> QED
  BY <1>1, <1>2, <1>3

\* The balances a query answers.
LEMMA ReckonedTyped ==
  ASSUME TypeDates, NEW calls, IsFiniteSet(calls), NEW S \in SUBSET Account
  PROVE  [a \in S |-> Reckoned(calls, a)] \in Balances
<1>1. \A a \in S : Reckoned(calls, a) \in Balance
  BY SumType DEF TypeDates, Reckoned, Balance
<1> QED
  BY <1>1, BalancesMember

LEMMA AddTyped ==
  ASSUME TypeOK, NEW a \in Account, NEW time \in Nat, add(a, time)
  PROVE  TypeDates' /\ TypeCalls' /\ TypeBalances' /\ count' \in CountType
<1>1. TypeDates' /\ count' \in CountType
  BY TimesTyped DEF add, dbVars, centre, dates, TypeOK, TypeDates, TypeRest
<1>2. TypeCalls'
  <2> DEFINE c == [id |-> count.calls + 1, account |-> a, time |-> time]
  <2>1. AllCalls' = AllCalls \cup {c} /\ raw' = raw
    BY AddParts DEF AllCalls, add, dbVars, centre, dates
  <2>2. IsFiniteSet(AllCalls \cup {c})
    BY FS_AddElement DEF TypeOK, TypeCalls
  <2> QED
    BY <2>1, <2>2, AddParts DEF TypeOK, TypeCalls
<1>3. TypeBalances'
  <2>1. statsAccount' \in Balances /\ DOMAIN statsAccount' = {a} \cup DOMAIN statsAccount
    BY KnownTyped, PutTyped DEF add, TypeOK, TypeBalances
  <2>2. forSync' = forSync \cup {a} /\ UNCHANGED <<stored, central, lost, needClear, sync>>
    BY DEF add, dbVars, centre, dates
  <2> QED
    BY <2>1, <2>2 DEF TypeOK, TypeBalances
<1> QED
  BY <1>1, <1>2, <1>3

LEMMA SaveTyped ==
  ASSUME TypeOK, Save
  PROVE  TypeDates' /\ TypeCalls' /\ TypeBalances' /\ count' \in CountType
<1>1. TypeDates' /\ count' \in CountType
  BY DEF Save, SaveCut, SaveCommit, dbVars, centre, dates, TypeOK, TypeDates, TypeRest
<1>2. TypeCalls'
  <2>1. CASE SaveCut
    <3>1. raw' = raw /\ AllCalls' = AllCalls
      BY <2>1, SaveParts DEF SaveCut, dbVars, centre, dates, AllCalls
    <3> QED
      BY <2>1, <3>1, SaveParts DEF TypeOK, TypeCalls
  <2>2. CASE SaveCommit
    <3>1. raw' = raw \cup parts[1].calls /\ AllCalls' = AllCalls
      BY <2>2, SaveParts DEF SaveCommit, AllCalls
    <3> QED
      BY <2>2, <3>1, SaveParts DEF TypeOK, TypeCalls, Part
  <2> QED
    BY <2>1, <2>2 DEF Save
<1>3. TypeBalances'
  <2>1. SaveCommit => parts[1].stats \in Balances
    BY SaveParts DEF Part
  <2> QED
    BY <2>1, OverTyped DEF Save, SaveCut, SaveCommit, dbVars, centre, dates, memVars, TypeOK, TypeBalances
<1> QED
  BY <1>1, <1>2, <1>3

LEMMA ReloadTyped ==
  ASSUME TypeOK, Reload \/ ReloadQueryFails
  PROVE  TypeDates' /\ TypeCalls' /\ TypeBalances' /\ reload' \in ReloadType /\ count' \in CountType
<1>1. UNCHANGED <<dbVars, dates, needClear, parts, sync>>
  BY DEF Reload, ReloadPick, ReloadQuery, ReloadWrite, ReloadQueryFails, memVars
<1>2. TypeDates' /\ TypeCalls'
  BY <1>1 DEF dbVars, centre, dates, TypeOK, TypeDates, TypeCalls, AllCalls, MemoryCalls
<1>3. count' \in CountType
  BY TimesTyped DEF Reload, ReloadPick, ReloadQuery, ReloadWrite, ReloadQueryFails, Fault, TypeOK, TypeRest
<1>4. reload' \in ReloadType
  <2>1. CASE ReloadPick
    BY <2>1 DEF ReloadPick, TypeOK, TypeRest, ReloadType
  <2>2. CASE ReloadQuery
    <3>1. IsFiniteSet(raw)
      BY FS_Subset DEF TypeOK, TypeCalls, AllCalls
    <3>2. reload.ids \in SUBSET Account
      BY DEF TypeOK, TypeRest, ReloadType
    <3>3. [a \in reload.ids |-> Reckoned(raw, a)] \in Balances
      BY <3>1, <3>2, ReckonedTyped DEF TypeOK
    <3> QED
      BY <2>2, <3>3 DEF ReloadQuery, TypeOK, TypeRest, ReloadType
  <2>3. CASE ReloadQueryFails \/ ReloadWrite
    BY <2>3, IdleTyped DEF ReloadQueryFails, ReloadWrite
  <2> QED
    BY <2>1, <2>2, <2>3 DEF Reload
<1>5. TypeBalances'
  <2>1. CASE ReloadWrite
    <3>1. reload.res \in Balances /\ statsAccount \in Balances
      BY DEF TypeOK, TypeBalances, TypeRest, ReloadType
    <3>2. /\ statsAccount' \in Balances /\ DOMAIN statsAccount' = DOMAIN reload.res \cup DOMAIN statsAccount
          /\ forSync' = forSync \cup DOMAIN reload.res
      BY <2>1, <3>1, OverTyped DEF ReloadWrite
    <3> QED
      BY <1>1, <3>2 DEF dbVars, centre, dates, TypeOK, TypeBalances
  <2>2. CASE ReloadPick \/ ReloadQuery \/ ReloadQueryFails
    BY <2>2 DEF ReloadPick, ReloadQuery, ReloadQueryFails, dbVars, centre, dates, memVars, TypeOK, TypeBalances
  <2> QED
    BY <2>1, <2>2 DEF Reload
<1> QED
  BY <1>2, <1>3, <1>4, <1>5

\* What a sync collects.
LEMMA ChangesTyped ==
  ASSUME TypeOK
  PROVE  /\ getChanges \in Balances
         /\ DOMAIN getChanges = IF needClear THEN DOMAIN statsAccount ELSE forSync
         /\ \A a \in DOMAIN getChanges : getChanges[a] = statsAccount[a]
<1>1. DOMAIN statsAccount \subseteq Account /\ \A a \in DOMAIN statsAccount : statsAccount[a] \in Balance
  BY BalancesDomain DEF TypeOK, TypeBalances
<1>2. forSync \subseteq DOMAIN statsAccount
  BY DEF TypeOK, TypeBalances
<1>3. [a \in forSync |-> statsAccount[a]] \in Balances
  <2>1. [a \in forSync |-> statsAccount[a]] \in [forSync -> Balance] /\ forSync \in SUBSET Account
    BY <1>1, <1>2
  <2> QED
    BY <2>1, BalancesMember
<1> QED
  BY <1>2, <1>3 DEF getChanges, TypeOK, TypeBalances

LEMMA SyncTyped ==
  ASSUME TypeOK, Sync \/ SyncReconnect \/ SyncFails
  PROVE  TypeDates' /\ TypeCalls' /\ TypeBalances' /\ count' \in CountType
<1>1. UNCHANGED <<clientDate, listDate, prevMonth, raw, stored, statsAccount, parts>>
  BY DEF Sync, SyncCollect, SyncSend, SyncReconnect, SyncFails, dbVars, centre, dates, memVars
<1>2. TypeDates' /\ TypeCalls'
  BY <1>1 DEF TypeOK, TypeDates, TypeCalls, AllCalls, MemoryCalls
<1>3. count' \in CountType
  BY TimesTyped DEF Sync, SyncCollect, SyncSend, SyncReconnect, SyncFails, Fault, TypeOK, TypeRest
<1>4. DOMAIN SyncIdle.changes = {}
  BY NoBalancesTyped DEF SyncIdle
<1>5. sync.changes \in Balances /\ Synced \in Balances /\ Over(sync.changes, central) \in Balances
  BY OverTyped DEF TypeOK, TypeBalances, SyncType, Synced
<1>6. DOMAIN sync.changes \subseteq Account /\ lost \in SUBSET Account /\ NoBalances \in Balances
  BY <1>5, BalancesDomain, NoBalancesTyped DEF TypeOK, TypeBalances
<1>7. TypeBalances'
  <2>1. CASE SyncCollect
    <3>1. sync' \in SyncType /\ DOMAIN sync'.changes \subseteq DOMAIN statsAccount
      BY <2>1, <1>4, ChangesTyped, IdleTyped DEF SyncCollect, SyncType, TypeOK, TypeBalances
    <3> QED
      BY <1>1, <2>1, <3>1 DEF SyncCollect, dbVars, centre, dates, TypeOK, TypeBalances
  <2>2. CASE SyncSend \/ SyncReconnect
    BY <1>1, <1>4, <1>5, <1>6, <2>2, IdleTyped DEF SyncSend, SyncReconnect, memVars, TypeOK, TypeBalances
  <2>3. CASE SyncFails
    <3>1. central' \in Balances /\ lost' \in SUBSET Account /\ sync' \in SyncType /\ DOMAIN sync'.changes = {}
      BY <1>4, <1>5, <1>6, <2>3, IdleTyped DEF SyncFails, centre, TypeOK, TypeBalances
    <3>2. forSync' \subseteq DOMAIN statsAccount
      BY <2>3 DEF SyncFails, addChanges, TypeOK, TypeBalances
    <3>3. needClear' \in BOOLEAN
      BY <2>3 DEF SyncFails, addChanges
    <3> QED
      BY <1>1, <3>1, <3>2, <3>3 DEF TypeOK, TypeBalances
  <2> QED
    BY <2>1, <2>2, <2>3 DEF Sync
<1> QED
  BY <1>2, <1>3, <1>7

LEMMA RestartTyped ==
  ASSUME TypeOK, RecalcReload \/ CrashRestart
  PROVE  TypeDates' /\ TypeCalls' /\ TypeBalances' /\ reload' \in ReloadType /\ count' \in CountType
<1>1. TypeDates' /\ reload' \in ReloadType /\ count' \in CountType
  BY TimesTyped, IdleTyped DEF RecalcReload, CrashRestart, Fault, dbVars, centre, dates, TypeOK, TypeDates, TypeRest
<1>2. parts' = <<EmptyPart>> /\ raw' \subseteq AllCalls /\ MemoryCalls' = {}
  BY SaveParts DEF RecalcReload, Loaded, CrashRestart, dbVars, centre, dates, AllCalls
<1>3. IsFiniteSet(raw')
  BY <1>2, FS_Subset DEF TypeOK, TypeCalls
<1>4. TypeCalls'
  <2>1. MemoryCalls \subseteq Call
    <3>1. parts \in Seq(Part)
      BY DEF TypeOK, TypeCalls
    <3>2. \A i \in 1..Len(parts) : parts[i] \in Part
      BY <3>1
    <3> QED
      BY <3>2 DEF MemoryCalls, Part
  <2>2. AllCalls' = raw'
    BY <1>2 DEF AllCalls
  <2> QED
    BY <1>2, <1>3, <2>1, <2>2, IdleTyped DEF TypeOK, TypeCalls, AllCalls
<1>5. TypeBalances'
  <2>1. CASE RecalcReload
    <3>1. stored' = [a \in Account |-> Reckoned(raw', a)]
      BY <2>1 DEF RecalcReload
    <3>2. stored' \in Balances /\ DOMAIN stored' = Account
      BY <1>3, <3>1, ReckonedTyped DEF TypeOK
    <3>3. DOMAIN sync.changes \subseteq Account
      BY BalancesDomain DEF TypeOK, TypeBalances, SyncType
    <3> QED
      BY <2>1, <3>2, <3>3 DEF RecalcReload, Loaded, centre, TypeOK, TypeBalances
  <2>2. CASE CrashRestart
    <3>1. DOMAIN SyncIdle.changes = {}
      BY NoBalancesTyped DEF SyncIdle
    <3> QED
      BY <2>2, <3>1, IdleTyped DEF CrashRestart, dbVars, centre, dates, TypeOK, TypeBalances
  <2> QED
    BY <2>1, <2>2
<1> QED
  BY <1>1, <1>4, <1>5

\* An invoice or a new client list.
LEMMA DatesTyped ==
  ASSUME TypeOK, LoadClients \/ NewMonth \/ (\E a \in Account : Invoice(a))
  PROVE  TypeDates' /\ TypeCalls' /\ TypeBalances' /\ reload' = reload /\ count' \in CountType
<1>1. UNCHANGED <<raw, stored, centre, memVars, parts, reload, sync>>
  BY DEF LoadClients, NewMonth, Invoice, dbVars, centre, dates
<1>2. TypeDates' /\ count' \in CountType
  <2>1. CASE LoadClients
    BY <2>1 DEF LoadClients, dbVars, centre, dates, TypeOK, TypeDates, TypeRest
  <2>2. ASSUME NEW a \in Account, Invoice(a) PROVE TypeDates' /\ count' \in CountType
    BY <2>2, TimesTyped DEF Invoice, dates, TypeOK, TypeDates, TypeRest
  <2>3. CASE NewMonth
    BY <2>3, TimesTyped DEF NewMonth, dbVars, TypeOK, TypeDates, TypeRest
  <2> QED
    BY <2>1, <2>2, <2>3
<1> QED
  BY <1>1, <1>2 DEF centre, memVars, TypeOK, TypeCalls, TypeBalances, AllCalls, MemoryCalls

\* Every variable of the account statistics keeps its type, whatever fails.
THEOREM TypeCorrect == Spec => []TypeOK
<1>1. Init => TypeOK
  <2> SUFFICES ASSUME Init PROVE TypeOK
    OBVIOUS
  <2>1. TypeDates /\ TypeRest
    BY IdleTyped, AccountStatsAssumption DEF Init, TypeDates, TypeRest, CountType
  <2>2. TypeCalls
    <3>1. MemoryCalls = {}
      <4>1. Len(parts) = 1 /\ parts[1] = EmptyPart /\ 1..Len(parts) = {1}
        BY DEF Init
      <4> QED
        BY <4>1, IdleTyped DEF MemoryCalls
    <3> QED
      BY <3>1, IdleTyped, FS_EmptySet DEF Init, TypeCalls, AllCalls
  <2>3. TypeBalances
    BY NoBalancesTyped, IdleTyped DEF Init, TypeBalances, SyncIdle
  <2> QED
    BY <2>1, <2>2, <2>3 DEF TypeOK
<1>2. TypeOK /\ [Next]_<<conf, vars>> => TypeOK'
  <2> SUFFICES ASSUME TypeOK, [Next]_<<conf, vars>> PROVE TypeOK'
    OBVIOUS
  <2>1. CASE UNCHANGED <<conf, vars>>
    BY <2>1 DEF vars, dbVars, centre, dates, memVars, TypeOK, TypeDates, TypeCalls, TypeBalances, TypeRest, AllCalls, MemoryCalls
  <2>2. CASE Next
    <3>1. conf' = conf
      BY <2>2 DEF Next
    <3>2. CASE Runtime
      <4>1. PICK a \in Account, time \in 0..MaxDate : add(a, time)
        BY <3>2 DEF Runtime
      <4>2. time \in Nat
        BY AccountStatsAssumption
      <4>3. reload' = reload
        BY <4>1 DEF add
      <4> QED
        BY <3>1, <4>1, <4>2, <4>3, AddTyped DEF TypeOK, TypeRest
    <3>3. CASE Save
      BY <3>1, <3>3, SaveTyped DEF Save, SaveCut, SaveCommit, TypeOK, TypeRest
    <3>4. CASE Sync \/ SyncReconnect \/ SyncFails
      BY <3>1, <3>4, SyncTyped DEF Sync, SyncCollect, SyncSend, SyncReconnect, SyncFails, TypeOK, TypeRest
    <3>5. CASE \/ Reload \/ ReloadQueryFails \/ RecalcReload \/ CrashRestart
               \/ LoadClients \/ NewMonth \/ (\E a \in Account : Invoice(a))
      BY <3>1, <3>5, ReloadTyped, RestartTyped, DatesTyped DEF TypeOK, TypeRest
    <3> QED
      BY <2>2, <3>2, <3>3, <3>4, <3>5 DEF Next
  <2> QED
    BY <2>1, <2>2
<1> QED
  BY <1>1, <1>2, PTL DEF Spec

-----------------------------------------------------------------------------
(* No change of a balance is forgotten.                                    *)

\* add and reloadSum mark the balances they change.
LEMMA MarksKeepSync ==
  ASSUME TypeOK, SyncInv, "crash" \notin conf.kinds, conf' = conf, NEW marked,
         forSync' = forSync \cup marked, UNCHANGED <<needClear, sync, central, lost>>,
         \A a \in DOMAIN statsAccount' \ marked : a \in DOMAIN statsAccount /\ statsAccount'[a] = statsAccount[a]
  PROVE  SyncInv'
BY DEF SyncInv, SendsLast, NoChangeForgotten

LEMMA SyncStep ==
  ASSUME TypeOK, SyncInv, "crash" \notin conf.kinds, conf' = conf, Sync \/ SyncReconnect \/ SyncFails
  PROVE  SyncInv'
<1> USE DEF SyncInv
<1>1. statsAccount' = statsAccount
  BY DEF Sync, SyncCollect, SyncSend, SyncReconnect, SyncFails, memVars
<1>2. LET sent == Over(sync.changes, central)
      IN  /\ DOMAIN sent = DOMAIN sync.changes \cup DOMAIN central
          /\ \A a \in DOMAIN sync.changes : sent[a] = sync.changes[a]
          /\ \A a \in DOMAIN central \ DOMAIN sync.changes : sent[a] = central[a]
  <2>1. sync.changes \in Balances /\ central \in Balances
    BY DEF TypeOK, TypeBalances, SyncType
  <2> QED
    BY <2>1, OverTyped
<1>3. CASE SyncCollect
  <2>1. UNCHANGED centre /\ sync.pc = "idle" /\ (needClear \/ forSync # {})
    BY <1>3 DEF SyncCollect, dbVars, centre, dates
  <2>2. CASE getChanges = NoBalances
    <3>1. sync'.pc = "idle" /\ (needClear => DOMAIN statsAccount = {}) /\ (~ needClear => forSync = {})
      BY <1>3, <2>2, ChangesTyped, NoBalancesTyped, IdleTyped DEF SyncCollect
    <3> QED
      BY <1>1, <2>1, <3>1 DEF centre, SendsLast, NoChangeForgotten
  <2>3. CASE getChanges # NoBalances
    <3>1. sync' = [pc |-> "send", changes |-> getChanges, clear |-> needClear]
      BY <1>3, <2>3 DEF SyncCollect
    <3>2. \A a \in DOMAIN statsAccount :
            \/ a \in DOMAIN getChanges /\ getChanges[a] = statsAccount[a]
            \/ /\ ~ needClear /\ a \notin DOMAIN getChanges
               /\ a \in lost \/ (a \in DOMAIN central /\ central[a] = statsAccount[a])
      BY <2>1, ChangesTyped DEF NoChangeForgotten
    <3> QED
      BY <1>1, <2>1, <3>1, <3>2 DEF centre, SendsLast, NoChangeForgotten
  <2> QED
    BY <2>2, <2>3
<1>4. CASE SyncSend \/ SyncReconnect
  <2>1. sync.pc = "send" /\ sync'.pc = "idle" /\ UNCHANGED <<forSync, needClear>>
    BY <1>4, IdleTyped DEF SyncSend, SyncReconnect, memVars
  <2>2. \/ /\ lost' = lost \ DOMAIN sync.changes
           /\ \/ sync.clear /\ central' \in {sync.changes, Over(sync.changes, central)}
              \/ ~ sync.clear /\ central' = Over(sync.changes, central)
        \/ sync.clear /\ central' = central /\ lost' = lost \cup DOMAIN sync.changes
    BY <1>4 DEF SyncSend, SyncReconnect, Synced
  <2>3. \A a \in DOMAIN statsAccount :
          \/ needClear \/ a \in forSync \/ a \in lost'
          \/ a \in DOMAIN central' /\ central'[a] = statsAccount[a]
    BY <1>2, <2>1, <2>2 DEF SendsLast
  <2> QED
    BY <1>1, <2>1, <2>3 DEF SendsLast, NoChangeForgotten
<1>5. CASE SyncFails
  <2>1. /\ sync.pc = "send" /\ sync'.pc = "idle"
        /\ forSync' = forSync \cup DOMAIN sync.changes /\ needClear' = (needClear \/ sync.clear)
    BY <1>5, IdleTyped DEF SyncFails, addChanges
  <2>2. ~ sync.clear => /\ central' \in {central, Over(sync.changes, central)}
                         /\ lost' \in {lost, lost \ DOMAIN sync.changes}
    BY <1>5 DEF SyncFails, Synced, centre
  <2>3. \A a \in DOMAIN statsAccount :
          \/ needClear' \/ a \in forSync' \/ a \in lost'
          \/ a \in DOMAIN central' /\ central'[a] = statsAccount[a]
    BY <1>2, <2>1, <2>2 DEF SendsLast
  <2> QED
    BY <1>1, <2>1, <2>3 DEF SendsLast, NoChangeForgotten
<1> QED
  BY <1>3, <1>4, <1>5 DEF Sync

\* No change of a balance is forgotten on its way to the central database,
\* whatever add, reloadSum, recalculations and failing syncs do in between, as
\* long as the daemon does not crash: what the centre does not have is marked, on
\* its way, or was last sent by a full sync whose COMMIT was repeated on a new
\* connection.
THEOREM NoChangeEverForgotten == Spec => []NoChangeForgotten
<1>1. Init => SyncInv
  BY NoBalancesTyped, IdleTyped DEF Init, SyncInv, SendsLast, NoChangeForgotten
<1>2. TypeOK /\ SyncInv /\ [Next]_<<conf, vars>> => SyncInv'
  <2> SUFFICES ASSUME TypeOK, SyncInv, [Next]_<<conf, vars>> PROVE SyncInv'
    OBVIOUS
  <2>1. conf' = conf
    BY DEF Next, vars
  <2>2. CASE "crash" \in conf.kinds
    BY <2>1, <2>2 DEF SyncInv
  <2> SUFFICES ASSUME "crash" \notin conf.kinds PROVE SyncInv'
    BY <2>2
  <2>3. CASE Runtime
    <3>1. PICK a \in Account, time \in 0..MaxDate : add(a, time)
      BY <2>3 DEF Runtime
    <3>2. /\ DOMAIN statsAccount' = {a} \cup DOMAIN statsAccount
          /\ \A x \in DOMAIN statsAccount : x # a => statsAccount'[x] = statsAccount[x]
      <4>1. statsAccount \in Balances /\ Charged(a, time) \in Balance /\ statsAccount' = Put(statsAccount, a, Charged(a, time))
        BY <3>1, KnownTyped DEF add, TypeOK, TypeBalances
      <4> QED
        BY <4>1, PutTyped
    <3>3. forSync' = forSync \cup {a} /\ UNCHANGED <<needClear, sync, central, lost>>
      BY <3>1 DEF add, dbVars, centre, dates
    <3> QED
      BY <2>1, <3>2, <3>3, MarksKeepSync
  <2>4. CASE ReloadWrite
    <3>1. reload.res \in Balances /\ statsAccount \in Balances
      BY DEF TypeOK, TypeBalances, TypeRest, ReloadType
    <3>2. /\ DOMAIN statsAccount' = DOMAIN reload.res \cup DOMAIN statsAccount
          /\ \A x \in DOMAIN statsAccount \ DOMAIN reload.res : statsAccount'[x] = statsAccount[x]
      BY <2>4, <3>1, OverTyped DEF ReloadWrite
    <3>3. forSync' = forSync \cup DOMAIN reload.res /\ UNCHANGED <<needClear, sync, central, lost>>
      BY <2>4 DEF ReloadWrite, dbVars, centre, dates
    <3> QED
      BY <2>1, <3>2, <3>3, MarksKeepSync
  <2>5. CASE Sync \/ SyncReconnect \/ SyncFails
    BY <2>1, <2>5, SyncStep
  <2>6. CASE RecalcReload
    BY <2>6 DEF RecalcReload, Loaded, SyncInv, SendsLast, NoChangeForgotten
  <2>7. CASE CrashRestart
    BY <2>7 DEF CrashRestart, Fault
  <2>8. CASE \/ Save \/ ReloadPick \/ ReloadQuery \/ ReloadQueryFails \/ LoadClients \/ NewMonth
             \/ (\E a \in Account : Invoice(a)) \/ UNCHANGED <<conf, vars>>
    <3>1. UNCHANGED <<statsAccount, forSync, needClear, sync, central, lost>>
      BY <2>8 DEF Save, SaveCut, SaveCommit, ReloadPick, ReloadQuery, ReloadQueryFails, LoadClients, NewMonth, Invoice,
                  vars, dbVars, centre, dates, memVars
    <3> QED
      BY <2>1, <3>1 DEF SyncInv, SendsLast, NoChangeForgotten
  <2> QED
    BY <2>3, <2>4, <2>5, <2>6, <2>7, <2>8 DEF Next, Reload
<1>3. SyncInv => NoChangeForgotten
  BY DEF SyncInv, NoChangeForgotten
<1> QED
  BY <1>1, <1>2, <1>3, TypeCorrect, PTL DEF Spec

-----------------------------------------------------------------------------
(* A settled balance is the sum of its calls.                              *)

\* The partitions in the order in which they are saved.
LEMMA UpToParts ==
  ASSUME TypeOK
  PROVE  /\ 1 \in 1..Len(parts) /\ Len(parts) \in 1..Len(parts)
         /\ Len(parts) = 1 => 1..Len(parts) = {1}
         /\ Len(parts) = 2 => 1..Len(parts) = {1, 2}
         /\ UpTo(1) = raw \cup parts[1].calls
         /\ UpTo(2) = raw \cup parts[1].calls \cup parts[2].calls
         /\ UpTo(Len(parts)) = AllCalls
<1>1. Len(parts) \in {1, 2}
  BY DEF TypeOK, TypeCalls
<1>2. 1..1 = {1} /\ 1..2 = {1, 2}
  OBVIOUS
<1>3. UpTo(1) = raw \cup parts[1].calls /\ UpTo(2) = raw \cup parts[1].calls \cup parts[2].calls
  BY <1>2 DEF UpTo
<1>4. UpTo(Len(parts)) = AllCalls
  BY DEF UpTo, AllCalls, MemoryCalls
<1> QED
  BY <1>1, <1>2, <1>3, <1>4

\* One more call c, and the balance b of its account that counts it.
LEMMA PutCounts ==
  ASSUME NEW f \in Balances, NEW a \in Account, NEW b \in Balance, NEW c, c.account = a,
         NEW calls, NEW own, Counts(f, calls), Dated(f), Holds(f, own), b.amount_date <= listDate[a],
         Whole(a) /\ b.amount_date = clientDate[a] => b.sum = SumFrom(calls \cup {c}, a, clientDate[a])
  PROVE  LET g == Put(f, a, b) IN Counts(g, calls \cup {c}) /\ Dated(g) /\ Holds(g, own \cup {c})
<1> DEFINE g == Put(f, a, b)
<1>1. /\ DOMAIN g = {a} \cup DOMAIN f /\ g[a] = b
      /\ \A x \in DOMAIN f : x # a => g[x] = f[x]
  BY PutTyped
<1> HIDE DEF g
<1>2. ASSUME NEW x \in DOMAIN f, x # a
      PROVE  SumFrom(calls \cup {c}, x, clientDate[x]) = SumFrom(calls, x, clientDate[x])
  <2>1. calls \subseteq calls \cup {c} /\ \A y \in (calls \cup {c}) \ calls : y.account # x
    BY <1>2
  <2> QED
    BY <2>1, SumOthers
<1>3. Counts(g, calls \cup {c})
  BY <1>1, <1>2 DEF Counts
<1>4. Dated(g) /\ Holds(g, own \cup {c})
  BY <1>1 DEF Dated, Holds
<1> QED
  BY <1>3, <1>4 DEF g

\* Balances written over others, when the calls between them are theirs.
LEMMA OverCounts ==
  ASSUME NEW f \in Balances, NEW g \in Balances, NEW calls, NEW more,
         Counts(f, calls \cup more), Dated(f), Holds(f, more), Counts(g, calls), Dated(g), Holds(g, calls)
  PROVE  LET h == Over(f, g) IN Counts(h, calls \cup more) /\ Dated(h) /\ Holds(h, calls \cup more)
<1> DEFINE h == Over(f, g)
<1>1. /\ DOMAIN h = DOMAIN f \cup DOMAIN g
      /\ \A x \in DOMAIN f : h[x] = f[x]
      /\ \A x \in DOMAIN g \ DOMAIN f : h[x] = g[x]
  BY OverTyped
<1> HIDE DEF h
<1>2. \A x \in DOMAIN g \ DOMAIN f : SumFrom(calls \cup more, x, clientDate[x]) = SumFrom(calls, x, clientDate[x])
  <2> SUFFICES ASSUME NEW x \in DOMAIN g \ DOMAIN f
               PROVE  SumFrom(calls \cup more, x, clientDate[x]) = SumFrom(calls, x, clientDate[x])
    OBVIOUS
  <2>1. calls \subseteq calls \cup more /\ \A c \in (calls \cup more) \ calls : c.account # x
    BY DEF Holds
  <2> QED
    BY <2>1, SumOthers
<1>3. Counts(h, calls \cup more)
  BY <1>1, <1>2 DEF Counts
<1>4. Dated(h) /\ Holds(h, calls \cup more)
  BY <1>1 DEF Dated, Holds
<1> QED
  BY <1>3, <1>4 DEF h

LEMMA NoBalancesCount ==
  ASSUME NEW calls
  PROVE  Counts(NoBalances, calls) /\ Dated(NoBalances) /\ Holds(NoBalances, {})
BY NoBalancesTyped DEF Counts, Dated, Holds

\* The balance add leaves counts the call it adds.
LEMMA ChargedCounts ==
  ASSUME TypeOK, BInv, Apart, NEW a \in Account, NEW time \in Nat,
         NEW c, c \notin AllCalls, c.account = a, c.time = time
  PROVE  LET b == Charged(a, time) IN
           /\ b \in Balance /\ b.amount_date <= listDate[a]
           /\ Whole(a) /\ b.amount_date = clientDate[a] => b.sum = SumFrom(AllCalls \cup {c}, a, clientDate[a])
<1>1. /\ listDate[a] \in Nat /\ clientDate[a] \in Nat /\ listDate[a] <= clientDate[a]
      /\ MemoryCounts
  BY DEF BInv, ListsFollow, TypeOK, TypeDates
<1>2. /\ Known(a).amount_date <= listDate[a]
      /\ Whole(a) /\ Known(a).amount_date = clientDate[a] => Known(a).sum = SumFrom(AllCalls, a, clientDate[a])
  <2>1. CASE a \in DOMAIN statsAccount
    BY <1>1, <2>1 DEF MemoryCounts, Counts, Dated, Known
  <2>2. CASE a \notin DOMAIN statsAccount
    <3>1. \A x \in AllCalls : x.account # a
      BY <1>1, <2>2 DEF MemoryCounts, Holds
    <3>2. {x \in AllCalls : x.account = a /\ x.time >= clientDate[a]} = {}
      BY <3>1
    <3>3. SumFrom(AllCalls, a, clientDate[a]) = 0
      BY <3>2, FS_EmptySet DEF SumFrom
    <3> QED
      BY <1>1, <2>2, <3>3 DEF Known
  <2> QED
    BY <2>1, <2>2
<1>3. SumFrom(AllCalls \cup {c}, a, clientDate[a]) =
        SumFrom(AllCalls, a, clientDate[a]) + (IF c.account = a /\ c.time >= clientDate[a] THEN 1 ELSE 0)
  <2>1. IsFiniteSet(AllCalls)
    BY DEF TypeOK, TypeCalls
  <2> QED
    BY <2>1, SumAdd
<1>4. /\ Charged(a, time) \in Balance /\ Known(a) \in Balance
      /\ Charged(a, time).amount_date = Known(a).amount_date
      /\ Charged(a, time).sum = Known(a).sum + (IF time >= listDate[a] THEN 1 ELSE 0)
  BY KnownTyped
<1>5. Known(a).amount_date \in Nat
  BY <1>4 DEF Balance
<1> QED
  BY <1>1, <1>2, <1>3, <1>4, <1>5

LEMMA AddCounts ==
  ASSUME TypeOK, BInv, Apart, conf' = conf, NEW a \in Account, NEW time \in Nat, add(a, time)
  PROVE  BInv'
<1> DEFINE c == [id |-> count.calls + 1, account |-> a, time |-> time]
           b == Charged(a, time)
<1>0. PICK n \in {1, 2} : n = Len(parts)
  BY DEF TypeOK, TypeCalls
<1>1. /\ UNCHANGED <<clientDate, prevMonth, raw, stored, listDate, reload>> /\ count'.recalcs = count.recalcs
      /\ statsAccount' = Put(statsAccount, a, b)
  BY DEF add, Times, dbVars, centre, dates, TypeOK, TypeRest, CountType
<1>2. /\ Len(parts') = n /\ n \in 1..n
      /\ \A i \in 1..n : i # n => parts'[i] = parts[i]
      /\ parts'[n].calls = parts[n].calls \cup {c}
      /\ parts'[n].stats = Put(parts[n].stats, a, b)
      /\ parts[n].stats \in Balances
      /\ AllCalls' = AllCalls \cup {c}
  BY <1>0, <1>1, AddParts DEF AllCalls, Part
<1>3. c.account = a /\ c.time = time /\ c.id = count.calls + 1
  OBVIOUS
<1>4. count'.calls = count.calls + 1 /\ count.calls \in Nat
  BY TimesTyped DEF add, TypeOK, TypeRest, CountType
<1> HIDE DEF c
<1>5. c \notin AllCalls
  BY <1>3, <1>4 DEF BInv, IdsUsed
<1>6. /\ b \in Balance /\ b.amount_date <= listDate[a]
      /\ Whole(a) /\ b.amount_date = clientDate[a] => b.sum = SumFrom(AllCalls \cup {c}, a, clientDate[a])
  BY <1>3, <1>5, ChargedCounts
<1> HIDE DEF b
<1>7. IdsUsed'
  <2>1. \A x \in AllCalls : x.id \in Nat
    <3>1. \A i \in 1..Len(parts) : parts[i] \in Part
      <4>1. parts \in Seq(Part)
        BY DEF TypeOK, TypeCalls
      <4> QED
        BY <4>1
    <3>2. MemoryCalls \subseteq Call
      BY <3>1 DEF MemoryCalls, Part
    <3>3. raw \subseteq Call
      BY DEF TypeOK, TypeCalls
    <3> QED
      BY <3>2, <3>3 DEF AllCalls, Call
  <2> QED
    BY <1>2, <1>3, <1>4, <2>1 DEF BInv, IdsUsed
<1>8. MemoryCounts'
  <2>1. /\ Counts(statsAccount', AllCalls') /\ Dated(statsAccount') /\ Holds(statsAccount', AllCalls')
    <3>1. statsAccount \in Balances /\ MemoryCounts
      BY DEF TypeOK, TypeBalances, BInv
    <3> QED
      BY <1>1, <1>2, <1>3, <1>6, <3>1, PutCounts DEF MemoryCounts
  <2> QED
    BY <1>1, <2>1 DEF MemoryCounts, Counts, Whole, Dated, Holds
<1>9. StoredCounts'
  BY <1>1 DEF BInv, StoredCounts, Counts, Whole, Dated, Holds
<1>10. PartsCount'
  <2>1. UpTo(n)' = UpTo(n) \cup {c} /\ UpTo(n) = AllCalls
    <3>1. UpTo(n)' = AllCalls'
      BY <1>2 DEF UpTo, AllCalls, MemoryCalls
    <3> QED
      BY <1>0, <1>2, <3>1, UpToParts
  <2>2. \A i \in 1..n : i # n => UpTo(i)' = UpTo(i)
    <3> SUFFICES ASSUME NEW i \in 1..n, i # n PROVE UpTo(i)' = UpTo(i)
      OBVIOUS
    <3>1. \A j \in 1..i : parts'[j] = parts[j]
      BY <1>2
    <3> QED
      BY <1>1, <3>1 DEF UpTo
  <2>3. \A i \in 1..n : Counts(parts[i].stats, UpTo(i)) /\ Dated(parts[i].stats) /\ Holds(parts[i].stats, parts[i].calls)
    BY <1>0 DEF BInv, PartsCount
  <2>4. LET p == parts'[n] IN Counts(p.stats, UpTo(n) \cup {c}) /\ Dated(p.stats) /\ Holds(p.stats, p.calls)
    <3>1. LET g == Put(parts[n].stats, a, b)
          IN  Counts(g, UpTo(n) \cup {c}) /\ Dated(g) /\ Holds(g, parts[n].calls \cup {c})
      <4>1. Counts(parts[n].stats, UpTo(n)) /\ Dated(parts[n].stats) /\ Holds(parts[n].stats, parts[n].calls)
        BY <1>2, <2>3
      <4>2. Whole(a) /\ b.amount_date = clientDate[a] => b.sum = SumFrom(UpTo(n) \cup {c}, a, clientDate[a])
        BY <1>6, <2>1
      <4> QED
        BY <1>2, <1>3, <1>6, <4>1, <4>2, PutCounts
    <3> QED
      BY <1>2, <3>1
  <2>5. ASSUME NEW i \in 1..n
        PROVE  (Counts(parts[i].stats, UpTo(i)) /\ Dated(parts[i].stats) /\ Holds(parts[i].stats, parts[i].calls))'
    <3>1. CASE i = n
      BY <1>1, <2>1, <2>4, <3>1 DEF Counts, Whole, Dated, Holds
    <3>2. CASE i # n
      BY <1>1, <1>2, <2>2, <2>3, <3>2 DEF Counts, Whole, Dated, Holds
    <3> QED
      BY <3>1, <3>2
  <2> QED
    BY <1>2, <2>5 DEF PartsCount
<1> QED
  BY <1>1, <1>7, <1>8, <1>9, <1>10 DEF BInv, ListsFollow

LEMMA SaveCounts ==
  ASSUME TypeOK, BInv, Apart, conf' = conf, Save
  PROVE  BInv'
<1>1. UNCHANGED <<clientDate, prevMonth, listDate, reload, statsAccount, count>>
  BY DEF Save, SaveCut, SaveCommit, dbVars, centre, dates, memVars
<1>2. ListsFollow /\ IdsUsed /\ MemoryCounts /\ StoredCounts /\ PartsCount
  BY DEF BInv
<1>3. CASE SaveCut
  <2>1. /\ Len(parts) = 1 /\ Len(parts') = 2 /\ parts'[1] = parts[1] /\ parts'[2] = EmptyPart
        /\ raw' = raw /\ stored' = stored /\ AllCalls' = AllCalls
    BY <1>3, SaveParts DEF SaveCut, AllCalls, dbVars, centre, dates
  <2>2. /\ UpTo(1)' = UpTo(1) /\ 1 \in 1..Len(parts)
        /\ \A i \in 1..Len(parts') : i \in {1, 2}
    <3>1. 1..1 = {1}
      OBVIOUS
    <3> QED
      BY <2>1, <3>1 DEF UpTo
  <2>3. LET p == parts[1] IN Counts(p.stats, UpTo(1)) /\ Dated(p.stats) /\ Holds(p.stats, p.calls)
    BY <1>2, <2>2 DEF PartsCount
  <2>4. PartsCount'
    <3>1. (Counts(parts[1].stats, UpTo(1)) /\ Dated(parts[1].stats) /\ Holds(parts[1].stats, parts[1].calls))'
      BY <1>1, <2>1, <2>2, <2>3 DEF Counts, Whole, Dated, Holds
    <3>2. (Counts(parts[2].stats, UpTo(2)) /\ Dated(parts[2].stats) /\ Holds(parts[2].stats, parts[2].calls))'
      BY <2>1, NoBalancesTyped, IdleTyped DEF Counts, Whole, Dated, Holds
    <3> QED
      BY <2>2, <3>1, <3>2 DEF PartsCount
  <2>5. MemoryCounts' /\ StoredCounts' /\ IdsUsed' /\ ListsFollow'
    BY <1>1, <1>2, <2>1 DEF MemoryCounts, StoredCounts, IdsUsed, ListsFollow, Counts, Whole, Dated, Holds
  <2> QED
    BY <1>1, <2>4, <2>5 DEF BInv
<1>4. CASE SaveCommit
  <2>1. /\ Len(parts) = 2 /\ Len(parts') = 1 /\ parts'[1] = parts[2] /\ parts[1].stats \in Balances
        /\ raw' = raw \cup parts[1].calls /\ stored' = Over(parts[1].stats, stored) /\ AllCalls' = AllCalls
    BY <1>4, SaveParts DEF SaveCommit, AllCalls, Part
  <2>2. /\ UpTo(1) = raw' /\ UpTo(1)' = UpTo(2)
        /\ 1..Len(parts) = {1, 2} /\ 1..Len(parts') = {1}
    <3>1. 1..1 = {1} /\ 1..2 = {1, 2}
      OBVIOUS
    <3>2. UpTo(1)' = raw' \cup parts'[1].calls
      BY <3>1 DEF UpTo
    <3> QED
      BY <2>1, <3>1, <3>2, UpToParts
  <2>3. /\ LET p == parts[1] IN Counts(p.stats, UpTo(1)) /\ Dated(p.stats) /\ Holds(p.stats, p.calls)
        /\ LET p == parts[2] IN Counts(p.stats, UpTo(2)) /\ Dated(p.stats) /\ Holds(p.stats, p.calls)
    BY <1>2, <2>2 DEF PartsCount
  <2>4. PartsCount'
    <3>1. (Counts(parts[1].stats, UpTo(1)) /\ Dated(parts[1].stats) /\ Holds(parts[1].stats, parts[1].calls))'
      BY <1>1, <2>1, <2>2, <2>3 DEF Counts, Whole, Dated, Holds
    <3> QED
      BY <2>2, <3>1 DEF PartsCount
  <2>5. StoredCounts'
    <3>1. Counts(stored', raw') /\ Dated(stored') /\ Holds(stored', raw')
      <4>1. stored \in Balances /\ Counts(stored, raw) /\ Dated(stored) /\ Holds(stored, raw)
        BY <1>2 DEF StoredCounts, TypeOK, TypeBalances
      <4>2. LET p == parts[1] IN Counts(p.stats, raw \cup p.calls) /\ Dated(p.stats) /\ Holds(p.stats, p.calls)
        BY <2>1, <2>2, <2>3
      <4> QED
        BY <2>1, <4>1, <4>2, OverCounts
    <3> QED
      BY <1>1, <3>1 DEF StoredCounts, Counts, Whole, Dated, Holds
  <2>6. MemoryCounts' /\ IdsUsed' /\ ListsFollow'
    BY <1>1, <1>2, <2>1 DEF MemoryCounts, IdsUsed, ListsFollow, Counts, Whole, Dated, Holds
  <2> QED
    BY <1>1, <2>4, <2>5, <2>6 DEF BInv
<1> QED
  BY <1>3, <1>4 DEF Save

\* An invoice leaves no balance with the current amount_date; a new client
\* list is ahead of every balance.
LEMMA DatesCount ==
  ASSUME TypeOK, BInv, Apart, conf' = conf, LoadClients \/ NewMonth \/ (\E a \in Account : Invoice(a))
  PROVE  BInv'
<1>1. UNCHANGED <<raw, stored, statsAccount, parts, reload>> /\ count'.calls = count.calls
  BY DEF LoadClients, NewMonth, Invoice, Times, dbVars, centre, dates, memVars, TypeOK, TypeRest, CountType
<1>2. AllCalls' = AllCalls /\ \A i \in Nat : UpTo(i)' = UpTo(i)
  BY <1>1 DEF AllCalls, MemoryCalls, UpTo
<1>3. /\ ListsFollow' /\ (conf.invoices = 0 => listDate' = clientDate')
      /\ \A a \in Account : listDate[a] <= listDate'[a]
      /\ \A a \in Account : clientDate'[a] = clientDate[a] \/ listDate[a] < clientDate'[a]
  <2>1. clientDate \in [Account -> Nat] /\ listDate \in [Account -> Nat] /\ ListsFollow
    BY DEF BInv, TypeOK, TypeDates
  <2>2. CASE LoadClients
    BY <2>1, <2>2 DEF LoadClients, ListsFollow, dbVars, centre, dates
  <2>3. CASE \E a \in Account : Invoice(a)
    <3>1. conf.invoices # 0
      BY <2>3, AccountStatsAssumption DEF Invoice, Times, TypeOK, TypeRest, CountType
    <3> QED
      BY <2>1, <2>3, <3>1 DEF Invoice, dates, ListsFollow
  <2>4. CASE NewMonth
    BY <2>1, <2>4 DEF NewMonth, ListsFollow, dbVars, BInv
  <2> QED
    BY <2>2, <2>3, <2>4
<1>4. \A a \in Account : Whole(a)' /\ clientDate'[a] = clientDate[a] => Whole(a)
  <2>1. clientDate \in [Account -> Nat] /\ prevMonth \in Nat /\ prevMonth' \in Nat /\ prevMonth <= prevMonth'
    BY DEF LoadClients, NewMonth, Invoice, dates, TypeOK, TypeDates
  <2>2. count'.recalcs = count.recalcs
    BY DEF LoadClients, NewMonth, Invoice, Times, TypeOK, TypeRest, CountType
  <2> QED
    BY <2>1, <2>2 DEF Whole
<1>5. ASSUME NEW f \in Balances, NEW calls, Counts(f, calls), Dated(f)
      PROVE  /\ \A a \in DOMAIN f : f[a].amount_date <= listDate'[a]
             /\ \A a \in DOMAIN f : Whole(a)' /\ f[a].amount_date = clientDate'[a] => f[a].sum = SumFrom(calls, a, clientDate'[a])
  <2>1. ASSUME NEW a \in DOMAIN f
        PROVE  /\ a \in Account /\ f[a].amount_date \in Nat /\ listDate[a] \in Nat /\ listDate'[a] \in Nat
               /\ clientDate'[a] \in Nat
    BY BalancesDomain, DatesTyped DEF Balance, TypeOK, TypeDates
  <2> QED
    BY <1>3, <1>5, <1>4, <2>1 DEF Counts, Dated
<1>6. MemoryCounts' /\ StoredCounts'
  <2>1. statsAccount \in Balances /\ stored \in Balances /\ MemoryCounts /\ StoredCounts
    BY DEF BInv, TypeOK, TypeBalances
  <2> QED
    BY <1>1, <1>2, <1>5, <2>1 DEF MemoryCounts, StoredCounts, Counts, Whole, Dated, Holds
<1>7. PartsCount'
  <2>1. parts \in Seq(Part) /\ PartsCount
    BY DEF BInv, TypeOK, TypeCalls
  <2>2. ASSUME NEW i \in 1..Len(parts)
        PROVE  (Counts(parts[i].stats, UpTo(i)) /\ Dated(parts[i].stats) /\ Holds(parts[i].stats, parts[i].calls))'
    <3>1. parts[i] \in Part /\ i \in Nat
      BY <2>1
    <3>2. parts[i].stats \in Balances
      BY <3>1 DEF Part
    <3>3. Counts(parts[i].stats, UpTo(i)) /\ Dated(parts[i].stats) /\ Holds(parts[i].stats, parts[i].calls)
      BY <2>1 DEF PartsCount
    <3> QED
      BY <1>1, <1>2, <1>5, <3>1, <3>2, <3>3 DEF Counts, Whole, Dated, Holds
  <2> QED
    BY <1>1, <2>2 DEF PartsCount
<1>8. IdsUsed'
  BY <1>1, <1>2 DEF BInv, IdsUsed
<1> QED
  BY <1>1, <1>3, <1>6, <1>7, <1>8 DEF BInv

\* A recalculation and a restart leave empty partitions and balances that count
\* what is in calls_raw.
LEMMA RestartCounts ==
  ASSUME TypeOK, BInv, Apart, conf' = conf, RecalcReload \/ CrashRestart
  PROVE  BInv'
<1>1. /\ parts' = <<EmptyPart>> /\ clientDate' = clientDate /\ statsAccount' = stored'
      /\ raw' \subseteq AllCalls /\ MemoryCalls' = {} /\ count'.calls = count.calls
  BY SaveParts DEF RecalcReload, Loaded, CrashRestart, Fault, Times, dbVars, centre, dates, AllCalls, TypeOK, TypeRest, CountType
<1>2. AllCalls' = raw' /\ IdsUsed'
  BY <1>1 DEF AllCalls, BInv, IdsUsed
<1>3. PartsCount'
  <2>1. Len(parts') = 1 /\ parts'[1] = EmptyPart /\ 1..Len(parts') = {1}
    BY <1>1
  <2> QED
    BY <2>1, NoBalancesTyped, IdleTyped DEF PartsCount, Counts, Whole, Dated, Holds
<1>4. /\ clientDate \in [Account -> Nat] /\ listDate \in [Account -> Nat]
      /\ stored \in Balances /\ ListsFollow /\ StoredCounts
  BY DEF TypeOK, TypeDates, TypeBalances, BInv
<1>5. listDate' = clientDate' /\ StoredCounts' /\ reload' = ReloadIdle
  <2>1. CASE RecalcReload
    <3>1. conf.recalcs # 0
      BY <2>1, AccountStatsAssumption DEF RecalcReload, Times, TypeOK, TypeRest, CountType
    <3>2. listDate = clientDate /\ listDate' = listDate /\ reload' = reload /\ reload = ReloadIdle
      BY <2>1, <3>1 DEF RecalcReload, dates, BInv, Apart
    <3>3. stored' = [a \in Account |-> Reckoned(raw', a)]
      BY <2>1 DEF RecalcReload
    <3>4. \A c \in raw' : c.account \in Account
      <4>1. TypeCalls'
        BY RestartTyped
      <4> QED
        BY <4>1 DEF TypeCalls, Call
    <3>5. /\ DOMAIN stored' = Account
          /\ \A a \in Account :
               /\ prevMonth <= clientDate[a] => stored'[a].sum = SumFrom(raw', a, clientDate[a])
               /\ stored'[a].amount_date = clientDate[a]
      BY <1>4, <3>3 DEF Reckoned, TypeOK, TypeDates
    <3>9. prevMonth' = prevMonth /\ count'.recalcs # 0
      BY <2>1 DEF RecalcReload, Times, dates, TypeOK, TypeRest, CountType
    <3>6. Counts(stored, raw)'
      BY <1>1, <3>5, <3>9 DEF Counts, Whole
    <3>7. Dated(stored)'
      BY <1>1, <1>4, <3>2, <3>5 DEF Dated
    <3>8. Holds(stored, raw)'
      BY <3>4, <3>5 DEF Holds
    <3> QED
      BY <1>1, <3>2, <3>6, <3>7, <3>8 DEF StoredCounts
  <2>2. CASE CrashRestart
    <3>1. /\ listDate' = clientDate /\ stored' = stored /\ raw' = raw /\ reload' = ReloadIdle
          /\ prevMonth' = prevMonth /\ count'.recalcs = count.recalcs
      BY <2>2 DEF CrashRestart, Fault, Times, dbVars, centre, dates, TypeOK, TypeRest, CountType
    <3>2. \A a \in DOMAIN stored : a \in Account /\ stored[a].amount_date \in Nat
      BY <1>4, BalancesDomain DEF Balance
    <3>3. \A a \in DOMAIN stored : stored[a].amount_date <= clientDate[a]
      BY <1>4, <3>2 DEF StoredCounts, Dated, ListsFollow
    <3> QED
      BY <1>1, <1>4, <3>1, <3>3 DEF StoredCounts, Counts, Whole, Dated, Holds
  <2> QED
    BY <2>1, <2>2
<1>6. ListsFollow'
  BY <1>1, <1>4, <1>5 DEF ListsFollow
<1>7. MemoryCounts'
  BY <1>1, <1>2, <1>5 DEF MemoryCounts, StoredCounts
<1> QED
  BY <1>2, <1>3, <1>5, <1>6, <1>7 DEF BInv

\* A settled account has no calls in memory, so its balance counts calls_raw.
LEMMA SettledCounts ==
  ASSUME TypeOK, BInv
  PROVE  BalanceWithoutReload
<1> SUFFICES ASSUME Apart, NEW a \in Account, Settled(a), Whole(a)
             PROVE  statsAccount[a].sum = SumFrom(raw, a, clientDate[a])
  BY DEF BalanceWithoutReload, SumsItsCalls, Apart
<1>1. raw \subseteq AllCalls /\ \A c \in AllCalls \ raw : c.account # a
  BY DEF Settled, AllCalls
<1>2. SumFrom(AllCalls, a, clientDate[a]) = SumFrom(raw, a, clientDate[a])
  BY <1>1, SumOthers
<1> QED
  BY <1>2 DEF Settled, BInv, MemoryCounts, Counts

\* Without the thread account_balance_recalc, and with no recalculation that
\* meets an invoice, a settled balance is the sum of its calls in calls_raw,
\* across saves, restarts, recalculations or invoices, and turns of the month;
\* left out are the accounts whose invoice is older than the previous month once
\* a recalculation has run, whose earlier calls recalc does not look at.
THEOREM BalanceCorrectWithoutReload == Spec => []BalanceWithoutReload
<1>1. Init => BInv
  <2> SUFFICES ASSUME Init PROVE BInv
    OBVIOUS
  <2>1. Len(parts) = 1 /\ parts[1] = EmptyPart /\ 1..Len(parts) = {1}
    BY DEF Init
  <2>2. MemoryCalls = {} /\ AllCalls = {}
    BY <2>1, IdleTyped DEF MemoryCalls, AllCalls, Init
  <2>3. ListsFollow /\ IdsUsed
    BY <2>2, AccountStatsAssumption DEF Init, ListsFollow, IdsUsed
  <2>4. MemoryCounts /\ StoredCounts
    BY <2>2, NoBalancesCount DEF Init, MemoryCounts, StoredCounts
  <2>5. PartsCount
    BY <2>1, NoBalancesCount, IdleTyped DEF PartsCount
  <2> QED
    BY <2>3, <2>4, <2>5 DEF Init, BInv
<1>2. TypeOK /\ BInv /\ [Next]_<<conf, vars>> => BInv'
  <2> SUFFICES ASSUME TypeOK, BInv, [Next]_<<conf, vars>> PROVE BInv'
    OBVIOUS
  <2>1. conf' = conf
    BY DEF Next, vars
  <2>2. CASE ~ Apart
    BY <2>1, <2>2 DEF BInv, Apart
  <2> SUFFICES ASSUME Apart PROVE BInv'
    BY <2>2
  <2>3. CASE Runtime
    <3>1. PICK a \in Account, time \in 0..MaxDate : add(a, time)
      BY <2>3 DEF Runtime
    <3>2. time \in Nat
      BY AccountStatsAssumption
    <3> QED
      BY <2>1, <3>1, <3>2, AddCounts
  <2>4. CASE Save
    BY <2>1, <2>4, SaveCounts
  <2>5. CASE LoadClients \/ NewMonth \/ (\E a \in Account : Invoice(a))
    BY <2>1, <2>5, DatesCount
  <2>6. CASE RecalcReload \/ CrashRestart
    BY <2>1, <2>6, RestartCounts
  <2>7. CASE Reload \/ ReloadQueryFails
    <3>1. "account_balance_recalc" \in conf.skip_threads /\ reload.pc = "idle"
      BY DEF Apart, BInv, ReloadIdle
    <3> QED
      BY <2>7, <3>1 DEF Reload, ReloadPick, ReloadQuery, ReloadWrite, ReloadQueryFails
  <2>8. CASE Sync \/ SyncReconnect \/ SyncFails \/ UNCHANGED <<conf, vars>>
    <3>1. /\ UNCHANGED <<clientDate, prevMonth, listDate, raw, stored, statsAccount, parts, reload>>
          /\ count'.calls = count.calls /\ count'.recalcs = count.recalcs
      BY <2>8 DEF Sync, SyncCollect, SyncSend, SyncReconnect, SyncFails, Fault, Times, vars, dbVars, centre, dates, memVars,
                  TypeOK, TypeRest, CountType
    <3>2. AllCalls' = AllCalls /\ \A i \in Nat : UpTo(i)' = UpTo(i)
      BY <3>1 DEF AllCalls, MemoryCalls, UpTo
    <3>3. PartsCount'
      <4>1. \A i \in 1..Len(parts) : UpTo(i)' = UpTo(i)
        BY <3>1 DEF UpTo
      <4> QED
        BY <3>1, <4>1 DEF BInv, PartsCount, Counts, Whole, Dated, Holds
    <3> QED
      BY <2>1, <3>1, <3>2, <3>3 DEF BInv, ListsFollow, IdsUsed, MemoryCounts, StoredCounts, Counts, Whole, Dated, Holds
  <2> QED
    BY <2>3, <2>4, <2>5, <2>6, <2>7, <2>8 DEF Next
<1>3. TypeOK /\ BInv => BalanceWithoutReload
  BY SettledCounts
<1> QED
  BY <1>1, <1>2, <1>3, TypeCorrect, PTL DEF Spec
=============================================================================
