---------------------------- MODULE ClientLocks ----------------------------
(***************************************************************************)
(* ClientLockCounter and the threads that share it: "client_lock" decides  *)
(* which clients are locked and pushes them, "sync_locks" sends what       *)
(* changed to billing.clients_locks of the central database, the web page  *)
(* of a client reads it, and a recalculation task replaces it.             *)
(*                                                                         *)
(* The five flags of a ClientLockObj are one value; Free stands for the    *)
(* object with no flag set, which counter[id] creates when it is read and  *)
(* which push never stores.  The markers of changes are compared only with *)
(* the marker of the last getChanges, so a change is either fresh (later   *)
(* than that) or not.                                                      *)
(***************************************************************************)
EXTENDS Naturals, FiniteSets, Maps

CONSTANTS
  Account,       \* the ids of the active clients
  Lock,          \* the values of a lock with some flag set
  Free,          \* the ClientLockObj with no flag set
  MaxDecisions,  \* bound: changes of which clients must be locked
  MaxPageViews,  \* bound: views of a client's page
  MaxReloads,    \* bound: recalculation tasks and restarts
  FaultKinds,    \* the kinds of fault that may happen
  MaxFaults      \* bound: faults in one behaviour

ASSUME ClientLocksAssumption ==
  /\ Account \subseteq Nat \ {0}
  /\ Free \notin Lock
  /\ {MaxDecisions, MaxPageViews, MaxReloads, MaxFaults} \subseteq Nat
  /\ FaultKinds \subseteq {"outage", "reconnect", "lostReply"}

VARIABLES
  due,            \* the locks needLockLocal and needLockGlobal call for
  counter,        \* ClientLockCounter::counter
  changes,        \* the keys of ClientLockCounter::changes
  fresh,          \* those with a marker later than that of the last getChanges
  needTotalSync,  \* ClientLockCounter::needTotalSync
  locker,         \* ThreadClientLock::run: where it is and what it holds
  sync,           \* ThreadSyncLocks::save_client_locks: the same
  central,        \* billing.clients_locks, this region's rows
  lost,           \* history: the keys whose rows a repeated COMMIT left out of it,
                  \*   and that have not been sent since
  count           \* how often each bounded thing has happened

counterVars == <<counter, changes, fresh, needTotalSync>>
centre == <<central, lost>>
vars == <<due, counterVars, locker, sync, centre, count>>

\* Keys: the clients, and 0 for an int that is no client's id.
Key == Account \cup {0}
Locks(keys, values) == UNION {[S -> values] : S \in SUBSET keys}
NoLocks == [a \in {} |-> Free]

LockerIdle == [pc |-> "idle", locks |-> NoLocks, orphan |-> FALSE]
SyncIdle == [pc |-> "idle", todo |-> {}, rows |-> NoLocks, total |-> FALSE]

Without(f, keys) == [a \in DOMAIN f \ keys |-> f[a]]

Times(what, max) == count[what] < max /\ count' = [count EXCEPT ![what] = @ + 1]
Fault(kind) == kind \in FaultKinds /\ Times("faults", MaxFaults)

-----------------------------------------------------------------------------
(* Balances, limits and settings change which clients must be locked.      *)

Decide(a) ==
  /\ Times("decisions", MaxDecisions)
  /\ \/ \E l \in Lock : due' = Put(due, a, l)
     \/ due' = Without(due, {a})
  /\ due' # due
  /\ UNCHANGED <<counterVars, locker, sync, centre>>

-----------------------------------------------------------------------------
(* Thread "client_lock".                                                   *)

\* run takes hold of the counter object, then collects the locks.
LockerCollect ==
  /\ locker.pc = "idle"
  /\ locker' = [pc |-> "push", locks |-> due, orphan |-> FALSE]
  /\ UNCHANGED <<due, counterVars, sync, centre, count>>

\* What push finds to be different, and what it erases.
ChangedIfAbsent(locks) == DOMAIN locks \ DOMAIN counter  \* mutant: values are not compared
Changed(locks) == {a \in DOMAIN locks : a \notin DOMAIN counter \/ counter[a] # locks[a]}
Erased(locks)  == DOMAIN counter \ DOMAIN locks

\* After "counter.erase(it++)" the iterator stands on the next key, and that
\* key is recorded as changed.  Behind the last key the read is undefined: the
\* int found there is the key stray.
Recorded(locks, stray) ==
  LET keys == DOMAIN counter \cup DOMAIN locks
      next(e) == {k \in keys : k > e /\ \A j \in keys : j > e => k <= j}
  IN  UNION {IF next(e) = {} THEN {stray} ELSE next(e) : e \in Erased(locks)}

push(locks) ==
  \E stray \in Key :
    LET recorded == Changed(locks) \cup Recorded(locks, stray) IN
    /\ counter' = locks
    /\ changes' = changes \cup recorded
    /\ fresh' = fresh \cup recorded
    /\ needTotalSync' = (needTotalSync \/ Erased(locks) # {})

LockerPush ==
  /\ locker.pc = "push"
  /\ IF locker.orphan THEN UNCHANGED counterVars ELSE push(locker.locks)
  /\ locker' = LockerIdle
  /\ UNCHANGED <<due, sync, centre, count>>

-----------------------------------------------------------------------------
(* Reading the counter creates the object that is not there.               *)

Get(a) == IF a \in DOMAIN counter THEN counter[a] ELSE Free
Touched(a) == Put(counter, a, Get(a))

PageView(a) ==
  /\ Times("views", MaxPageViews)
  /\ counter' = Touched(a)
  /\ UNCHANGED <<due, changes, fresh, needTotalSync, locker, sync, centre>>

-----------------------------------------------------------------------------
(* Thread "sync_locks": save_client_locks.                                 *)

SyncSnapshot ==
  /\ sync.pc = "idle"
  /\ needTotalSync \/ changes # {}
  /\ sync' = [pc |-> "get", rows |-> NoLocks, total |-> needTotalSync,
              todo |-> IF needTotalSync THEN DOMAIN counter ELSE changes]
  /\ fresh' = {}
  /\ UNCHANGED <<due, counter, changes, needTotalSync, locker, centre, count>>

\* The values are read one by one, in the order of the keys.
SyncGet ==
  /\ sync.pc = "get"
  /\ IF sync.todo = {}
     THEN /\ sync' = [sync EXCEPT !.pc = "send"]
          /\ UNCHANGED counter
     ELSE LET a == CHOOSE k \in sync.todo : \A j \in sync.todo : k <= j IN
          /\ sync' = [sync EXCEPT !.todo = @ \ {a}, !.rows = Put(@, a, Get(a))]
          /\ counter' = Touched(a)
  /\ UNCHANGED <<due, changes, fresh, needTotalSync, locker, centre, count>>

\* A total sync deletes the region's rows in the same transaction.
Sent == IF sync.total THEN sync.rows ELSE Over(sync.rows, central)

AfterSend == [sync EXCEPT !.pc = IF sync.total THEN "reset" ELSE "fix"]

SyncSend ==
  /\ sync.pc = "send"
  /\ central' = Sent
  /\ lost' = lost \ DOMAIN sync.rows
  /\ sync' = AfterSend
  /\ UNCHANGED <<due, counterVars, locker, count>>

\* The connection is lost in the transaction and exec repeats the statement on a
\* new one.  Between DELETE and INSERT: DELETE is rolled back, INSERT takes
\* effect by itself and COMMIT only warns.  At COMMIT: both are rolled back, the
\* repeated COMMIT only warns, and the sync goes on as if it had sent the rows.
SyncReconnect ==
  /\ sync.pc = "send"
  /\ sync.total
  /\ Fault("reconnect")
  /\ \/ central' = Over(sync.rows, central) /\ lost' = lost \ DOMAIN sync.rows
     \/ central' = central /\ lost' = lost \cup DOMAIN sync.rows
  /\ sync' = AfterSend
  /\ UNCHANGED <<due, counterVars, locker>>

\* exec throws; the statements may have been carried out all the same, or, when
\* DELETE was repeated on a new connection and is outside the transaction, only DELETE.
SyncFails ==
  /\ sync.pc = "send"
  /\ \/ Fault("outage") /\ UNCHANGED centre
     \/ Fault("outage") /\ sync.total /\ "reconnect" \in FaultKinds /\ central' = NoLocks /\ lost' = lost
     \/ Fault("lostReply") /\ central' = Sent /\ lost' = lost \ DOMAIN sync.rows
  /\ sync' = SyncIdle
  /\ UNCHANGED <<due, counterVars, locker>>

\* "needTotalSync = false", without the counter's lock.
SyncReset ==
  /\ sync.pc = "reset"
  /\ needTotalSync' = FALSE
  /\ sync' = [sync EXCEPT !.pc = "fix"]
  /\ UNCHANGED <<due, counter, changes, fresh, locker, centre, count>>

FixAllChanges == {}  \* mutant: the markers are not compared
FixChanges == changes \cap fresh

SyncFix ==
  /\ sync.pc = "fix"
  /\ changes' = FixChanges
  /\ sync' = SyncIdle
  /\ UNCHANGED <<due, counter, fresh, needTotalSync, locker, centre, count>>

-----------------------------------------------------------------------------
(* BaseData::load puts a new counter in place, for TaskRecalc under the    *)
(* lock of sync_locks; client_lock may still hold the old one.             *)

Reload ==
  /\ sync.pc = "idle"
  /\ Times("reloads", MaxReloads)
  /\ counter' = NoLocks
  /\ changes' = {}
  /\ fresh' = {}
  /\ needTotalSync' = TRUE
  /\ locker' = [locker EXCEPT !.orphan = (locker.pc = "push")]
  /\ UNCHANGED <<due, sync, centre>>

-----------------------------------------------------------------------------
Init ==
  /\ due = NoLocks
  /\ counter = NoLocks
  /\ changes = {}
  /\ fresh = {}
  /\ needTotalSync = TRUE
  /\ locker = LockerIdle
  /\ sync = SyncIdle
  /\ central \in Locks(Account, Lock)
  /\ lost = {}
  /\ count = [decisions |-> 0, views |-> 0, reloads |-> 0, faults |-> 0]

Locker == LockerCollect \/ LockerPush
Sync   == SyncSnapshot \/ SyncGet \/ SyncSend \/ SyncReset \/ SyncFix

Next ==
  \/ \E a \in Account : Decide(a) \/ PageView(a)
  \/ Locker \/ Sync
  \/ SyncReconnect \/ SyncFails
  \/ Reload

\* The loops of the two threads; nothing is assumed of the rest.
Fairness == WF_vars(Locker) /\ WF_vars(Sync)

Spec == Init /\ [][Next]_vars
FairSpec == Spec /\ Fairness

-----------------------------------------------------------------------------
(* Properties.                                                             *)

\* A lock that has been pushed is never forgotten by the sync: the central row
\* agrees with it, or it is recorded as changed, or a total sync is due,
\* although the sync reads, writes and clears in separate steps; only a total
\* sync whose COMMIT exec repeated on a new connection forgets what it sent,
\* until the lock is sent again.
NoLockForgotten ==
  \A a \in DOMAIN counter :
    counter[a] # Free =>
      \/ needTotalSync \/ a \in changes \/ a \in lost
      \/ a \in DOMAIN central /\ central[a] = counter[a]

\* Every client that must be locked is locked, the same way, in the central
\* database in the end, but for those whose rows were last sent with a COMMIT
\* that was repeated on a new connection.
LocksReachCentral ==
  <>[](\A a \in DOMAIN due \ lost : a \in DOMAIN central /\ central[a] = due[a])

\* No client that need not be locked is locked in the central database in the
\* end.
UnlocksReachCentral ==
  <>[](\A a \in DOMAIN central : central[a] # Free => a \in DOMAIN due)
=============================================================================
