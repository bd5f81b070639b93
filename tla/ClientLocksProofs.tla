------------------------- MODULE ClientLocksProofs -------------------------
(***************************************************************************)
(* No pushed lock is forgotten on its way to the central database, for any *)
(* set of clients and locks and any number of decisions, page views,       *)
(* reloads and faults, but by a total sync whose COMMIT was repeated on a  *)
(* new connection.  NoLockForgotten alone is not inductive: the sync   *)
(* clears the record of changes in its last step, and that is right only   *)
(* because of what it has read and sent since it took its snapshot.        *)
(***************************************************************************)
EXTENDS ClientLocks, TLAPS, WellFoundedInduction

-----------------------------------------------------------------------------
(* The inductive invariant.                                                *)

AnyLock == Lock \cup {Free}
LockerType == [pc : {"idle", "push"}, locks : Locks(Account, Lock), orphan : BOOLEAN]
SyncType == [pc : {"idle", "get", "send", "reset", "fix"}, todo : SUBSET Key,
             rows : Locks(Key, AnyLock), total : BOOLEAN]

\* Every variable has its type and the program counters their values.
TypeOK ==
  /\ due \in Locks(Account, Lock)
  /\ counter \in Locks(Key, AnyLock)
  /\ changes \subseteq Key /\ fresh \subseteq Key /\ needTotalSync \in BOOLEAN
  /\ locker \in LockerType
  /\ sync \in SyncType
  /\ central \in Locks(Key, AnyLock) /\ lost \subseteq Key
  /\ count \in [decisions : Nat, views : Nat, reloads : Nat, faults : Nat]

\* The centre has the lock, or lost it to a COMMIT repeated on a new connection.
AtCentre(a) == a \in lost \/ (a \in DOMAIN central /\ central[a] = counter[a])
ReadBySync(a) == a \in DOMAIN sync.rows /\ sync.rows[a] = counter[a]

\* What the sync still answers for is recorded until its last step, and what
\* was recorded since its snapshot will not be cleared by it.
SyncRecorded ==
  /\ fresh \subseteq changes
  /\ sync.pc = "send" => sync.todo = {}
  /\ sync.pc = "reset" => sync.total
  /\ sync.pc \in {"get", "send", "reset"} /\ sync.total => needTotalSync
  /\ sync.pc \in {"get", "send"} /\ ~ sync.total => sync.todo \cup DOMAIN sync.rows \subseteq changes

\* A lock that has not changed since the snapshot is read by the sync, or
\* will be, or need not be.
SyncReads ==
  sync.pc \in {"get", "send"} => \A a \in DOMAIN counter : counter[a] # Free =>
    \/ a \in fresh \/ a \in sync.todo \/ ReadBySync(a)
    \/ ~ sync.total /\ (needTotalSync \/ (a \notin DOMAIN sync.rows /\ AtCentre(a)))

\* After the sending it is at the centre, or lost; a total sync that was asked for in
\* the meantime counts only once the flag has been reset.
SyncSent ==
  sync.pc \in {"reset", "fix"} => \A a \in DOMAIN counter : counter[a] # Free =>
    \/ a \in fresh \/ AtCentre(a)
    \/ sync.pc = "fix" /\ needTotalSync

IInv == TypeOK /\ SyncRecorded /\ SyncReads /\ SyncSent /\ NoLockForgotten

-----------------------------------------------------------------------------
(* Maps.                                                                   *)

LEMMA LocksMember ==
  ASSUME NEW K, NEW V, NEW S \in SUBSET K, NEW f \in [S -> V]
  PROVE  f \in Locks(K, V)
BY DEF Locks

LEMMA LocksDomain ==
  ASSUME NEW K, NEW V, NEW f \in Locks(K, V)
  PROVE  DOMAIN f \subseteq K /\ f \in [DOMAIN f -> V] /\ \A a \in DOMAIN f : f[a] \in V
<1>1. PICK S \in SUBSET K : f \in [S -> V]
  BY DEF Locks
<1> QED
  BY <1>1

\* A map of the clients' locks is a map of keys and objects.
LEMMA LocksWider ==
  ASSUME NEW f \in Locks(Account, Lock)
  PROVE  f \in Locks(Key, AnyLock)
<1>1. DOMAIN f \subseteq Key /\ f \in [DOMAIN f -> AnyLock]
  BY LocksDomain DEF Key, AnyLock
<1> QED
  BY <1>1, LocksMember

LEMMA NoLocksTyped ==
  ASSUME NEW K, NEW V
  PROVE  NoLocks \in Locks(K, V) /\ DOMAIN NoLocks = {}
<1>1. NoLocks \in [{} -> V] /\ DOMAIN NoLocks = {}
  BY DEF NoLocks
<1> QED
  BY <1>1, LocksMember

LEMMA PutTyped ==
  ASSUME NEW K, NEW V, NEW f \in Locks(K, V), NEW a \in K, NEW v \in V
  PROVE  Put(f, a, v) \in Locks(K, V)
<1>1. DOMAIN f \subseteq K /\ f \in [DOMAIN f -> V]
  BY LocksDomain
<1>2. Put(f, a, v) \in [{a} \cup DOMAIN f -> V]
  BY <1>1 DEF Put
<1>3. {a} \cup DOMAIN f \in SUBSET K
  BY <1>1
<1> QED
  BY <1>2, <1>3, LocksMember

LEMMA OverTyped ==
  ASSUME NEW K, NEW V, NEW f \in Locks(K, V), NEW g \in Locks(K, V)
  PROVE  Over(f, g) \in Locks(K, V)
<1>1. /\ DOMAIN f \subseteq K /\ f \in [DOMAIN f -> V]
      /\ DOMAIN g \subseteq K /\ g \in [DOMAIN g -> V]
  BY LocksDomain
<1>2. Over(f, g) \in [DOMAIN f \cup DOMAIN g -> V]
  BY <1>1 DEF Over
<1>3. DOMAIN f \cup DOMAIN g \in SUBSET K
  BY <1>1
<1> QED
  BY <1>2, <1>3, LocksMember

LEMMA WithoutTyped ==
  ASSUME NEW K, NEW V, NEW f \in Locks(K, V), NEW keys
  PROVE  Without(f, keys) \in Locks(K, V)
<1>1. DOMAIN f \subseteq K /\ f \in [DOMAIN f -> V]
  BY LocksDomain
<1>2. Without(f, keys) \in [DOMAIN f \ keys -> V]
  BY <1>1 DEF Without
<1>3. DOMAIN f \ keys \in SUBSET K
  BY <1>1
<1> QED
  BY <1>2, <1>3, LocksMember

\* The first of the keys the sync has still to read is one of them.
LEMMA FirstKey ==
  ASSUME NEW T \in SUBSET Key, T # {}
  PROVE  (CHOOSE k \in T : \A j \in T : k <= j) \in T
<1>1. T \subseteq Nat
  BY ClientLocksAssumption DEF Key
<1>2. PICK k \in T : \A j \in T : ~ (<<j, k>> \in OpToRel(<, Nat))
  BY <1>1, NatLessThanWellFounded, WFMin, Zenon
<1>3. \A j \in T : ~ (j < k)
  BY <1>1, <1>2 DEF OpToRel
<1>4. \A j \in T : k <= j
  BY <1>1, <1>3
<1> QED
  BY <1>4

\* The keys that push records are keys of clients, or the stray one.
LEMMA RecordedKeys ==
  ASSUME TypeOK, NEW locks \in Locks(Account, Lock), NEW stray \in Key
  PROVE  Changed(locks) \cup Recorded(locks, stray) \subseteq Key
<1>1. DOMAIN counter \subseteq Key /\ DOMAIN locks \subseteq Key
  BY LocksDomain DEF TypeOK, Key
<1>2. Changed(locks) \subseteq Key
  BY <1>1 DEF Changed
<1>3. Recorded(locks, stray) \subseteq Key
  BY <1>1 DEF Recorded
<1> QED
  BY <1>2, <1>3

-----------------------------------------------------------------------------
(* One lemma per action that touches what the invariant is about.          *)

\* push leaves every lock recorded that it changes.
LEMMA PushKeeps ==
  ASSUME IInv, LockerPush
  PROVE  IInv'
<1>1. UNCHANGED <<due, sync, central, lost, count>> /\ locker' = LockerIdle
  BY DEF LockerPush, centre
<1>2. locker' \in LockerType
  BY <1>1, NoLocksTyped DEF LockerIdle, LockerType
<1>3. CASE locker.orphan
  <2>1. UNCHANGED <<counter, changes, fresh, needTotalSync>>
    BY <1>3 DEF LockerPush, counterVars
  <2> QED
    BY <1>1, <1>2, <2>1 DEF IInv, TypeOK, SyncRecorded, SyncReads, SyncSent, NoLockForgotten, AtCentre, ReadBySync
<1>4. CASE ~ locker.orphan
  <2> DEFINE locks == locker.locks
  <2>0. locks \in Locks(Account, Lock)
    BY DEF IInv, TypeOK, LockerType
  <2>1. PICK stray \in Key :
          /\ counter' = locks
          /\ changes' = changes \cup (Changed(locks) \cup Recorded(locks, stray))
          /\ fresh' = fresh \cup (Changed(locks) \cup Recorded(locks, stray))
          /\ needTotalSync' = (needTotalSync \/ Erased(locks) # {})
    BY <1>4 DEF LockerPush, push
  <2>2. TypeOK'
    <3>1. changes' \subseteq Key /\ fresh' \subseteq Key
      BY <2>0, <2>1, RecordedKeys DEF IInv, TypeOK
    <3>2. counter' \in Locks(Key, AnyLock)
      BY <2>0, <2>1, LocksWider
    <3>3. needTotalSync' \in BOOLEAN
      BY <2>1
    <3> QED
      BY <1>1, <1>2, <3>1, <3>2, <3>3 DEF IInv, TypeOK
  <2>3. \A a \in DOMAIN counter' : a \in fresh' \/ (a \in DOMAIN counter /\ counter'[a] = counter[a])
    BY <2>1 DEF Changed
  <2>4. fresh \subseteq fresh' /\ changes \subseteq changes' /\ (needTotalSync => needTotalSync')
        /\ fresh' \subseteq changes'
    BY <2>1 DEF IInv, SyncRecorded
  <2> HIDE DEF locks
  <2>5. SyncRecorded'
    BY <1>1, <2>4 DEF IInv, SyncRecorded
  <2>6. SyncReads' /\ SyncSent' /\ NoLockForgotten'
    BY <1>1, <2>3, <2>4 DEF IInv, SyncReads, SyncSent, NoLockForgotten, AtCentre, ReadBySync
  <2> QED
    BY <2>2, <2>5, <2>6 DEF IInv
<1> QED
  BY <1>3, <1>4

\* Reading an entry that is not there creates an object with no flag set.
LEMMA TouchedKeeps ==
  ASSUME TypeOK, NEW a \in Key
  PROVE  /\ Get(a) \in AnyLock /\ Touched(a) \in Locks(Key, AnyLock)
         /\ DOMAIN Touched(a) = {a} \cup DOMAIN counter /\ Touched(a)[a] = Get(a)
         /\ \A b \in DOMAIN Touched(a) : Touched(a)[b] # Free =>
              b \in DOMAIN counter /\ Touched(a)[b] = counter[b]
<1>1. Get(a) \in AnyLock
  BY LocksDomain DEF TypeOK, Get, AnyLock
<1>2. Touched(a) \in Locks(Key, AnyLock)
  BY <1>1, PutTyped DEF TypeOK, Touched
<1> QED
  BY <1>1, <1>2 DEF Touched, Get, Put

LEMMA PageViewKeeps ==
  ASSUME IInv, NEW a \in Account, PageView(a)
  PROVE  IInv'
<1>1. /\ counter' = Touched(a) /\ UNCHANGED <<due, changes, fresh, needTotalSync, locker, sync, central, lost>>
      /\ count' = [count EXCEPT !["views"] = @ + 1]
  BY DEF PageView, Times, centre
<1>2. TypeOK'
  <2>1. counter' \in Locks(Key, AnyLock)
    BY <1>1, TouchedKeeps DEF IInv, Key
  <2>2. count' \in [decisions : Nat, views : Nat, reloads : Nat, faults : Nat]
    BY <1>1 DEF IInv, TypeOK
  <2> QED
    BY <1>1, <2>1, <2>2 DEF IInv, TypeOK
<1>3. \A b \in DOMAIN counter' : counter'[b] # Free => b \in DOMAIN counter /\ counter'[b] = counter[b]
  BY <1>1, TouchedKeeps DEF IInv, Key
<1>4. SyncRecorded' /\ SyncReads' /\ SyncSent' /\ NoLockForgotten'
  BY <1>1, <1>3 DEF IInv, SyncRecorded, SyncReads, SyncSent, NoLockForgotten, AtCentre, ReadBySync
<1> QED
  BY <1>2, <1>4 DEF IInv

LEMMA SnapshotKeeps ==
  ASSUME IInv, SyncSnapshot
  PROVE  IInv'
<1>1. /\ sync' = [pc |-> "get", rows |-> NoLocks, total |-> needTotalSync,
                  todo |-> IF needTotalSync THEN DOMAIN counter ELSE changes]
      /\ fresh' = {} /\ UNCHANGED <<due, counter, changes, needTotalSync, locker, central, lost, count>>
  BY DEF SyncSnapshot, centre
<1>2. TypeOK'
  <2>1. DOMAIN counter \subseteq Key
    BY LocksDomain DEF IInv, TypeOK
  <2>2. sync' \in SyncType
    BY <1>1, <2>1, NoLocksTyped DEF IInv, TypeOK, SyncType
  <2> QED
    BY <1>1, <2>2 DEF IInv, TypeOK
<1>3. /\ sync'.pc = "get" /\ sync'.total = needTotalSync /\ DOMAIN sync'.rows = {}
      /\ sync'.todo = IF needTotalSync THEN DOMAIN counter ELSE changes
  BY <1>1, NoLocksTyped
<1>4. SyncRecorded' /\ SyncReads' /\ SyncSent' /\ NoLockForgotten'
  BY <1>1, <1>3 DEF IInv, SyncRecorded, SyncReads, SyncSent, NoLockForgotten, AtCentre, ReadBySync
<1> QED
  BY <1>2, <1>4 DEF IInv

\* The value of one key goes to the rows as it is now.
LEMMA GetKeeps ==
  ASSUME IInv, SyncGet
  PROVE  IInv'
<1>0. sync.pc = "get" /\ UNCHANGED <<due, changes, fresh, needTotalSync, locker, central, lost, count>>
  BY DEF SyncGet, centre
<1>1. CASE sync.todo = {}
  <2>1. sync' = [sync EXCEPT !.pc = "send"] /\ UNCHANGED counter
    BY <1>1 DEF SyncGet
  <2>2. /\ sync' \in SyncType
        /\ sync'.pc = "send" /\ sync'.todo = {} /\ sync'.rows = sync.rows /\ sync'.total = sync.total
    BY <1>1, <2>1 DEF IInv, TypeOK, SyncType
  <2>3. TypeOK'
    BY <1>0, <2>1, <2>2 DEF IInv, TypeOK
  <2>4. SyncRecorded' /\ SyncReads' /\ SyncSent' /\ NoLockForgotten'
    BY <1>0, <1>1, <2>1, <2>2
    DEF IInv, SyncRecorded, SyncReads, SyncSent, NoLockForgotten, AtCentre, ReadBySync
  <2> QED
    BY <2>3, <2>4 DEF IInv
<1>2. CASE sync.todo # {}
  <2> DEFINE a == CHOOSE k \in sync.todo : \A j \in sync.todo : k <= j
  <2>0. a \in sync.todo /\ a \in Key
    BY <1>2, FirstKey DEF IInv, TypeOK, SyncType
  <2>1. /\ sync' = [sync EXCEPT !.todo = sync.todo \ {a}, !.rows = Put(sync.rows, a, Get(a))]
        /\ counter' = Touched(a)
    BY <1>2 DEF SyncGet
  <2> HIDE DEF a
  <2>2. /\ Get(a) \in AnyLock /\ counter' \in Locks(Key, AnyLock)
        /\ DOMAIN counter' = {a} \cup DOMAIN counter /\ counter'[a] = Get(a)
        /\ \A b \in DOMAIN counter' : counter'[b] # Free =>
             b \in DOMAIN counter /\ counter'[b] = counter[b]
    BY <2>0, <2>1, TouchedKeeps DEF IInv
  <2>3. /\ Put(sync.rows, a, Get(a)) \in Locks(Key, AnyLock)
        /\ DOMAIN Put(sync.rows, a, Get(a)) = {a} \cup DOMAIN sync.rows
        /\ Put(sync.rows, a, Get(a))[a] = Get(a)
        /\ \A b \in DOMAIN sync.rows : b # a => Put(sync.rows, a, Get(a))[b] = sync.rows[b]
    <3>1. Put(sync.rows, a, Get(a)) \in Locks(Key, AnyLock)
      BY <2>0, <2>2, PutTyped DEF IInv, TypeOK, SyncType
    <3> QED
      BY <3>1 DEF Put
  <2>4. /\ sync' \in SyncType /\ sync'.pc = "get" /\ sync'.total = sync.total
        /\ sync'.todo = sync.todo \ {a} /\ sync'.rows = Put(sync.rows, a, Get(a))
    BY <1>0, <2>1, <2>3 DEF IInv, TypeOK, SyncType
  <2>5. TypeOK'
    BY <1>0, <2>2, <2>4 DEF IInv, TypeOK
  <2>6. SyncRecorded'
    BY <1>0, <2>0, <2>3, <2>4 DEF IInv, SyncRecorded
  <2>7. SyncReads'
    <3> SUFFICES ASSUME NEW b \in DOMAIN counter', counter'[b] # Free
                 PROVE  \/ b \in fresh \/ b \in sync'.todo \/ ReadBySync(b)'
                        \/ ~ sync.total /\ (needTotalSync \/ (b \notin DOMAIN sync'.rows /\ AtCentre(b)'))
      BY <1>0, <2>4 DEF SyncReads
    <3>1. CASE b = a
      BY <3>1, <2>2, <2>3, <2>4 DEF ReadBySync
    <3>2. CASE b # a
      <4>1. b \in DOMAIN counter /\ counter'[b] = counter[b] /\ counter[b] # Free
        BY <2>2
      <4>2. \/ b \in fresh \/ b \in sync.todo \/ ReadBySync(b)
            \/ ~ sync.total /\ (needTotalSync \/ (b \notin DOMAIN sync.rows /\ AtCentre(b)))
        BY <1>0, <4>1 DEF IInv, SyncReads
      <4> QED
        BY <1>0, <3>2, <4>1, <4>2, <2>3, <2>4 DEF ReadBySync, AtCentre
    <3> QED
      BY <3>1, <3>2
  <2>8. SyncSent' /\ NoLockForgotten'
    BY <1>0, <2>2, <2>4 DEF IInv, SyncSent, NoLockForgotten
  <2> QED
    BY <2>5, <2>6, <2>7, <2>8 DEF IInv
<1> QED
  BY <1>1, <1>2
\* What AfterSend and SyncIdle are.
LEMMA AfterSendTyped ==
  ASSUME TypeOK
  PROVE  /\ SyncIdle \in SyncType /\ SyncIdle.pc = "idle"
         /\ AfterSend \in SyncType /\ AfterSend.total = sync.total
         /\ AfterSend.pc = IF sync.total THEN "reset" ELSE "fix"
<1>1. SyncIdle \in SyncType /\ SyncIdle.pc = "idle"
  BY NoLocksTyped DEF SyncIdle, SyncType
<1> QED
  BY <1>1 DEF TypeOK, SyncType, AfterSend

\* The rows the sync sends reach the centre; those that are not among them are
\* left there, or deleted by a total sync.
LEMMA SentRows ==
  ASSUME TypeOK, NEW rows, rows = Sent \/ rows = Over(sync.rows, central)
  PROVE  /\ rows \in Locks(Key, AnyLock)
         /\ \A a \in DOMAIN sync.rows : a \in DOMAIN rows /\ rows[a] = sync.rows[a]
         /\ ~ sync.total => \A a \in DOMAIN central \ DOMAIN sync.rows :
                              a \in DOMAIN rows /\ rows[a] = central[a]
<1>1. rows \in Locks(Key, AnyLock)
  BY OverTyped DEF TypeOK, SyncType, Sent
<1> QED
  BY <1>1 DEF Sent, Over

\* The rows are sent, on the first connection or on a new one.
LEMMA SendKeeps ==
  ASSUME IInv, SyncSend \/ SyncReconnect
  PROVE  IInv'
<1>1. /\ sync.pc = "send" /\ UNCHANGED <<due, counter, changes, fresh, needTotalSync, locker>>
      /\ \/ central' \in {Sent, Over(sync.rows, central)} /\ lost' = lost \ DOMAIN sync.rows
         \/ sync.total /\ central' = central /\ lost' = lost \cup DOMAIN sync.rows
      /\ sync' = AfterSend
      /\ count' = count \/ count' = [count EXCEPT !["faults"] = @ + 1]
  BY DEF SyncSend, SyncReconnect, Fault, Times, counterVars, centre
<1>2. TypeOK'
  <2>1. count' \in [decisions : Nat, views : Nat, reloads : Nat, faults : Nat]
    BY <1>1 DEF IInv, TypeOK
  <2>2. central' \in Locks(Key, AnyLock) /\ sync' \in SyncType
    BY <1>1, SentRows, AfterSendTyped DEF IInv, TypeOK
  <2>3. lost' \subseteq Key
    BY <1>1, LocksDomain DEF IInv, TypeOK, SyncType
  <2> QED
    BY <1>1, <2>1, <2>2, <2>3 DEF IInv, TypeOK
<1>3. sync'.pc = (IF sync.total THEN "reset" ELSE "fix") /\ sync'.total = sync.total
  BY <1>1, AfterSendTyped DEF IInv
<1>4. /\ \A a \in DOMAIN sync.rows : a \in lost' \/ (a \in DOMAIN central' /\ central'[a] = sync.rows[a])
      /\ ~ sync.total => \A a \in lost \ DOMAIN sync.rows : a \in lost'
      /\ ~ sync.total => \A a \in DOMAIN central \ DOMAIN sync.rows :
                           a \in DOMAIN central' /\ central'[a] = central[a]
  BY <1>1, SentRows DEF IInv
<1>5. \A a \in DOMAIN counter : counter[a] # Free =>
        a \in fresh \/ AtCentre(a)' \/ (~ sync.total /\ needTotalSync)
  <2> SUFFICES ASSUME NEW a \in DOMAIN counter, counter[a] # Free
               PROVE  a \in fresh \/ AtCentre(a)' \/ (~ sync.total /\ needTotalSync)
    OBVIOUS
  <2>1. \/ a \in fresh \/ ReadBySync(a)
        \/ ~ sync.total /\ (needTotalSync \/ (a \notin DOMAIN sync.rows /\ AtCentre(a)))
    BY <1>1 DEF IInv, SyncReads, SyncRecorded
  <2> QED
    BY <1>1, <1>4, <2>1 DEF ReadBySync, AtCentre
<1>6. SyncRecorded' /\ SyncReads'
  BY <1>1, <1>3 DEF IInv, SyncRecorded, SyncReads
<1>7. SyncSent'
  BY <1>1, <1>3, <1>5 DEF SyncSent
<1>8. NoLockForgotten'
  BY <1>1, <1>3, <1>5 DEF IInv, SyncRecorded, NoLockForgotten, AtCentre
<1> QED
  BY <1>2, <1>6, <1>7, <1>8 DEF IInv

\* The sync gives up; what it has not sent is still recorded.
LEMMA FailsKeeps ==
  ASSUME IInv, SyncFails
  PROVE  IInv'
<1>1. /\ sync.pc = "send" /\ UNCHANGED <<due, counter, changes, fresh, needTotalSync, locker>>
      /\ \/ central' = central /\ lost' = lost
         \/ sync.total /\ central' = NoLocks /\ lost' = lost
         \/ central' = Sent /\ lost' = lost \ DOMAIN sync.rows
      /\ sync' = SyncIdle
      /\ count' = [count EXCEPT !["faults"] = @ + 1]
  BY DEF SyncFails, Fault, Times, counterVars, centre, centre
<1>2. TypeOK'
  <2>1. count' \in [decisions : Nat, views : Nat, reloads : Nat, faults : Nat]
    BY <1>1 DEF IInv, TypeOK
  <2>2. central' \in Locks(Key, AnyLock) /\ sync' \in SyncType
    BY <1>1, SentRows, NoLocksTyped, AfterSendTyped DEF IInv, TypeOK
  <2>3. lost' \subseteq Key
    BY <1>1 DEF IInv, TypeOK
  <2> QED
    BY <1>1, <2>1, <2>2, <2>3 DEF IInv, TypeOK
<1>3. sync'.pc = "idle"
  BY <1>1, AfterSendTyped DEF IInv
<1>4. SyncRecorded' /\ SyncReads' /\ SyncSent'
  BY <1>1, <1>3 DEF IInv, SyncRecorded, SyncReads, SyncSent
<1>5. ~ sync.total => /\ lost \ changes \subseteq lost'
                      /\ \A a \in DOMAIN central \ changes : a \in DOMAIN central' /\ central'[a] = central[a]
  BY <1>1, SentRows DEF IInv, SyncRecorded
<1>6. NoLockForgotten'
  BY <1>1, <1>5 DEF IInv, SyncRecorded, NoLockForgotten
<1> QED
  BY <1>2, <1>4, <1>6 DEF IInv

\* The flag is reset, and the changes from before the snapshot are cleared.
LEMMA ClearKeeps ==
  ASSUME IInv, SyncReset \/ SyncFix
  PROVE  IInv'
<1>1. CASE SyncReset
  <2>1. /\ sync.pc = "reset" /\ needTotalSync' = FALSE /\ sync' = [sync EXCEPT !.pc = "fix"]
        /\ UNCHANGED <<due, counter, changes, fresh, locker, central, lost, count>>
    BY <1>1 DEF SyncReset, centre
  <2>2. sync' \in SyncType /\ sync'.pc = "fix"
    BY <2>1 DEF IInv, TypeOK, SyncType
  <2>3. TypeOK'
    BY <2>1, <2>2 DEF IInv, TypeOK
  <2>4. SyncRecorded' /\ SyncReads' /\ SyncSent' /\ NoLockForgotten'
    BY <2>1, <2>2 DEF IInv, SyncRecorded, SyncReads, SyncSent, NoLockForgotten, AtCentre
  <2> QED
    BY <2>3, <2>4 DEF IInv
<1>2. CASE SyncFix
  <2>1. /\ sync.pc = "fix" /\ changes' = changes \cap fresh /\ sync' = SyncIdle
        /\ UNCHANGED <<due, counter, fresh, needTotalSync, locker, central, lost, count>>
    BY <1>2 DEF SyncFix, FixChanges, centre
  <2>2. sync' \in SyncType /\ sync'.pc = "idle"
    BY <2>1, AfterSendTyped DEF IInv
  <2>3. TypeOK'
    BY <2>1, <2>2 DEF IInv, TypeOK
  <2>4. SyncRecorded' /\ SyncReads' /\ SyncSent' /\ NoLockForgotten'
    BY <2>1, <2>2 DEF IInv, SyncRecorded, SyncReads, SyncSent, NoLockForgotten, AtCentre
  <2> QED
    BY <2>3, <2>4 DEF IInv
<1> QED
  BY <1>1, <1>2

\* A new counter is empty and asks for a total sync.
LEMMA ReloadKeeps ==
  ASSUME IInv, Reload
  PROVE  IInv'
<1>1. /\ counter' = NoLocks /\ changes' = {} /\ fresh' = {} /\ needTotalSync' = TRUE
      /\ sync.pc = "idle" /\ UNCHANGED <<due, sync, central, lost>>
      /\ locker' = [locker EXCEPT !.orphan = (locker.pc = "push")]
      /\ count' = [count EXCEPT !["reloads"] = @ + 1]
  BY DEF Reload, Times, centre
<1>2. TypeOK'
  <2>1. count' \in [decisions : Nat, views : Nat, reloads : Nat, faults : Nat]
    BY <1>1 DEF IInv, TypeOK
  <2>2. locker' \in LockerType
    BY <1>1 DEF IInv, TypeOK, LockerType
  <2>3. counter' \in Locks(Key, AnyLock)
    BY <1>1, NoLocksTyped
  <2> QED
    BY <1>1, <2>1, <2>2, <2>3 DEF IInv, TypeOK
<1>3. SyncRecorded' /\ SyncReads' /\ SyncSent' /\ NoLockForgotten'
  BY <1>1 DEF IInv, SyncRecorded, SyncReads, SyncSent, NoLockForgotten
<1> QED
  BY <1>2, <1>3 DEF IInv

\* What must be locked changes, or the locks are collected.
LEMMA CollectKeeps ==
  ASSUME IInv, LockerCollect \/ (\E a \in Account : Decide(a))
  PROVE  IInv'
<1>1. UNCHANGED <<counter, changes, fresh, needTotalSync, sync, central, lost>>
  BY DEF LockerCollect, Decide, counterVars, centre
<1>2. TypeOK'
  <2>1. CASE LockerCollect
    <3>1. locker' \in LockerType /\ UNCHANGED <<due, count>>
      BY <2>1 DEF LockerCollect, LockerType, IInv, TypeOK
    <3> QED
      BY <1>1, <3>1 DEF IInv, TypeOK
  <2>2. ASSUME NEW a \in Account, Decide(a) PROVE TypeOK'
    <3>1. due' \in Locks(Account, Lock)
      BY <2>2, PutTyped, WithoutTyped DEF Decide, IInv, TypeOK
    <3>2. count' = [count EXCEPT !["decisions"] = @ + 1] /\ locker' = locker
      BY <2>2 DEF Decide, Times
    <3>3. count' \in [decisions : Nat, views : Nat, reloads : Nat, faults : Nat]
      BY <3>2 DEF IInv, TypeOK
    <3> QED
      BY <1>1, <3>1, <3>2, <3>3 DEF IInv, TypeOK
  <2> QED
    BY <2>1, <2>2
<1> QED
  BY <1>1, <1>2 DEF IInv, SyncRecorded, SyncReads, SyncSent, NoLockForgotten, AtCentre, ReadBySync

-----------------------------------------------------------------------------
\* IInv is an inductive invariant of the lock counter and its threads.
THEOREM LocksInvariant == Spec => []IInv
<1>1. Init => IInv
  <2> SUFFICES ASSUME Init PROVE IInv
    OBVIOUS
  <2>1. locker \in LockerType /\ sync \in SyncType /\ sync.pc = "idle"
    BY NoLocksTyped DEF Init, LockerIdle, LockerType, SyncIdle, SyncType
  <2>2. counter \in Locks(Key, AnyLock) /\ due \in Locks(Account, Lock) /\ DOMAIN counter = {}
    BY NoLocksTyped DEF Init
  <2>3. central \in Locks(Key, AnyLock)
    BY LocksWider DEF Init
  <2>4. TypeOK
    BY <2>1, <2>2, <2>3 DEF Init, TypeOK
  <2> QED
    BY <2>1, <2>2, <2>4 DEF Init, IInv, SyncRecorded, SyncReads, SyncSent, NoLockForgotten
<1>2. IInv /\ [Next]_vars => IInv'
  <2> SUFFICES ASSUME IInv, [Next]_vars PROVE IInv'
    OBVIOUS
  <2>1. CASE UNCHANGED vars
    BY <2>1 DEF vars, counterVars, centre, IInv, TypeOK, SyncRecorded, SyncReads, SyncSent, NoLockForgotten,
       AtCentre, ReadBySync
  <2> QED
    BY <2>1, PushKeeps, PageViewKeeps, SnapshotKeeps, GetKeeps, SendKeeps, FailsKeeps, ClearKeeps,
       ReloadKeeps, CollectKeeps DEF Next, Locker, Sync
<1> QED
  BY <1>1, <1>2, PTL DEF Spec

\* A lock that has been pushed is never forgotten by the sync, which reads, sends
\* and clears in separate steps while client_lock pushes and pages are viewed;
\* what the centre does not have is recorded, or a total sync is due, or it was
\* last sent by a total sync whose COMMIT was repeated on a new connection.
THEOREM NoLockEverForgotten == Spec => []NoLockForgotten
<1>1. IInv => NoLockForgotten
  BY DEF IInv
<1> QED
  BY <1>1, LocksInvariant, PTL
=============================================================================
