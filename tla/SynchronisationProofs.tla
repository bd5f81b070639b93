----------------------- MODULE SynchronisationProofs -----------------------
(***************************************************************************)
(* What is copied between the centre and a region, for every set of tables *)
(* and keys, files and batches of any size, and any number of failures.    *)
(*                                                                         *)
(* EventPull: no reload is forgotten.  NoReloadForgotten needs two facts   *)
(* about the loader: no version is handed out twice, and a list it has     *)
(* just loaded is either still up to date or its event has a new version.  *)
(* No event of the central queue is forgotten either, for as long as the   *)
(* queue fits into one part.                                               *)
(*                                                                         *)
(* TableSync: the events reach the right lists, for every table and list   *)
(* of the program.                                                         *)
(*                                                                         *)
(* CdrFlow: no call is stored twice, the calls of a processed file are     *)
(* stored, and the centre has no gap in a partition.  The ids of a table   *)
(* grow with its rows, which is what lets the greatest id of a partition   *)
(* at the centre stand for all that was copied.                            *)
(***************************************************************************)
EXTENDS EventPull, TableSync, CdrFlow, TLAPS, FiniteSetTheorems, WellFoundedInduction

-----------------------------------------------------------------------------
(* The regional queue.                                                     *)

LoaderType == [pc : {"boot", "bootLoad", "idle", "load", "delete"}, todo : SUBSET Table,
               seen : [Table -> Nat], table : Table \cup {All}]

\* The types the argument needs.
RegionTyped ==
  /\ src \in [Table -> Rows] /\ dst \in [Table -> Rows] /\ mem \in [Table -> Rows]
  /\ queue \in [Table -> Nat] /\ seq \in Nat /\ changes \in Nat
  /\ loader \in LoaderType

\* Versions come from one sequence.
VersionsIssued == \A t \in Table : queue[t] <= seq /\ loader.seen[t] <= seq

\* Between the reload of a list and the deletion of its event.
LoadedIsFresh ==
  loader.pc = "delete" =>
    /\ loader.table \in loader.todo
    /\ queue[loader.table] = loader.seen[loader.table] => mem[loader.table] = dst[loader.table]

RInv == RegionTyped /\ VersionsIssued /\ LoadedIsFresh /\ NoReloadForgotten

\* What an idle loader and a loader at start-up hold.
LEMMA LoaderIdleTyped ==
  /\ NoVersion \in [Table -> Nat] /\ \A t \in Table : NoVersion[t] = 0
  /\ \A l \in {LoaderIdle, [LoaderIdle EXCEPT !.pc = "boot"]} :
       l \in LoaderType /\ l.pc \in {"idle", "boot"} /\ l.seen = NoVersion
<1>1. NoVersion \in [Table -> Nat] /\ \A t \in Table : NoVersion[t] = 0
  BY DEF NoVersion
<1> QED
  BY <1>1 DEF LoaderIdle, LoaderType

\* A step of the sync thread that does not touch the region.
LEMMA RegionQuiet ==
  ASSUME RInv, src' \in [Table -> Rows], changes' \in Nat, UNCHANGED <<regionVars, mem, loader>>
  PROVE  RInv'
BY DEF RInv, RegionTyped, VersionsIssued, LoadedIsFresh, NoReloadForgotten, regionVars

\* Rows of a table are written: its list may now be behind, and its event has a
\* version the loader has not seen.
LEMMA WrittenKeeps ==
  ASSUME RInv, NEW t \in Table, NEW newRows \in Rows, Written(t, newRows), UNCHANGED <<src, changes, mem, loader>>
  PROVE  RInv'
<1>1. /\ dst' = [dst EXCEPT ![t] = [k \in Key |-> IF k \in PulledKeys(t) THEN newRows[k] ELSE dst[t][k]]]
      /\ seq' = seq + 1 /\ queue' = [queue EXCEPT ![t] = seq + 1]
      /\ UNCHANGED <<src, changes, mem, loader>>
  BY DEF Written
<1>2. [k \in Key |-> IF k \in PulledKeys(t) THEN newRows[k] ELSE dst[t][k]] \in Rows
  BY DEF RInv, RegionTyped, Rows
<1>3. RegionTyped'
  BY <1>1, <1>2 DEF RInv, RegionTyped
<1>4. VersionsIssued'
  BY <1>1 DEF RInv, RegionTyped, VersionsIssued, LoaderType
<1>5. LoadedIsFresh'
  BY <1>1, <1>2 DEF RInv, RegionTyped, VersionsIssued, LoadedIsFresh, LoaderType
<1>6. NoReloadForgotten'
  BY <1>1, <1>2 DEF RInv, RegionTyped, NoReloadForgotten
<1> QED
  BY <1>3, <1>4, <1>5, <1>6 DEF RInv

\* A table is pulled, or only its old rows are deleted.
LEMMA PullTableKeeps ==
  ASSUME RInv, NEW t \in Table, PullTable(t) \/ PullTableFails(t)
  PROVE  RInv'
<1>1. UNCHANGED <<src, changes, mem, loader>>
  BY DEF PullTable, PullTableFails, centralVars
<1>2. CASE UNCHANGED regionVars
  BY <1>1, <1>2, RegionQuiet DEF RInv, RegionTyped
<1>3. CASE Written(t, src[t]) \/ Written(t, NoRows)
  <2>1. src[t] \in Rows /\ NoRows \in Rows
    BY DEF RInv, RegionTyped, NoRows, Rows
  <2> QED
    BY <1>1, <1>3, <2>1, WrittenKeeps
<1> QED
  BY <1>2, <1>3 DEF PullTable, PullTableFails

\* The loader takes the events that wait.
LEMMA LoaderQueryKeeps ==
  ASSUME RInv, LoaderQuery
  PROVE  RInv'
<1>1. /\ loader' = [pc |-> "load", todo |-> {t \in Table : queue[t] # 0},
                    seen |-> queue, table |-> All]
      /\ loader.pc = "idle" /\ UNCHANGED <<src, changes, dst, mem, queue, seq>>
  BY DEF LoaderQuery, centralVars, regionVars
<1>2. RegionTyped' /\ VersionsIssued'
  BY <1>1 DEF RInv, RegionTyped, VersionsIssued, LoaderType
<1>3. LoadedIsFresh' /\ NoReloadForgotten'
  BY <1>1 DEF RInv, LoadedIsFresh, NoReloadForgotten
<1> QED
  BY <1>2, <1>3 DEF RInv

\* It reloads one list.
LEMMA LoaderLoadKeeps ==
  ASSUME RInv, NEW t \in Table, LoaderLoad(t)
  PROVE  RInv'
<1>1. /\ mem' = [mem EXCEPT ![t] = dst[t]] /\ loader.pc = "load" /\ t \in loader.todo
      /\ loader' = [loader EXCEPT !.pc = "delete", !.table = t]
      /\ UNCHANGED <<src, changes, dst, queue, seq>>
  BY DEF LoaderLoad, centralVars, regionVars
<1>2. RegionTyped' /\ VersionsIssued'
  BY <1>1 DEF RInv, RegionTyped, VersionsIssued, LoaderType
<1>3. mem'[t] = dst[t] /\ \A u \in Table : u # t => mem'[u] = mem[u]
  BY <1>1 DEF RInv, RegionTyped
<1>4. loader'.table = t /\ loader'.todo = loader.todo /\ loader'.pc = "delete"
  BY <1>1 DEF RInv, RegionTyped, LoaderType
<1>5. LoadedIsFresh'
  BY <1>1, <1>3, <1>4 DEF LoadedIsFresh
<1>6. NoReloadForgotten'
  BY <1>1, <1>3, <1>4 DEF RInv, NoReloadForgotten
<1> QED
  BY <1>2, <1>5, <1>6 DEF RInv

\* It deletes the event of the list it has reloaded, if the version is the one
\* it has seen.
LEMMA LoaderDeleteKeeps ==
  ASSUME RInv, LoaderDelete
  PROVE  RInv'
<1>1. /\ queue' = [t \in Table |-> IF t \in LoadedEvent THEN 0 ELSE queue[t]]
      /\ loader.pc = "delete" /\ UNCHANGED <<src, changes, dst, mem, seq>>
      /\ \/ loader' = LoaderIdle
         \/ loader' = [loader EXCEPT !.pc = "load", !.todo = @ \ {loader.table}, !.table = All]
  BY DEF LoaderDelete, centralVars
<1>2. RegionTyped'
  <2>1. queue' \in [Table -> Nat]
    BY <1>1 DEF RInv, RegionTyped
  <2>2. loader' \in LoaderType
    BY <1>1, LoaderIdleTyped DEF RInv, RegionTyped, LoaderType
  <2> QED
    BY <1>1, <2>1, <2>2 DEF RInv, RegionTyped
<1>3. /\ loader'.pc \in {"idle", "load"}
      /\ \A t \in Table : loader'.seen[t] <= seq
  <2>1. CASE loader' = LoaderIdle
    BY <2>1, LoaderIdleTyped DEF RInv, RegionTyped, LoaderIdle
  <2>2. CASE loader' = [loader EXCEPT !.pc = "load", !.todo = @ \ {loader.table}, !.table = All]
    BY <2>2 DEF RInv, RegionTyped, VersionsIssued, LoaderType
  <2> QED
    BY <1>1, <2>1, <2>2
<1>4. VersionsIssued' /\ LoadedIsFresh'
  BY <1>1, <1>3 DEF RInv, RegionTyped, VersionsIssued, LoadedIsFresh
<1>5. \A t \in Table : mem[t] # dst[t] => queue[t] # 0
  BY <1>1 DEF RInv, NoReloadForgotten
<1>6. \A t \in LoadedEvent : mem[t] = dst[t]
  BY <1>1 DEF RInv, LoadedIsFresh, LoadedEvent
<1>7. NoReloadForgotten'
  BY <1>1, <1>5, <1>6 DEF NoReloadForgotten
<1> QED
  BY <1>2, <1>4, <1>7 DEF RInv

\* The load at start-up.
LEMMA BootKeeps ==
  ASSUME RInv, BootClear \/ (\E t \in Table : BootLoad(t))
  PROVE  RInv'
<1>1. CASE BootClear
  <2>1. /\ queue' = NoVersion /\ UNCHANGED <<src, changes, dst, mem, seq>>
        /\ loader' = [loader EXCEPT !.pc = "bootLoad", !.todo = Table]
    BY <1>1 DEF BootClear, centralVars
  <2>2. /\ loader' \in LoaderType /\ loader'.seen = loader.seen
        /\ loader'.pc = "bootLoad" /\ loader'.todo = Table
    BY <2>1 DEF RInv, RegionTyped, LoaderType
  <2>3. RegionTyped' /\ VersionsIssued'
    BY <2>1, <2>2, LoaderIdleTyped DEF RInv, RegionTyped, VersionsIssued
  <2> QED
    BY <2>2, <2>3 DEF RInv, LoadedIsFresh, NoReloadForgotten
<1>2. ASSUME NEW t \in Table, BootLoad(t) PROVE RInv'
  <2>1. /\ mem' = [mem EXCEPT ![t] = dst[t]] /\ loader.pc = "bootLoad" /\ t \in loader.todo
        /\ UNCHANGED <<src, changes, dst, queue, seq>>
        /\ loader' = IF loader.todo = {t} THEN LoaderIdle ELSE [loader EXCEPT !.todo = @ \ {t}]
    BY <1>2 DEF BootLoad, centralVars, regionVars
  <2>2. RegionTyped'
    <3>1. loader' \in LoaderType
      BY <2>1, LoaderIdleTyped DEF RInv, RegionTyped, LoaderType
    <3> QED
      BY <2>1, <3>1 DEF RInv, RegionTyped
  <2>3. VersionsIssued'
    <3>1. loader'.seen = NoVersion \/ loader'.seen = loader.seen
      BY <2>1, LoaderIdleTyped DEF RInv, RegionTyped, LoaderType
    <3>2. \A u \in Table : loader'.seen[u] <= seq
      <4>1. CASE loader'.seen = NoVersion
        BY <4>1, LoaderIdleTyped DEF RInv, RegionTyped
      <4>2. CASE loader'.seen = loader.seen
        BY <4>2 DEF RInv, VersionsIssued
      <4> QED
        BY <3>1, <4>1, <4>2
    <3> QED
      BY <2>1, <3>2 DEF RInv, VersionsIssued
  <2>4. /\ loader'.pc \in {"bootLoad", "idle"}
        /\ loader.todo # {t} => loader'.pc = "bootLoad" /\ loader'.todo = loader.todo \ {t}
    BY <2>1 DEF RInv, RegionTyped, LoaderType, LoaderIdle
  <2>5. mem'[t] = dst[t] /\ \A u \in Table : u # t => mem'[u] = mem[u]
    BY <2>1 DEF RInv, RegionTyped
  <2>6. \A u \in Table : mem'[u] # dst[u] => queue[u] # 0 \/ (u \in loader.todo /\ u # t)
    BY <2>1, <2>5 DEF RInv, NoReloadForgotten
  <2>7. NoReloadForgotten'
    BY <2>1, <2>4, <2>6 DEF NoReloadForgotten
  <2> QED
    BY <2>2, <2>3, <2>4, <2>7 DEF RInv, LoadedIsFresh
<1> QED
  BY <1>1, <1>2

\* The loader or the whole daemon fails.
LEMMA LoaderFailureKeeps ==
  ASSUME RInv, BootLoadFails \/ LoaderFails \/ CrashRestart
  PROVE  RInv'
<1>1. /\ UNCHANGED <<src, changes, dst, queue, seq>>
      /\ loader' \in {LoaderIdle, [LoaderIdle EXCEPT !.pc = "boot"]}
      /\ loader' = LoaderIdle => loader.pc \in {"load", "delete"} /\ mem' = mem
      /\ mem' = mem \/ mem' = [t \in Table |-> NoRows]
  BY DEF BootLoadFails, LoaderFails, CrashRestart, centralVars, regionVars, LoaderIdle
<1>2. RegionTyped'
  <2>1. [t \in Table |-> NoRows] \in [Table -> Rows]
    BY DEF NoRows, Rows
  <2> QED
    BY <1>1, <2>1, LoaderIdleTyped DEF RInv, RegionTyped
<1>3. VersionsIssued'
  <2>1. loader'.seen = NoVersion
    BY <1>1, LoaderIdleTyped
  <2> QED
    BY <1>1, <2>1, LoaderIdleTyped DEF RInv, RegionTyped, VersionsIssued
<1>4. loader'.pc \in {"idle", "boot"} /\ (loader'.pc = "idle" => loader' = LoaderIdle)
  BY <1>1 DEF LoaderIdle
<1>5. NoReloadForgotten'
  BY <1>1, <1>4 DEF RInv, NoReloadForgotten
<1> QED
  BY <1>2, <1>3, <1>4, <1>5 DEF RInv, LoadedIsFresh

\* RInv is an inductive invariant.
THEOREM RegionInvariant == Spec => []RInv
<1>1. Init => RInv
  BY DEF Init, RInv, RegionTyped, VersionsIssued, LoadedIsFresh, NoReloadForgotten,
         LoaderIdle, LoaderType, NoVersion, NoRows, Rows
<1>2. RInv /\ [Next]_vars => RInv'
  <2> SUFFICES ASSUME RInv, [Next]_vars PROVE RInv'
    OBVIOUS
  <2>1. ASSUME NEW t \in Table, NEW k \in Key, NEW param \in {k, All}, Change(t, k, param)
        PROVE  RInv'
    <3>1. /\ src' = [src EXCEPT ![t][k] = changes + 1] /\ changes' = changes + 1
          /\ UNCHANGED <<regionVars, mem, loader>>
      BY <2>1 DEF Change
    <3>2. src' \in [Table -> Rows] /\ changes' \in Nat
      BY <3>1 DEF RInv, RegionTyped, Rows
    <3> QED
      BY <3>1, <3>2, RegionQuiet
  <2>2. CASE PullQuery \/ PullDelete \/ PullDeleteFails \/ (\E t \in Table : PullCommitRepeated(t))
    BY <2>2, RegionQuiet DEF PullQuery, PullDelete, PullDeleteFails, PullCommitRepeated, centralVars,
       RInv, RegionTyped
  <2>3. CASE UNCHANGED vars
    BY <2>3, RegionQuiet DEF vars, centralVars, RInv, RegionTyped
  <2> QED
    BY <2>1, <2>2, <2>3, PullTableKeeps, LoaderQueryKeeps, LoaderLoadKeeps, LoaderDeleteKeeps,
       BootKeeps, LoaderFailureKeeps DEF Next, Central, Sync, Loader, Failure
<1> QED
  BY <1>1, <1>2, PTL DEF Spec

\* Once the lists are loaded, a list that is behind its regional table has an
\* event waiting, whatever the sync thread commits while the loader runs.
THEOREM NoReloadEverForgotten == Spec => []NoReloadForgotten
<1>1. RInv => NoReloadForgotten
  BY DEF RInv
<1> QED
  BY <1>1, RegionInvariant, PTL

-----------------------------------------------------------------------------
(* The central queue.                                                      *)

Event == [event : Table, param : Key \cup {All}, version : Nat]
PullType == [pc : {"idle", "pull", "delete"}, part : SUBSET Event, version : Nat,
             todo : SUBSET Table, table : Table \cup {All}]

\* ManagerPull::pull reads all events of the queue.
QueueFits == Cardinality(events) <= PartSize

EventsTyped ==
  /\ events \subseteq Event /\ IsFiniteSet(events) /\ \A e \in events : e.version <= changes
  /\ pull \in PullType

\* Event e makes ManagerPull::pull copy row k of table t.
Covers(e, t, k) == e.event = t /\ (e.param \in {k, All} \/ t \in Keyless)

\* What is queued with a version that will be deleted has been read.
PartIsAll ==
  pull.pc # "idle" =>
    pull.version <= changes /\ \A e \in events : e.version <= pull.version => e \in pull.part

\* The events of a table that has still to be pulled wait for it.
PartIsKept == pull.pc # "idle" => \A e \in pull.part : e.event \in pull.todo => e \in events

\* Row k of table t is what the centre has, or a repeated COMMIT has lost it.
Pulled(t, k) == <<t, k>> \in lost \/ dst[t][k] = src[t][k]

\* Between the pull of a table and the deletion of its events, a row that is
\* behind has an event that will not be deleted.
PulledIsFresh ==
  pull.pc = "delete" =>
    /\ pull.table \in Table
    /\ \A k \in Key : ~ Pulled(pull.table, k) =>
         \E e \in events : Covers(e, pull.table, k) /\ e.version > pull.version

EInv == EventsTyped /\ PartIsAll /\ PartIsKept /\ PulledIsFresh /\ NoEventForgotten

\* The version kept by PullQuery is the greatest in the queue.
LEMMA LastVersionIsMax ==
  ASSUME events # {}, events \subseteq Event, changes \in Nat, \A e \in events : e.version <= changes
  PROVE  /\ LastVersion \in Nat /\ LastVersion <= changes
         /\ \A e \in events : e.version <= LastVersion
<1> DEFINE S == {e.version : e \in events}
           T == {changes - v : v \in S}
<1>1. S \subseteq Nat /\ S # {} /\ \A v \in S : v <= changes
  BY DEF Event
<1>2. T \subseteq Nat /\ T # {}
  <2>1. \A v \in S : changes - v \in Nat
    BY <1>1
  <2> QED
    BY <1>1, <2>1
<1>3. PICK t \in T : \A y \in T : ~ (<<y, t>> \in OpToRel(<, Nat))
  BY <1>2, NatLessThanWellFounded, WFMin, Zenon
<1>4. \A y \in T : ~ (y < t)
  BY <1>2, <1>3 DEF OpToRel
<1>5. PICK m \in S : t = changes - m
  BY <1>3
<1>6. \A v \in S : v <= m
  <2> SUFFICES ASSUME NEW v \in S PROVE v <= m
    OBVIOUS
  <2>1. ~ (changes - v < changes - m)
    BY <1>4, <1>5
  <2>2. v \in Nat /\ m \in Nat
    BY <1>1
  <2> QED
    BY <2>1, <2>2
<1>7. \E v \in S : \A e \in events : e.version <= v
  BY <1>6
<1>8. LastVersion \in S /\ \A e \in events : e.version <= LastVersion
  BY <1>7 DEF LastVersion
<1> QED
  BY <1>1, <1>8

\* When the queue fits into a part, the part is the queue.
LEMMA PartIsQueue ==
  ASSUME IsFiniteSet(events), events \subseteq Event, QueueFits
  PROVE  Part = events
<1> SUFFICES ASSUME NEW e \in events
             PROVE  Cardinality({f \in events : f.version < e.version}) < PartSize
  BY DEF Part
<1> DEFINE F == {f \in events : f.version < e.version}
<1>1. F \subseteq events /\ F # events
  <2>1. e \notin F
    BY DEF Event
  <2> QED
    BY <2>1
<1>2. Cardinality(F) \in Nat /\ Cardinality(events) \in Nat /\ Cardinality(F) < Cardinality(events)
  BY <1>1, FS_Subset, FS_CardinalityType
<1> QED
  BY <1>2, EventPullAssumption DEF QueueFits

LEMMA PullIdleTyped == PullIdle \in PullType /\ PullIdle.pc = "idle"
BY DEF PullIdle, PullType

\* A change is queued with a new version.
LEMMA ChangeIsQueued ==
  ASSUME RInv, EInv, NEW t \in Table, NEW k \in Key, NEW param \in {k, All}, Change(t, k, param)
  PROVE  EInv'
<1> DEFINE new == [event |-> t, param |-> param, version |-> changes + 1]
<1>1. /\ changes' = changes + 1 /\ src' = [src EXCEPT ![t][k] = changes + 1]
      /\ events' = events \cup {new} /\ UNCHANGED <<dst, lost, pull>>
  BY DEF Change, regionVars
<1>2. changes \in Nat /\ src \in [Table -> Rows]
  BY DEF RInv, RegionTyped
<1>3. new \in Event /\ new.version = changes + 1 /\ Covers(new, t, k)
  BY <1>2 DEF Event, Covers
<1>4. \A u \in Table, x \in Key : src'[u][x] = src[u][x] \/ (u = t /\ x = k)
  BY <1>1, <1>2 DEF Rows
<1> HIDE DEF new
<1>5. EventsTyped'
  <2>1. IsFiniteSet(events \cup {new})
    BY FS_AddElement DEF EInv, EventsTyped
  <2>2. \A e \in events : e.version \in Nat /\ e.version <= changes
    BY DEF EInv, EventsTyped, Event
  <2> QED
    BY <1>1, <1>2, <1>3, <2>1, <2>2 DEF EInv, EventsTyped
<1>6. pull.version \in Nat
  BY DEF EInv, EventsTyped, PullType
<1>7. PartIsAll' /\ PartIsKept'
  BY <1>1, <1>2, <1>3, <1>6 DEF EInv, PartIsAll, PartIsKept
<1>8. PulledIsFresh'
  <2> SUFFICES ASSUME pull.pc = "delete", NEW x \in Key, <<pull.table, x>> \notin lost,
                      dst[pull.table][x] # src'[pull.table][x]
               PROVE  \E e \in events' : Covers(e, pull.table, x) /\ e.version > pull.version
    BY <1>1 DEF EInv, PulledIsFresh, Pulled, Covers
  <2>1. pull.table \in Table /\ pull.version <= changes
    BY DEF EInv, PulledIsFresh, PartIsAll
  <2>2. CASE src'[pull.table][x] = src[pull.table][x]
    <3>1. PICK e \in events : Covers(e, pull.table, x) /\ e.version > pull.version
      BY <2>2 DEF EInv, PulledIsFresh, Pulled
    <3> QED
      BY <1>1, <3>1
  <2>3. CASE pull.table = t /\ x = k
    <3>1. new.version > pull.version
      BY <1>2, <1>3, <1>6, <2>1
    <3> QED
      BY <1>1, <1>3, <2>3, <3>1
  <2> QED
    BY <1>4, <2>1, <2>2, <2>3
<1>9. NoEventForgotten'
  <2> SUFFICES ASSUME NEW u \in Table, NEW x \in Key, <<u, x>> \notin lost, dst[u][x] # src'[u][x]
               PROVE  \E e \in events' : Covers(e, u, x)
    BY <1>1 DEF NoEventForgotten, Covers
  <2>1. CASE src'[u][x] = src[u][x]
    <3>1. PICK e \in events : Covers(e, u, x)
      BY <2>1 DEF EInv, NoEventForgotten, Covers
    <3> QED
      BY <1>1, <3>1
  <2> QED
    BY <1>1, <1>3, <1>4, <2>1
<1> QED
  BY <1>5, <1>7, <1>8, <1>9 DEF EInv

LEMMA PullQueryReadsAll ==
  ASSUME RInv, EInv, QueueFits, PullQuery
  PROVE  EInv'
<1>1. /\ pull' = [pc |-> "pull", part |-> Part, version |-> LastVersion, todo |-> Table, table |-> All]
      /\ events # {} /\ UNCHANGED <<src, events, changes, dst, lost>>
  BY DEF PullQuery, centralVars, regionVars
<1>2. changes \in Nat /\ events \subseteq Event /\ IsFiniteSet(events) /\ \A e \in events : e.version <= changes
  BY DEF RInv, RegionTyped, EInv, EventsTyped
<1>3. LastVersion \in Nat /\ LastVersion <= changes /\ Part = events
  BY <1>1, <1>2, LastVersionIsMax, PartIsQueue
<1>4. pull' \in PullType /\ pull'.pc = "pull" /\ pull'.version = LastVersion /\ pull'.part = events
  BY <1>1, <1>2, <1>3 DEF PullType
<1>5. EventsTyped' /\ PartIsAll' /\ PartIsKept'
  BY <1>1, <1>2, <1>3, <1>4 DEF EventsTyped, PartIsAll, PartIsKept
<1> QED
  BY <1>1, <1>4, <1>5 DEF EInv, PulledIsFresh, NoEventForgotten

\* What a table has pulled, or lost to a repeated COMMIT, are its rows named by
\* events up to the version kept.
LEMMA PullTableCovers ==
  ASSUME RInv, EInv, NEW t \in Table, PullTable(t) \/ PullCommitRepeated(t)
  PROVE  EInv'
<1>1. /\ pull.pc = "pull" /\ pull' = [pull EXCEPT !.pc = "delete", !.table = t]
      /\ UNCHANGED <<src, events, changes>>
  BY DEF PullTable, PullCommitRepeated, centralVars
<1>2. pull \in PullType /\ dst \in [Table -> Rows] /\ src \in [Table -> Rows]
  BY DEF RInv, RegionTyped, EInv, EventsTyped
<1>3. /\ pull' \in PullType /\ pull'.pc = "delete" /\ pull'.table = t
      /\ pull'.version = pull.version /\ pull'.part = pull.part /\ pull'.todo = pull.todo
  BY <1>1, <1>2 DEF PullType
<1>4. \A u \in Table, k \in Key : u # t => dst'[u][k] = dst[u][k] /\ (<<u, k>> \in lost' <=> <<u, k>> \in lost)
  BY <1>2 DEF PullTable, PullCommitRepeated, Written, PulledRows, regionVars
<1>5. \A k \in Key : \/ Pulled(t, k)'
                     \/ /\ dst'[t][k] = dst[t][k] /\ (<<t, k>> \in lost => <<t, k>> \in lost')
                        /\ ~ (need_pull(t) /\ k \in PulledKeys(t))
  <2>1. CASE PullTable(t) /\ need_pull(t)
    BY <1>1, <1>2, <2>1 DEF PullTable, Written, PulledRows, Pulled
  <2>2. CASE PullTable(t) /\ ~ need_pull(t)
    BY <2>2 DEF PullTable, regionVars
  <2>3. CASE PullCommitRepeated(t)
    BY <2>3 DEF PullCommitRepeated, PulledRows, Pulled, regionVars
  <2> QED
    BY <2>1, <2>2, <2>3
<1>6. ASSUME NEW k \in Key, ~ Pulled(t, k)'
      PROVE  \E e \in events : Covers(e, t, k) /\ e.version > pull.version
  <2>1. ~ Pulled(t, k) /\ ~ (need_pull(t) /\ k \in PulledKeys(t))
    BY <1>1, <1>5, <1>6 DEF Pulled
  <2>2. PICK e \in events : Covers(e, t, k)
    BY <2>1 DEF EInv, NoEventForgotten, Covers, Pulled
  <2>3. ASSUME e \in pull.part PROVE FALSE
    <3>1. e.param \in Params(t)
      BY <2>2, <2>3 DEF Params, Covers
    <3>2. need_pull(t) /\ k \in PulledKeys(t)
      BY <2>2, <3>1 DEF need_pull, PulledKeys, full_pull, Covers
    <3> QED
      BY <2>1, <3>2
  <2>4. e.version \in Nat /\ pull.version \in Nat
    BY <1>2 DEF EInv, EventsTyped, Event, PullType
  <2>5. ~ (e.version <= pull.version)
    BY <1>1, <2>3 DEF EInv, PartIsAll
  <2> QED
    BY <2>2, <2>4, <2>5
<1>7. EventsTyped' /\ PartIsAll' /\ PartIsKept'
  BY <1>1, <1>3 DEF EInv, EventsTyped, PartIsAll, PartIsKept
<1>8. PulledIsFresh'
  BY <1>1, <1>3, <1>6 DEF PulledIsFresh, Covers
<1>9. NoEventForgotten'
  BY <1>1, <1>4, <1>6 DEF EInv, NoEventForgotten, Covers, Pulled
<1> QED
  BY <1>7, <1>8, <1>9 DEF EInv

\* DELETE alone takes effect: the events that asked for the rows are still there.
LEMMA PullTableFailsCovers ==
  ASSUME RInv, EInv, NEW t \in Table, PullTableFails(t)
  PROVE  EInv'
<1>1. /\ pull.pc = "pull" /\ t \in pull.todo /\ need_pull(t) /\ UNCHANGED <<src, events, changes, lost>>
      /\ pull' = IF pull.todo = {t} THEN PullIdle ELSE [pull EXCEPT !.todo = @ \ {t}]
  BY DEF PullTableFails, centralVars
<1>2. pull \in PullType /\ dst \in [Table -> Rows]
  BY DEF RInv, RegionTyped, EInv, EventsTyped
<1>3. /\ pull' \in PullType /\ pull'.pc # "delete"
      /\ pull'.pc # "idle" => /\ pull'.version = pull.version /\ pull'.part = pull.part
                              /\ pull'.todo \subseteq pull.todo
  BY <1>1, <1>2, PullIdleTyped DEF PullType
<1>4. EventsTyped' /\ PartIsAll' /\ PartIsKept' /\ PulledIsFresh'
  BY <1>1, <1>3 DEF EInv, EventsTyped, PartIsAll, PartIsKept, PulledIsFresh
<1>5. \A u \in Table, k \in Key : dst'[u][k] = dst[u][k] \/ (u = t /\ k \in PulledKeys(t))
  <2>1. CASE UNCHANGED regionVars
    BY <2>1 DEF regionVars
  <2>2. CASE Written(t, NoRows)
    BY <1>2, <2>2 DEF Written
  <2> QED
    BY <2>1, <2>2 DEF PullTableFails
<1>6. \A k \in PulledKeys(t) \cap Key : \E e \in events : Covers(e, t, k)
  <2> SUFFICES ASSUME NEW k \in Key, k \in PulledKeys(t)
               PROVE  \E e \in pull.part : Covers(e, t, k)
    BY <1>1 DEF EInv, PartIsKept, Covers
  <2>1. PICK p : p \in Params(t) /\ (p \in {k, All} \/ t \in Keyless)
    BY <1>1 DEF need_pull, PulledKeys, full_pull
  <2>2. PICK e \in pull.part : e.event = t /\ e.param = p
    BY <2>1 DEF Params
  <2> QED
    BY <2>1, <2>2 DEF Covers
<1>7. NoEventForgotten'
  BY <1>1, <1>5, <1>6 DEF EInv, NoEventForgotten, Covers
<1> QED
  BY <1>4, <1>7 DEF EInv

LEMMA NextTableTyped ==
  ASSUME pull \in PullType
  PROVE  /\ NextTable \in PullType /\ NextTable.pc \in {"idle", "pull"}
         /\ NextTable.pc = "pull" => /\ NextTable.version = pull.version /\ NextTable.part = pull.part
                                     /\ NextTable.todo = pull.todo \ {pull.table}
BY PullIdleTyped DEF NextTable, PullType

\* The events deleted are those of rows that are up to date.
LEMMA PullDeleteSpares ==
  ASSUME RInv, EInv, PullDelete
  PROVE  EInv'
<1>1. /\ pull.pc = "delete" /\ events' = events \ DoneEvents /\ pull' = NextTable
      /\ UNCHANGED <<src, changes, dst, lost>>
  BY DEF PullDelete, regionVars
<1>2. /\ pull \in PullType /\ events \subseteq Event /\ IsFiniteSet(events)
      /\ \A e \in events : e.version <= changes
  BY DEF EInv, EventsTyped
<1>3. EventsTyped'
  <2>1. IsFiniteSet(events')
    BY <1>1, <1>2, FS_Subset
  <2> QED
    BY <1>1, <1>2, <2>1, NextTableTyped DEF EventsTyped
<1>4. PartIsAll' /\ PartIsKept'
  <2>1. pull'.pc # "idle" => /\ pull'.version = pull.version /\ pull'.part = pull.part
                             /\ pull'.todo = pull.todo \ {pull.table}
    BY <1>1, <1>2, NextTableTyped
  <2> QED
    BY <1>1, <2>1 DEF EInv, PartIsAll, PartIsKept, DoneEvents
<1>5. pull'.pc # "delete"
  BY <1>1, <1>2, NextTableTyped
<1>6. NoEventForgotten'
  <2> SUFFICES ASSUME NEW t \in Table, NEW k \in Key, ~ Pulled(t, k)
               PROVE  \E e \in events' : Covers(e, t, k)
    BY <1>1 DEF NoEventForgotten, Covers, Pulled
  <2>1. CASE t = pull.table
    <3>1. PICK e \in events : Covers(e, t, k) /\ e.version > pull.version
      BY <1>1, <2>1 DEF EInv, PulledIsFresh
    <3>2. e.version \in Nat /\ pull.version \in Nat
      BY <1>2 DEF Event, PullType
    <3>3. e \notin DoneEvents
      BY <3>1, <3>2 DEF DoneEvents
    <3> QED
      BY <1>1, <3>1, <3>3
  <2>2. CASE t # pull.table
    <3>1. PICK e \in events : Covers(e, t, k)
      BY DEF EInv, NoEventForgotten, Covers, Pulled
    <3>2. e \notin DoneEvents
      BY <2>2, <3>1 DEF DoneEvents, Covers
    <3> QED
      BY <1>1, <3>1, <3>2
  <2> QED
    BY <2>1, <2>2
<1> QED
  BY <1>3, <1>4, <1>5, <1>6 DEF EInv, PulledIsFresh

\* The pull goes on without a table, or ends; nothing else changes.
LEMMA PullGoesOn ==
  ASSUME EInv, UNCHANGED <<src, events, changes, dst, lost>>, pull' \in PullType, pull'.pc # "delete",
         pull'.pc # "idle" => /\ pull.pc # "idle" /\ pull'.version = pull.version /\ pull'.part = pull.part
                              /\ pull'.todo \subseteq pull.todo
  PROVE  EInv'
BY DEF EInv, EventsTyped, PartIsAll, PartIsKept, PulledIsFresh, NoEventForgotten

\* A row of the region that is behind the central one has an event waiting for
\* it, whatever fails and whatever changes while tables are pulled, for as long
\* as the queue fits into the part that ManagerPull::pull reads; only the rows of
\* a pull whose COMMIT was repeated on a new connection are left behind.
THEOREM NoEventEverForgotten == Spec /\ []QueueFits => []NoEventForgotten
<1>1. Init => EInv
  BY PullIdleTyped, FS_EmptySet DEF Init, EInv, EventsTyped, PartIsAll, PartIsKept,
     PulledIsFresh, NoEventForgotten
<1>2. RInv /\ EInv /\ QueueFits /\ [Next]_vars => EInv'
  <2> SUFFICES ASSUME RInv, EInv, QueueFits, [Next]_vars PROVE EInv'
    OBVIOUS
  <2>1. pull \in PullType
    BY DEF EInv, EventsTyped
  <2>2. CASE PullDeleteFails
    BY <2>1, <2>2, NextTableTyped, PullGoesOn DEF PullDeleteFails, centralVars, regionVars
  <2>3. CASE CrashRestart
    BY <2>3, PullIdleTyped, PullGoesOn DEF CrashRestart, centralVars, regionVars
  <2>4. CASE Loader \/ BootLoadFails \/ LoaderFails \/ UNCHANGED vars
    <3>1. UNCHANGED <<src, events, changes, dst, lost, pull>>
      BY <2>4 DEF Loader, BootClear, BootLoad, BootLoadFails, LoaderQuery, LoaderLoad, LoaderDelete, LoaderFails,
                  vars, centralVars, regionVars
    <3> QED
      BY <3>1 DEF EInv, EventsTyped, PartIsAll, PartIsKept, PulledIsFresh, NoEventForgotten, Covers, Pulled
  <2> QED
    BY <2>2, <2>3, <2>4, ChangeIsQueued, PullQueryReadsAll, PullTableCovers, PullTableFailsCovers,
       PullDeleteSpares
       DEF Next, Central, Sync, Failure
<1>3. EInv => NoEventForgotten
  BY DEF EInv
<1> QED
  BY <1>1, <1>2, <1>3, RegionInvariant, PTL DEF Spec

-----------------------------------------------------------------------------
(* The wiring of the tables: whatever the events and however many changes  *)
(* and failures, a list that misses a change has an event under way that   *)
(* makes the loader read it again.                                         *)

\* Event t[2] reads list l again; a list made from another one comes after it.
Rereads(l, t) ==
  LET b == Branch(t[2])
  IN \E i \in DOMAIN b : b[i] = l /\ (l = "activeCounter" => \E j \in 1..(i - 1) : b[j] = Source(t))

\* No two pulls wait for the same event and write different tables.
LEMMA OneTablePerEvent == \A p, q \in Pulls : p.event = q.event => p.table = q.table
BY SMTT(60) DEF Pulls, Pull, PullClient, PullOrganization, PullGeo, PullMobPrefix,
  PullGeoPrefix, PullInstance, PullNetworkPrefix, PullOperator, PullPricelist, PullTariff,
  PullTariffPackage, PullDefs, PullServiceNumber, PullServicePackage, PullServiceTrunk,
  PullServiceTrunkSettings, PullLogTariff, PullStatPrefixlist,
  PullStatDestinationPrefixlists, PullCurrencyRate, PullServer, PullHub, PullAirp,
  PullNumber, PullOutcome, PullPrefixlist, PullPrefixlistPrefix, PullReleaseReason,
  PullRouteCase, PullRouteTable, PullRouteTableRoute, PullRoutingReportData, PullTrunk,
  PullTrunkGroup, PullTrunkGroupItem, PullTrunkNumberPreprocessing, PullTrunkPriority,
  PullTrunkRule, PullTrunkTrunkRule, NNPAccountTariffLightPull, NNPNumberRangePrefixPull,
  NNPOperatorPull, NNPPackagePricelistPull, NNPPackagePull, NNPPrefixPull,
  NNPDestinationPull, NNPNumberRangePull, NNPPackageMinutePull, NNPPackagePricePull,
  NNPPrefixDestinatioPull, NNPRegionPull, NNPCountryCodePull

\* The lists made from one table, by the table: routing,
LEMMA RoutingLists ==
  /\ ListTables["hub"] = {<<"auth", "hub">>}
  /\ ListTables["airp"] = {<<"auth", "airp">>}
  /\ ListTables["number"] = {<<"auth", "number">>}
  /\ ListTables["outcome"] = {<<"auth", "outcome">>}
  /\ ListTables["prefixlist"] = {<<"auth", "prefixlist">>}
  /\ ListTables["prefixlistPrefix"] = {<<"auth", "prefixlist_prefix">>}
  /\ ListTables["releaseReason"] = {<<"auth", "release_reason">>}
  /\ ListTables["routeCase"] = {<<"auth", "route_case">>}
  /\ ListTables["routeTable"] = {<<"auth", "route_table">>}
  /\ ListTables["routeTableRoute"] = {<<"auth", "route_table_route">>}
  /\ ListTables["trunk"] = {<<"auth", "trunk">>}
  /\ ListTables["trunkByName"] = {<<"auth", "trunk">>}
  /\ ListTables["trunkByAlias"] = {<<"auth", "trunk">>}
  /\ ListTables["trunkGroup"] = {<<"auth", "trunk_group">>}
  /\ ListTables["trunkGroupItem"] = {<<"auth", "trunk_group_item">>}
  /\ ListTables["trunkNumberPreprocessing"] = {<<"auth", "trunk_number_preprocessing">>}
  /\ ListTables["trunkPriority"] = {<<"auth", "trunk_priority">>}
  /\ ListTables["trunkRule"] = {<<"auth", "trunk_rule">>}
  /\ ListTables["trunkTrunkRule"] = {<<"auth", "trunk_trunk_rule">>}
BY DEF ListTables, Of, Pull, PullAirp, PullHub, PullNumber, PullOutcome, PullPrefixlist,
  PullPrefixlistPrefix, PullReleaseReason, PullRouteCase, PullRouteTable,
  PullRouteTableRoute, PullTrunk, PullTrunkGroup, PullTrunkGroupItem,
  PullTrunkNumberPreprocessing, PullTrunkPriority, PullTrunkRule, PullTrunkTrunkRule

\* billing and geography,
LEMMA BillingLists ==
  /\ ListTables["server"] = {<<"public", "server">>}
  /\ ListTables["instanceSettings"] = {<<"billing", "instance_settings">>}
  /\ ListTables["organization"] = {<<"billing", "organization">>}
  /\ ListTables["voipOperator"] = {<<"billing", "operator">>}
  /\ ListTables["pricelist"] = {<<"billing", "pricelist">>}
  /\ ListTables["pricelistPrice"] = {<<"billing", "defs">>}
  /\ ListTables["networkPrefix"] = {<<"billing", "network_prefix">>}
  /\ ListTables["geo"] = {<<"geo", "geo">>}
  /\ ListTables["mobPrefix"] = {<<"geo", "mob_prefix">>}
  /\ ListTables["geoPrefix"] = {<<"geo", "prefix">>}
  /\ ListTables["serviceNumber"] = {<<"billing", "service_number">>}
  /\ ListTables["serviceNumberByTechNumber"] = {<<"billing", "service_number">>}
  /\ ListTables["serviceNumberPackage"] = {<<"billing", "service_package">>}
  /\ ListTables["serviceTrunk"] = {<<"billing", "service_trunk">>}
  /\ ListTables["serviceTrunkPackage"] = {<<"billing", "service_package">>}
  /\ ListTables["serviceTrunkSettings"] = {<<"billing", "service_trunk_settings">>}
  /\ ListTables["tariff"] = {<<"billing", "tariff">>}
  /\ ListTables["tariffPackage"] = {<<"billing", "tariff_package">>}
  /\ ListTables["tariffChangeLog"] = {<<"billing", "tariff_change_log">>}
  /\ ListTables["statDestinationPrefixlists"] = {<<"billing", "stat_destination_prefixlists">>}
  /\ ListTables["statPrefixlist"] = {<<"billing", "stat_prefixlist">>}
  /\ ListTables["currencyRate"] = {<<"billing", "currency_rate">>}
BY DEF ListTables, Of, Pull, PullCurrencyRate, PullDefs, PullGeo, PullGeoPrefix,
  PullInstance, PullLogTariff, PullMobPrefix, PullNetworkPrefix, PullOperator,
  PullOrganization, PullPricelist, PullServer, PullServiceNumber, PullServicePackage,
  PullServiceTrunk, PullServiceTrunkSettings, PullStatDestinationPrefixlists,
  PullStatPrefixlist, PullTariff, PullTariffPackage

\* and the national numbering plan.
LEMMA NumberingPlanLists ==
  /\ ListTables["nnpDestination"] = {<<"nnp", "destination">>}
  /\ ListTables["nnpNumberRangePrefix"] = {<<"nnp", "number_range_prefix">>}
  /\ ListTables["nnpPackage"] = {<<"nnp", "package">>}
  /\ ListTables["nnpPackagePrice"] = {<<"nnp", "package_price">>}
  /\ ListTables["nnpPrefix"] = {<<"nnp", "prefix">>}
  /\ ListTables["nnpCountry"] = {<<"nnp", "country">>}
  /\ ListTables["nnpRegion"] = {<<"nnp", "region">>}
  /\ ListTables["nnpNumberRange"] = {<<"nnp", "number_range">>}
  /\ ListTables["nnpOperator"] = {<<"nnp", "operator">>}
  /\ ListTables["nnpPackageMinute"] = {<<"nnp", "package_minute">>}
  /\ ListTables["nnpPackagePricelist"] = {<<"nnp", "package_pricelist">>}
  /\ ListTables["nnpPrefixDestination"] = {<<"nnp", "prefix_destination">>}
  /\ ListTables["nnpAccountTariffLight"] = {<<"nnp", "account_tariff_light">>}
BY DEF ListTables, Of, Pull, NNPAccountTariffLightPull, NNPCountryCodePull,
  NNPDestinationPull, NNPNumberRangePrefixPull, NNPNumberRangePull, NNPOperatorPull,
  NNPPackageMinutePull, NNPPackagePricePull, NNPPackagePricelistPull, NNPPackagePull,
  NNPPrefixDestinatioPull, NNPPrefixPull, NNPRegionPull

\* The events that load one list,
LEMMA OneListBranches ==
  /\ Branch("server") = <<"server">>
  /\ Branch("hub") = <<"hub">>
  /\ Branch("instance_settings") = <<"instanceSettings">>
  /\ Branch("airp") = <<"airp">>
  /\ Branch("number") = <<"number">>
  /\ Branch("outcome") = <<"outcome">>
  /\ Branch("prefixlist") = <<"prefixlist">>
  /\ Branch("prefixlist_prefix") = <<"prefixlistPrefix">>
  /\ Branch("release_reason") = <<"releaseReason">>
  /\ Branch("route_case") = <<"routeCase">>
  /\ Branch("route_table") = <<"routeTable">>
  /\ Branch("route_table_route") = <<"routeTableRoute">>
  /\ Branch("trunk_group") = <<"trunkGroup">>
  /\ Branch("trunk_group_item") = <<"trunkGroupItem">>
  /\ Branch("trunk_number_preprocessing") = <<"trunkNumberPreprocessing">>
  /\ Branch("trunk_priority") = <<"trunkPriority">>
  /\ Branch("trunk_rule") = <<"trunkRule">>
  /\ Branch("trunk_trunk_rule") = <<"trunkTrunkRule">>
  /\ Branch("organization") = <<"organization">>
  /\ Branch("operator") = <<"voipOperator">>
  /\ Branch("pricelist") = <<"pricelist">>
  /\ Branch("defs") = <<"pricelistPrice">>
  /\ Branch("network_prefix") = <<"networkPrefix">>
  /\ Branch("geo") = <<"geo">>
  /\ Branch("mob_prefix") = <<"mobPrefix">>
  /\ Branch("prefix") = <<"geoPrefix">>
  /\ Branch("service_trunk_settings") = <<"serviceTrunkSettings">>
  /\ Branch("tariff") = <<"tariff">>
  /\ Branch("tariff_package") = <<"tariffPackage">>
  /\ Branch("tariff_change_log") = <<"tariffChangeLog">>
  /\ Branch("stat_destination_prefixlists") = <<"statDestinationPrefixlists">>
  /\ Branch("stat_prefixlist") = <<"statPrefixlist">>
  /\ Branch("currency_rate") = <<"currencyRate">>
  /\ Branch("clients") = <<"client">>
BY DEF Branch, RoutingBranches, DictionaryBranches, ServiceBranches, TariffBranches

\* and those that load several.
LEMMA SeveralListsBranches ==
  /\ Branch("trunk") = <<"trunk", "trunkByName", "trunkByAlias">>
  /\ Branch("service_number") = <<"client", "serviceNumber", "activeCounter", "serviceNumberByTechNumber">>
  /\ Branch("service_trunk") = <<"client", "serviceTrunk", "activeCounter">>
  /\ Branch("service_package") = <<"serviceNumberPackage", "serviceTrunkPackage">>
BY DEF Branch, RoutingBranches, DictionaryBranches, ServiceBranches

\* The counter of active services is built after the list it counts.
LEMMA CounterIsReread == \A t \in ListTables["activeCounter"] : Rereads("activeCounter", t)
<1>1. \A t \in ListTables["activeCounter"] : t = PullServiceNumber.table \/ t = PullServiceTrunk.table
  BY DEF ListTables
<1>2. Rereads("activeCounter", PullServiceNumber.table)
  <2>1. PullServiceNumber.table[2] = "service_number" /\ Source(PullServiceNumber.table) = "serviceNumber"
    BY DEF PullServiceNumber, Pull, Source
  <2>2. /\ 3 \in DOMAIN Branch("service_number") /\ Branch("service_number")[3] = "activeCounter"
        /\ 2 \in 1..(3 - 1) /\ Branch("service_number")[2] = "serviceNumber"
    BY SeveralListsBranches
  <2> QED
    BY <2>1, <2>2 DEF Rereads
<1>3. Rereads("activeCounter", PullServiceTrunk.table)
  <2>1. PullServiceTrunk.table[2] = "service_trunk" /\ Source(PullServiceTrunk.table) = "serviceTrunk"
    BY DEF PullServiceTrunk, PullServiceNumber, Pull, Source
  <2>2. /\ 3 \in DOMAIN Branch("service_trunk") /\ Branch("service_trunk")[3] = "activeCounter"
        /\ 2 \in 1..(3 - 1) /\ Branch("service_trunk")[2] = "serviceTrunk"
    BY SeveralListsBranches
  <2> QED
    BY <2>1, <2>2 DEF Rereads
<1> QED
  BY <1>1, <1>2, <1>3

\* The clients carry flags of their services, and are read again for both.
LEMMA ClientIsReread == \A t \in ListTables["client"] : Rereads("client", t)
<1>1. \A t \in ListTables["client"] : t[2] \in {"clients", "service_number", "service_trunk"}
  BY DEF ListTables, ClientTables
<1>2. \A e \in {"clients", "service_number", "service_trunk"} :
        1 \in DOMAIN Branch(e) /\ Branch(e)[1] = "client"
  BY OneListBranches, SeveralListsBranches
<1> QED
  BY <1>1, <1>2 DEF Rereads

\* The event a table raises reads every list made from the table again.
LEMMA RightBranch ==
  ASSUME NEW l \in Lists, NEW t \in ListTables[l]
  PROVE  IsNNP(t) \/ Rereads(l, t)
<1>1. CASE l \in {"nnpDestination", "nnpNumberRangePrefix", "nnpPackage",
                  "nnpPackagePrice", "nnpPrefix", "nnpCountry", "nnpRegion",
                  "nnpNumberRange", "nnpOperator", "nnpPackageMinute",
                  "nnpPackagePricelist", "nnpPrefixDestination", "nnpAccountTariffLight"}
  BY <1>1, NumberingPlanLists DEF IsNNP
<1>2. CASE l \in {"server", "hub", "instanceSettings", "airp", "number", "outcome",
                  "prefixlist", "prefixlistPrefix", "releaseReason", "routeCase",
                  "routeTable", "routeTableRoute", "trunkGroup", "trunkGroupItem",
                  "trunkNumberPreprocessing", "trunkPriority", "trunkRule",
                  "trunkTrunkRule", "organization", "voipOperator", "pricelist",
                  "pricelistPrice", "networkPrefix", "geo", "mobPrefix", "geoPrefix",
                  "serviceTrunkSettings", "tariff", "tariffPackage", "tariffChangeLog",
                  "statDestinationPrefixlists", "statPrefixlist", "currencyRate"}
  <2>1. Branch(t[2]) = <<l>>
    BY <1>2, RoutingLists, BillingLists, OneListBranches
  <2>2. 1 \in DOMAIN Branch(t[2]) /\ Branch(t[2])[1] = l
    BY <2>1
  <2> QED
    BY <1>2, <2>2 DEF Rereads
<1>3. CASE l \in {"trunk", "trunkByName", "trunkByAlias"}
  <2>1. t[2] = "trunk"
    BY <1>3, RoutingLists
  <2>2. \E i \in DOMAIN Branch("trunk") : Branch("trunk")[i] = l
    BY <1>3, SeveralListsBranches
  <2> QED
    BY <1>3, <2>1, <2>2 DEF Rereads
<1>4. CASE l \in {"serviceNumber", "serviceNumberByTechNumber"}
  <2>1. t[2] = "service_number"
    BY <1>4, BillingLists
  <2>2. \E i \in DOMAIN Branch("service_number") : Branch("service_number")[i] = l
    BY <1>4, SeveralListsBranches
  <2> QED
    BY <1>4, <2>1, <2>2 DEF Rereads
<1>5. CASE l \in {"serviceNumberPackage", "serviceTrunkPackage"}
  <2>1. t[2] = "service_package"
    BY <1>5, BillingLists
  <2>2. \E i \in DOMAIN Branch("service_package") : Branch("service_package")[i] = l
    BY <1>5, SeveralListsBranches
  <2> QED
    BY <1>5, <2>1, <2>2 DEF Rereads
<1>6. CASE l = "serviceTrunk"
  <2>1. t[2] = "service_trunk"
    BY <1>6, BillingLists
  <2>2. 2 \in DOMAIN Branch("service_trunk") /\ Branch("service_trunk")[2] = l
    BY <1>6, SeveralListsBranches
  <2> QED
    BY <1>6, <2>1, <2>2 DEF Rereads
<1> QED
  BY <1>1, <1>2, <1>3, <1>4, <1>5, <1>6, CounterIsReread, ClientIsReread DEF Lists, ListTables

\* What a list misses is still to be pulled and has the event of its pull, or
\* has the regional event that makes the loader read the list again.
Announced ==
  \A s \in stale :
    /\ s[1] \in Lists /\ s[2] \in ListTables[s[1]]
    /\ ~IsNNP(s[2]) =>
         IF s[2] \in behind THEN \E p \in Pulls : p.table = s[2] /\ p.event \in tableEvents
         ELSE tr_notify(s[2]) \in tableQueue

\* A reload that ends leaves nothing stale that its event announced.
LEMMA LoadEnds ==
  ASSUME Announced, NEW event, NEW s \in LoadedAll(Branch(event)), ~IsNNP(s[2]), s[2] \notin behind
  PROVE  tr_notify(s[2]) # event
<1>1. SUFFICES ASSUME tr_notify(s[2]) = event
               PROVE  FALSE
  OBVIOUS
<1>2. s \in stale /\ \A i \in DOMAIN Branch(event) : s[1] = Branch(event)[i] => ~Loaded(Branch(event), i, s[2])
  BY DEF LoadedAll
<1>3. Rereads(s[1], s[2]) /\ event = s[2][2]
  BY <1>1, <1>2, RightBranch DEF Announced, tr_notify
<1>4. PICK i \in DOMAIN Branch(event) :
        /\ Branch(event)[i] = s[1]
        /\ s[1] = "activeCounter" => \E j \in 1..(i - 1) : Branch(event)[j] = Source(s[2])
  BY <1>3 DEF Rereads
<1>5. Loaded(Branch(event), i, s[2])
  BY <1>4 DEF Loaded
<1> QED
  BY <1>2, <1>4, <1>5

LEMMA AnnouncedStep ==
  ASSUME Announced, [TableNext]_tableVars
  PROVE  Announced'
<1>1. ASSUME NEW e \in Events, TableChange(e)
      PROVE  Announced'
  <2>1. PICK changed : /\ changed = {p.table : p \in {q \in Pulls : q.event = e}}
                       /\ behind' = behind \cup changed
                       /\ stale' = stale \cup {s \in Lists \X changed : s[2] \in ListTables[s[1]]}
    BY <1>1 DEF TableChange
  <2>2. tableEvents' = tableEvents \cup {e} /\ tableQueue' = tableQueue
    BY <1>1 DEF TableChange
  <2>3. \A t \in changed : \E p \in Pulls : p.table = t /\ p.event \in tableEvents'
    BY <2>1, <2>2
  <2>4. SUFFICES ASSUME NEW s \in stale'
                 PROVE  /\ s[1] \in Lists /\ s[2] \in ListTables[s[1]]
                        /\ ~IsNNP(s[2]) =>
                             IF s[2] \in behind'
                             THEN \E p \in Pulls : p.table = s[2] /\ p.event \in tableEvents'
                             ELSE tr_notify(s[2]) \in tableQueue'
    BY DEF Announced
  <2>5. CASE s \in stale
    BY <2>1, <2>2, <2>3, <2>5 DEF Announced
  <2>6. CASE s \in Lists \X changed /\ s[2] \in ListTables[s[1]]
    BY <2>1, <2>3, <2>6
  <2> QED
    BY <2>1, <2>5, <2>6
<1>2. ASSUME NEW e \in Events, PullUnknown(e)
      PROVE  Announced'
  BY <1>2 DEF PullUnknown, Announced
<1>3. ASSUME NEW p \in Pulls, PullRows(p)
      PROVE  Announced'
  BY <1>3, OneTablePerEvent DEF PullRows, Announced
<1>4. ASSUME NEW e \in tableQueue, LoadLists(e)
      PROVE  Announced'
  <2>1. /\ stale' = LoadedAll(Branch(e)) /\ tableQueue' = tableQueue \ {e}
        /\ behind' = behind /\ tableEvents' = tableEvents
    BY <1>4 DEF LoadLists
  <2>2. \A s \in LoadedAll(Branch(e)) : s \in stale
    BY DEF LoadedAll
  <2>3. \A s \in LoadedAll(Branch(e)) : ~IsNNP(s[2]) /\ s[2] \notin behind => tr_notify(s[2]) # e
    BY LoadEnds
  <2> QED
    BY <2>1, <2>2, <2>3 DEF Announced
<1>5. ASSUME NEW e \in tableQueue, NEW n \in 0..3, LoadListsFails(e, n)
      PROVE  Announced'
  <2>1. UNCHANGED <<tableQueue, behind, tableEvents>> /\ \A s \in stale' : s \in stale
    BY <1>5 DEF LoadListsFails, LoadedAll
  <2> QED
    BY <2>1 DEF Announced
<1>6. CASE UNCHANGED tableVars
  BY <1>6 DEF tableVars, Announced
<1> QED
  BY <1>1, <1>2, <1>3, <1>4, <1>5, <1>6 DEF TableNext

\* With no event waiting, every list has the last change of every table it is
\* made from, those of the numbering plan excepted: for all the pulls, lists and
\* branches of the program, any changes and any failing loads (ManagerPull::pull,
\* ThreadLoader::run).
THEOREM AllFresh == TableSpec => []QuietIsFresh
<1>1. TableInit => Announced
  BY DEF TableInit, Announced
<1>2. Announced /\ [TableNext]_tableVars => Announced'
  BY AnnouncedStep
<1>3. Announced => QuietIsFresh
  BY DEF Announced, QuietIsFresh, Quiet
<1> QED
  BY <1>1, <1>2, <1>3, PTL DEF TableSpec

-----------------------------------------------------------------------------
(* Call detail records on their way to the centre.                         *)

(***************************************************************************)
(* The ids of a table are given in order and only once, and the centre has *)
(* nothing but rows of the table.                                          *)
(***************************************************************************)
IdsInv ==
  /\ rows = [t \in Tables |-> rows[t]]
  /\ central = [t \in Tables |-> central[t]]
  /\ nextId \in [Tables -> Nat \ {0}]
  /\ \A t \in Tables : \A r \in rows[t] : r.id \in Nat \ {0} /\ r.id < nextId[t]
  /\ \A t \in Tables : \A r, s \in rows[t] : r.id = s.id => r = s
  /\ \A t \in Tables : \A id \in central[t] : \E r \in rows[t] : r.id = id

\* The files that are named exist, and those behind the parser are stored as
\* far as it has come.
ParserInv ==
  /\ listed \in 0 .. Len(Files)
  /\ cdrFile \subseteq 1 .. listed
  /\ parser = [file |-> parser.file, at |-> parser.at]
  /\ parser.at \in Nat
  /\ parser # Idle =>
       /\ parser.file \in 1 .. listed
       /\ \A i \in 1 .. Len(Calls) : i < parser.at /\ Calls[i].finished => Stored("cdr", Calls[i])

SyncInv ==
  sync # NoSync =>
    /\ sync = [table |-> sync.table, last |-> sync.last, ahead |-> sync.ahead]
    /\ sync.table \in Tables

FlowInv == IdsInv /\ ParserInv /\ SyncInv /\ StoredOnce /\ DoneIsStored /\ NoGaps

-----------------------------------------------------------------------------
(* Lemmas about the operators.                                             *)

\* The greatest of a bounded set of numbers.
LEMMA MaxIdBound ==
  ASSUME NEW S, S \subseteq Nat, NEW n \in Nat, \A x \in S : x <= n
  PROVE  MaxId(S) \in Nat /\ MaxId(S) \in {0} \cup S /\ \A x \in S : x <= MaxId(S)
<1> DEFINE all == {0} \cup S
           left == {n - x : x \in all}
<1>1. \A x \in all : x \in Nat /\ n - x \in Nat
  OBVIOUS
<1>2. left \subseteq Nat /\ left # {}
  BY <1>1
<1>3. PICK least \in left : \A y \in left : ~(<<y, least>> \in OpToRel(<, Nat))
  BY <1>2, NatLessThanWellFounded, WFMin, Zenon
<1>4. \A y \in left : ~(y < least)
  BY <1>2, <1>3 DEF OpToRel
<1>5. PICK top \in all : least = n - top
  BY <1>3
<1>6. \A x \in all : top >= x
  <2> TAKE x \in all
  <2>1. ~(n - x < n - top)
    BY <1>4, <1>5
  <2> QED BY <1>1, <2>1
<1> HIDE DEF all
<1>7. Max(all) \in all /\ \A x \in all : Max(all) >= x
  BY <1>6 DEF Max
<1>8. \A x \in all : x <= Max(all)
  BY <1>1, <1>7
<1>9. Max(all) \in Nat
  BY <1>1, <1>7
<1> QED BY <1>7, <1>8, <1>9 DEF all, MaxId

\* With a row a batch has every earlier one.
LEMMA BatchClosed ==
  ASSUME NEW S, S \subseteq Nat, NEW n \in Nat, \A x \in S : x <= n,
         NEW id \in Batch(S), NEW x \in S, x < id
  PROVE  x \in Batch(S)
<1> DEFINE before == {y \in S : y < x}
           more == {y \in S : y < id}
<1>1. id \in S /\ Cardinality(more) < Limit
  BY DEF Batch
<1>0. id \in Nat /\ x \in Nat /\ \A y \in S : y \in Nat /\ y <= n
  BY <1>1
<1>2. before \subseteq more
  <2>1. ASSUME NEW y \in S, y < x PROVE y < id
    BY <1>0, <2>1
  <2> QED BY <2>1
<1>3. IsFiniteSet(0 .. n)
  <2>1. 0 \in Int /\ n \in Int
    OBVIOUS
  <2> QED BY <2>1, FS_Interval
<1>4. more \subseteq 0 .. n
  <2>1. \A y \in S : y \in 0 .. n
    BY <1>0
  <2> QED BY <2>1
<1> HIDE DEF before, more
<1>5. IsFiniteSet(more) /\ IsFiniteSet(before)
  BY <1>2, <1>3, <1>4, FS_Subset
<1>6. Cardinality(before) <= Cardinality(more)
  BY <1>2, <1>5, FS_Subset
<1>7. Cardinality(before) \in Nat /\ Cardinality(more) \in Nat
  BY <1>5, FS_CardinalityType
<1>8. Cardinality(before) < Limit
  BY <1>1, <1>6, <1>7, CdrFlowAssumption
<1> QED BY <1>8 DEF Batch, before

-----------------------------------------------------------------------------
(* The writing of rows.                                                    *)

\* New rows have ids of their own behind all others; into cdr only one is
\* written, and only where its hash is new.
LEMMA AddRowsKeeps ==
  ASSUME FlowInv, NEW t \in Tables, NEW call, NEW n \in Nat, AddRows(t, call, n), central' = central,
         t = "cdr" => n = 1 /\ ~Stored("cdr", call)
  PROVE  /\ IdsInv' /\ StoredOnce' /\ NoGaps'
         /\ \A u \in Tables : rows[u] \subseteq rows'[u]
         /\ t = "cdr" => Stored("cdr", call)'
<1> DEFINE ids == nextId[t] .. nextId[t] + n - 1
           new == {RowOf(call, id) : id \in ids}
<1>1. nextId[t] \in Nat \ {0} /\ \A id \in ids : id \in Nat \ {0} /\ nextId[t] <= id /\ id < nextId[t] + n
  BY DEF FlowInv, IdsInv
<1>2. /\ nextId' \in [Tables -> Nat \ {0}]
      /\ \A u \in Tables : nextId[u] <= nextId'[u]
      /\ nextId'[t] = nextId[t] + n
  BY <1>1 DEF AddRows, FlowInv, IdsInv
<1>3. rows' = [rows EXCEPT ![t] = @ \cup new]
  BY DEF AddRows
<1>4. \A r \in new : /\ r.id \in Nat \ {0} /\ nextId[t] <= r.id /\ r.id < nextId'[t]
                     /\ r.hash = call.hash /\ r.month = call.month /\ r = RowOf(call, r.id)
  BY <1>1, <1>2 DEF RowOf
<1>5. t = "cdr" => \A r, s \in new : r = s
  BY <1>1 DEF RowOf
<1>6. t = "cdr" => \E r \in new : r.hash = call.hash /\ r.month = call.month
  <2>1. t = "cdr" => nextId[t] \in ids
    BY <1>1
  <2>2. t = "cdr" => RowOf(call, nextId[t]) \in new
    BY <2>1
  <2> HIDE DEF new, ids
  <2> QED BY <1>4, <2>2
<1> HIDE DEF new, ids
<1>7. /\ rows' = [u \in Tables |-> rows'[u]]
      /\ \A u \in Tables : u # t => rows'[u] = rows[u]
      /\ rows'[t] = rows[t] \cup new
  BY <1>3 DEF FlowInv, IdsInv
<1>8. ASSUME NEW u \in Tables
      PROVE  \A r \in rows[u] : r.id \in Nat \ {0} /\ r.id < nextId[u] /\ r.id < nextId'[u]
  BY <1>2 DEF FlowInv, IdsInv
<1>9. \A u \in Tables : \A r \in rows'[u] : r \in rows[u] \/ (u = t /\ r \in new)
  BY <1>7
<1>10. ASSUME NEW u \in Tables PROVE rows[u] \subseteq rows'[u]
  BY <1>7
<1>11. IdsInv'
  <2>1. \A u \in Tables : \A r \in rows'[u] : r.id \in Nat \ {0} /\ r.id < nextId'[u]
    BY <1>4, <1>8, <1>9
  <2>2. ASSUME NEW u \in Tables, NEW r \in rows'[u], NEW s \in rows'[u], r.id = s.id
        PROVE  r = s
    <3>1. \A x \in rows[t], y \in new : x.id # y.id
      BY <1>1, <1>4, <1>8
    <3>2. \A x, y \in new : x.id = y.id => x = y
      BY <1>4
    <3> QED BY <1>9, <2>2, <3>1, <3>2 DEF FlowInv, IdsInv
  <2>3. \A u \in Tables : \A id \in central'[u] : \E r \in rows'[u] : r.id = id
    BY <1>10 DEF FlowInv, IdsInv
  <2>4. central' = [u \in Tables |-> central'[u]]
    BY DEF FlowInv, IdsInv
  <2> QED BY <1>2, <1>7, <2>1, <2>2, <2>3, <2>4 DEF IdsInv
<1>12. StoredOnce'
  <2> SUFFICES ASSUME NEW r \in rows'["cdr"], NEW s \in rows'["cdr"], r.hash = s.hash, r.month = s.month
               PROVE  r = s
    BY DEF StoredOnce
  <2>0. "cdr" \in Tables
    BY DEF Tables
  <2>1. t = "cdr" => \A x \in rows["cdr"], y \in new : ~(x.hash = y.hash /\ x.month = y.month)
    BY <1>4 DEF Stored
  <2> QED BY <1>5, <1>9, <2>0, <2>1 DEF FlowInv, StoredOnce
<1>13. NoGaps'
  <2> SUFFICES ASSUME NEW u \in Tables, NEW r \in rows'[u], NEW s \in rows'[u],
                      r.month = s.month, r.id < s.id, s.id \in central[u]
               PROVE  r.id \in central[u]
    BY DEF NoGaps
  <2>1. PICK x \in rows[u] : x.id = s.id
    BY DEF FlowInv, IdsInv
  <2>2. s.id \in Nat /\ s.id < nextId[u] /\ nextId[u] \in Nat
    BY <1>8, <2>1 DEF FlowInv, IdsInv
  <2>3. s \in rows[u]
    BY <1>4, <1>9, <2>2
  <2>4. r.id \in Nat
    BY <1>4, <1>8, <1>9
  <2>5. r \in rows[u]
    BY <1>4, <1>9, <2>2, <2>4
  <2> QED BY <2>3, <2>5 DEF FlowInv, NoGaps
<1>14. t = "cdr" => Stored("cdr", call)'
  BY <1>6, <1>7 DEF Stored
<1> QED BY <1>10, <1>11, <1>12, <1>13, <1>14

-----------------------------------------------------------------------------
(* The copy of a batch.                                                    *)

LEMMA CopyKeepsIds ==
  ASSUME FlowInv, NEW t \in Tables, NEW m, central' = copy(t, m), UNCHANGED <<rows, nextId>>
  PROVE  IdsInv' /\ NoGaps'
<1> DEFINE missing == Behind(t, m)
           batch == Batch(missing)
           n == nextId[t]
<1>1. /\ central' = [u \in Tables |-> central'[u]]
      /\ central'[t] = central[t] \cup batch
      /\ \A u \in Tables : u # t => central'[u] = central[u]
  BY DEF copy, FlowInv, IdsInv
<1>2. n \in Nat /\ \A r \in rows[t] : r.id \in Nat \ {0} /\ r.id <= n
  BY DEF FlowInv, IdsInv
<1>3. \A id : id \in missing <=>
             \E r \in rows[t] : /\ r.id = id /\ r.month = m
                              /\ \A y \in rows[t] : y.month = m /\ y.id \in central[t] => y.id < r.id
  BY DEF Behind, InMonth
<1>4. missing \subseteq Nat /\ \A x \in missing : x <= n
  BY <1>2, <1>3
<1>8. batch \subseteq missing
  BY DEF Batch
<1> HIDE DEF missing, batch, n
<1>9. ASSUME NEW id \in batch PROVE \E r \in rows[t] : r.id = id /\ r.month = m
  BY <1>3, <1>8
<1>10. IdsInv'
  <2>1. \A u \in Tables : \A id \in central'[u] : \E r \in rows[u] : r.id = id
    BY <1>1, <1>9 DEF FlowInv, IdsInv
  <2>2. UNCHANGED <<rows, nextId>>
    OBVIOUS
  <2> QED BY <1>1, <2>1, <2>2 DEF FlowInv, IdsInv
<1>11. ASSUME NEW r \in rows[t], NEW s \in rows[t], r.month = s.month, r.id < s.id, s.id \in batch
       PROVE  r.id \in central'[t]
  <2>1. s.month = m
    BY <1>9, <1>11 DEF FlowInv, IdsInv
  <2>2. CASE \A y \in rows[t] : y.month = m /\ y.id \in central[t] => y.id < r.id
    <3>1. r.id \in missing
      BY <1>3, <1>11, <2>1, <2>2
    <3>2. r.id \in Batch(missing)
      BY <1>2, <1>4, <1>11, <3>1, BatchClosed DEF batch
    <3> QED BY <1>1, <3>2 DEF batch
  <2>3. CASE \E y \in rows[t] : y.month = m /\ y.id \in central[t] /\ ~(y.id < r.id)
    <3>1. PICK y \in rows[t] : y.month = m /\ y.id \in central[t] /\ ~(y.id < r.id)
      BY <2>3
    <3>2. r.id = y.id \/ r.id < y.id
      BY <1>2, <3>1
    <3>3. r.id \in central[t]
      BY <1>11, <2>1, <3>1, <3>2 DEF FlowInv, NoGaps
    <3> QED BY <1>1, <3>3
  <2> QED BY <2>2, <2>3
<1>12. NoGaps'
  <2> SUFFICES ASSUME NEW u \in Tables, NEW r \in rows[u], NEW s \in rows[u],
                      r.month = s.month, r.id < s.id, s.id \in central'[u]
               PROVE  r.id \in central'[u]
    BY DEF NoGaps
  <2>1. CASE s.id \in central[u]
    <3>1. r.id \in central[u]
      BY <2>1 DEF FlowInv, NoGaps
    <3> QED BY <1>1, <3>1
  <2>2. CASE u = t /\ s.id \in batch
    BY <1>11, <2>2
  <2> QED BY <1>1, <2>1, <2>2
<1> QED BY <1>10, <1>12

-----------------------------------------------------------------------------
(* The steps.                                                              *)

\* Steps of the parser's other variables, and of the synchronisation, that
\* leave the rows alone.
LEMMA RowsKept ==
  ASSUME FlowInv, UNCHANGED <<rows, nextId, central>>
  PROVE  IdsInv' /\ StoredOnce' /\ NoGaps'
BY DEF FlowInv, IdsInv, StoredOnce, NoGaps

LEMMA ParserKept ==
  ASSUME FlowInv, UNCHANGED <<listed, cdrFile, rows, parser>>
  PROVE  ParserInv' /\ DoneIsStored'
BY DEF FlowInv, ParserInv, DoneIsStored, Stored, Calls

\* The calls of a file number at least none.
LEMMA LenOfCalls ==
  ASSUME NEW f \in 1 .. Len(Files)
  PROVE  Len(parseFile(Files[f])) \in Nat
<1>1. parseFile(Files[f]) \in {<<>>, Files[f]}
  BY DEF parseFile
<1> QED BY <1>1, CdrFlowAssumption

LEMMA NewFileKeeps ==
  ASSUME FlowInv, NewFile
  PROVE  FlowInv'
<1>1. UNCHANGED <<cdrFile, rows, nextId, parser, central, sync>>
  BY DEF NewFile
<1>2. IdsInv' /\ StoredOnce' /\ NoGaps'
  BY <1>1, RowsKept
<1>3. listed' \in 0 .. Len(Files) /\ 1 .. listed \subseteq 1 .. listed'
  BY CdrFlowAssumption DEF NewFile, FlowInv, ParserInv
<1>4. ParserInv'
  BY <1>1, <1>3 DEF FlowInv, ParserInv, Stored, Calls
<1>5. DoneIsStored' /\ SyncInv'
  BY <1>1 DEF FlowInv, DoneIsStored, SyncInv, Stored
<1> QED BY <1>2, <1>4, <1>5 DEF FlowInv

\* The search starts a file at its first call, or finds none.
LEMMA FindFileKeeps ==
  ASSUME FlowInv, FindFile
  PROVE  FlowInv'
<1>1. UNCHANGED <<listed, cdrFile, rows, nextId, central, sync>>
  BY DEF FindFile
<1>2. IdsInv' /\ StoredOnce' /\ NoGaps'
  BY <1>1, RowsKept
<1>3. listed \in Nat /\ cdrFile \subseteq 1 .. listed
  BY CdrFlowAssumption DEF FlowInv, ParserInv
<1>4. Max({0} \cup cdrFile) \in Nat
  <2>1. cdrFile \subseteq Nat /\ \A x \in cdrFile : x <= listed
    BY <1>3
  <2>2. MaxId(cdrFile) \in Nat
    BY <1>3, <2>1, MaxIdBound
  <2> QED BY <2>2 DEF MaxId
<1>5. PICK f \in Nat : parser' = FileAfter(f)
  <2>1. \A f \in (Max({0} \cup cdrFile) + 1) .. listed : f \in Nat
    BY <1>3, <1>4
  <2> QED BY <1>4, <2>1 DEF FindFile
<1>6. parser' = Idle \/ (parser' = [file |-> f + 1, at |-> 1] /\ f + 1 \in 1 .. listed)
  BY <1>3, <1>5 DEF FileAfter
<1>7. ParserInv'
  <2>1. \A i \in 1 .. Len(Calls') : ~(i < parser'.at)
    BY <1>6 DEF Idle
  <2>2. /\ parser' = [file |-> parser'.file, at |-> parser'.at]
        /\ parser'.at \in Nat
        /\ parser' # Idle => parser'.file \in 1 .. listed
    BY <1>6 DEF Idle
  <2> QED BY <1>1, <2>1, <2>2 DEF FlowInv, ParserInv
<1>8. DoneIsStored' /\ SyncInv'
  BY <1>1 DEF FlowInv, DoneIsStored, SyncInv, Stored
<1> QED BY <1>2, <1>7, <1>8 DEF FlowInv

\* One call more is stored, dropped as one that is stored already, or passed
\* over as unfinished.
LEMMA SaveCallKeeps ==
  ASSUME FlowInv, SaveCall
  PROVE  FlowInv'
<1>0. PICK call : call = Calls[parser.at]
  OBVIOUS
<1>1. UNCHANGED <<listed, cdrFile, central, sync>>
  BY DEF SaveCall
<1>2. /\ parser # Idle /\ parser.at \in Nat /\ parser.file \in 1 .. listed
      /\ parser' = [file |-> parser.file, at |-> parser.at + 1]
  BY DEF SaveCall, FlowInv, ParserInv
<1>3. \/ call.finished /\ tr_partitioning(call)
      \/ ~call.finished /\ \E n \in Nat : AddRows("cdr_unfinished", call, n)
      \/ ~call.finished /\ UNCHANGED <<rows, nextId>>
  BY <1>0 DEF SaveCall
<1>4. /\ IdsInv' /\ StoredOnce' /\ NoGaps'
      /\ rows["cdr"] \subseteq rows'["cdr"]
      /\ call.finished => Stored("cdr", call)'
  <2>0. "cdr" \in Tables /\ "cdr_unfinished" \in Tables
    BY DEF Tables
  <2>1. CASE call.finished /\ tr_partitioning(call)
    <3>1. CASE Stored("cdr", call)
      <4>1. UNCHANGED <<rows, nextId, central>>
        BY <1>1, <2>1, <3>1 DEF tr_partitioning
      <4> QED BY <3>1, <4>1, RowsKept DEF Stored
    <3>2. CASE ~Stored("cdr", call)
      <4>1. AddRows("cdr", call, 1)
        BY <2>1, <3>2 DEF tr_partitioning
      <4> QED BY <1>1, <2>0, <3>2, <4>1, AddRowsKeeps
    <3> QED BY <3>1, <3>2
  <2>2. CASE ~call.finished /\ \E n \in Nat : AddRows("cdr_unfinished", call, n)
    BY <1>1, <2>0, <2>2, AddRowsKeeps
  <2>3. CASE ~call.finished /\ UNCHANGED <<rows, nextId>>
    BY <1>1, <2>3, RowsKept
  <2> QED BY <1>3, <2>1, <2>2, <2>3
<1>5. \A c : Stored("cdr", c) => Stored("cdr", c)'
  BY <1>4 DEF Stored
<1>6. DoneIsStored'
  BY <1>1, <1>5 DEF FlowInv, DoneIsStored
<1>7. ParserInv'
  <2>1. parser'.file = parser.file /\ parser'.at = parser.at + 1 /\ Calls' = Calls
    BY <1>2 DEF Calls
  <2>2. Len(Calls) \in Nat
    <3>1. parser.file \in 1 .. Len(Files)
      BY <1>2, CdrFlowAssumption DEF FlowInv, ParserInv
    <3> QED BY <3>1, LenOfCalls DEF Calls
  <2>3. ASSUME NEW i \in 1 .. Len(Calls), i < parser.at + 1, NEW c, c = Calls[i], c.finished
        PROVE  Stored("cdr", c)'
    <3>1. CASE i < parser.at
      <4>1. Stored("cdr", c)
        BY <1>2, <2>3, <3>1 DEF FlowInv, ParserInv
      <4> QED BY <1>5, <4>1
    <3>2. CASE i = parser.at
      BY <1>0, <1>4, <2>3, <3>2
    <3> QED BY <1>2, <2>2, <2>3, <3>1, <3>2
  <2>4. \A i \in 1 .. Len(Calls') : i < parser'.at /\ Calls'[i].finished =>
          \E r \in rows'["cdr"] : r.hash = Calls'[i].hash /\ r.month = Calls'[i].month
    BY <2>1, <2>3 DEF Stored
  <2>5. parser' = [file |-> parser'.file, at |-> parser'.at] /\ parser'.at \in Nat
    BY <1>2
  <2> QED BY <1>1, <1>2, <2>1, <2>4, <2>5 DEF FlowInv, ParserInv, Stored
<1>8. SyncInv'
  BY <1>1 DEF FlowInv, SyncInv
<1> QED BY <1>4, <1>6, <1>7, <1>8 DEF FlowInv

\* The row of a file follows its last call.
LEMMA SaveFileKeeps ==
  ASSUME FlowInv, SaveFile
  PROVE  FlowInv'
<1>1. UNCHANGED <<listed, rows, nextId, central, sync>> /\ parser' = Idle
  BY DEF SaveFile
<1>2. IdsInv' /\ StoredOnce' /\ NoGaps' /\ SyncInv'
  BY <1>1, RowsKept DEF FlowInv, SyncInv
<1>3. cdrFile' = cdrFile \cup {parser.file} /\ parser.file \in 1 .. listed
  BY DEF SaveFile, FlowInv, ParserInv
<1>4. ParserInv'
  BY <1>1, <1>3 DEF FlowInv, ParserInv, Idle
<1>5. \A i \in 1 .. Len(Calls) : Calls[i].finished => Stored("cdr", Calls[i])
  <2>1. Len(Calls) \in Nat
    <3>1. parser.file \in 1 .. Len(Files)
      BY <1>3, CdrFlowAssumption DEF FlowInv, ParserInv
    <3> QED BY <3>1, LenOfCalls DEF Calls
  <2>2. parser # Idle /\ parser.at = Len(Calls) + 1
    BY DEF SaveFile
  <2>3. \A i \in 1 .. Len(Calls) : i < parser.at
    BY <2>1, <2>2
  <2> QED BY <2>2, <2>3 DEF FlowInv, ParserInv
<1>6. DoneIsStored'
  BY <1>1, <1>3, <1>5 DEF FlowInv, DoneIsStored, Stored, Calls
<1> QED BY <1>2, <1>4, <1>6 DEF FlowInv

\* The run ends, by a failure or because an insert is refused.
LEMMA ParserFailsKeeps ==
  ASSUME FlowInv, ParserFails \/ SaveCallRefused
  PROVE  FlowInv'
<1>1. UNCHANGED <<listed, cdrFile, rows, nextId, central, sync>> /\ parser' = Idle
  BY DEF ParserFails, SaveCallRefused
<1>2. IdsInv' /\ StoredOnce' /\ NoGaps' /\ SyncInv'
  BY <1>1, RowsKept DEF FlowInv, SyncInv
<1>3. ParserInv'
  BY <1>1 DEF FlowInv, ParserInv, Idle
<1>4. DoneIsStored'
  BY <1>1 DEF FlowInv, DoneIsStored, Stored
<1> QED BY <1>2, <1>3, <1>4 DEF FlowInv

\* A run of the synchronisation goes through the two tables.
LEMMA SyncKeeps ==
  ASSUME FlowInv, SyncCdrs
  PROVE  FlowInv'
<1>1. UNCHANGED <<listed, cdrFile, rows, nextId, parser>>
  BY DEF SyncCdrs, StartSync, Copy, UpToDate, TableDone, SyncFails
<1>2. ParserInv' /\ DoneIsStored' /\ StoredOnce'
  BY <1>1, ParserKept DEF FlowInv, StoredOnce
<1>3. SyncInv'
  BY DEF SyncCdrs, StartSync, Copy, UpToDate, TableDone, SyncFails, AfterFalse, AfterTable, NoSync,
         FlowInv, SyncInv, Tables
<1>4. \/ central' = central
      \/ sync # NoSync /\ \E m : central' = copy(sync.table, m)
  BY DEF SyncCdrs, StartSync, Copy, UpToDate, TableDone, SyncFails
<1>5. IdsInv' /\ NoGaps'
  <2>1. CASE central' = central
    BY <1>1, <2>1, RowsKept
  <2>2. CASE sync # NoSync /\ \E m : central' = copy(sync.table, m)
    BY <1>1, <2>2, CopyKeepsIds DEF FlowInv, SyncInv
  <2> QED BY <1>4, <2>1, <2>2
<1> QED BY <1>2, <1>3, <1>5 DEF FlowInv

LEMMA FlowInvStep ==
  ASSUME FlowInv, [FlowNext]_flowVars
  PROVE  FlowInv'
<1>1. CASE UNCHANGED flowVars
  <2>1. UNCHANGED <<listed, cdrFile, rows, nextId, parser, central, sync>>
    BY <1>1 DEF flowVars
  <2> QED BY <2>1, RowsKept, ParserKept DEF FlowInv, SyncInv
<1> QED BY <1>1, NewFileKeeps, FindFileKeeps, SaveCallKeeps, SaveFileKeeps, ParserFailsKeeps, SyncKeeps
    DEF FlowNext, Parser

-----------------------------------------------------------------------------
(***************************************************************************)
(* The invariant of the way of a record: ids in order, files stored as far *)
(* as the parser has come, and the three promises below.                   *)
(***************************************************************************)
THEOREM FlowInvariant == FlowSpec => []FlowInv
<1>1. FlowInit => FlowInv
  BY CdrFlowAssumption DEF FlowInit, Idle, NoSync, Tables, FlowInv, IdsInv, ParserInv, SyncInv,
                           StoredOnce, DoneIsStored, NoGaps
<1>2. FlowInv /\ [FlowNext]_flowVars => FlowInv'
  BY FlowInvStep
<1> QED BY <1>1, <1>2, PTL DEF FlowSpec

(***************************************************************************)
(* For any files and any number of failures: a file that is read again     *)
(* leaves no call twice in a partition of cdr, and once a file is done its *)
(* finished calls are in the table, wherever its earlier readings broke    *)
(* off                                                                     *)
(* (ThreadCdrParser::processFile, saveCdrFile, calls_cdr.tr_partitioning). *)
(***************************************************************************)
THEOREM AlwaysStoredOnce == FlowSpec => []FilesStoredOnce
<1>1. FlowInv => FilesStoredOnce
  BY DEF FlowInv, FilesStoredOnce
<1> QED BY <1>1, FlowInvariant, PTL

(***************************************************************************)
(* The centre has every row of a partition up to the greatest id it has of *)
(* it, for batches of any size and copies that fail or only seem to        *)
(* (ThreadSyncCdrs::copyCallsCdr, copyCallsCdrUnfinished).                 *)
(***************************************************************************)
THEOREM NeverAGap == FlowSpec => []NoGaps
<1>1. FlowInv => NoGaps
  BY DEF FlowInv
<1> QED BY <1>1, FlowInvariant, PTL

=============================================================================
