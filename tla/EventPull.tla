----------------------------- MODULE EventPull -----------------------------
(***************************************************************************)
(* How the dictionaries (clients, tariffs, trunks, routes, ...) travel     *)
(* from the central database to the memory of the regional daemon:         *)
(*                                                                         *)
(*   central tables --sync--> regional tables --loader--> lists in memory  *)
(*                                                                         *)
(* Each arrow is driven by a table event.queue.  Thread "sync" reads the   *)
(* central queue, pulls the rows its events name and deletes the events up *)
(* to a version; thread "loader" reads the regional queue, reloads a list  *)
(* per event and deletes the event by its version.  A row is the number of *)
(* the change it was last written by, or 0 where there is none.            *)
(***************************************************************************)
EXTENDS Naturals, FiniteSets

CONSTANTS
  Table,       \* the tables, each with one BasePull and one list in memory
  Keyless,     \* those whose BasePull has no key: always pulled whole
  Key,         \* the keys of a table's rows
  All,         \* the event parameter "0": the whole table
  PartSize,    \* ManagerPull::part_size
  MaxChanges,  \* bound: changes in the central database
  FaultKinds,  \* the kinds of fault that may happen
  MaxFaults    \* bound: faults in one behaviour

ASSUME EventPullAssumption ==
  /\ Keyless \subseteq Table
  /\ All \notin Key
  /\ PartSize \in Nat \ {0}
  /\ {MaxChanges, MaxFaults} \subseteq Nat
  /\ FaultKinds \subseteq {"pull", "reconnect", "delete", "load", "crash"}

VARIABLES
  src,      \* the central tables
  events,   \* the central event.queue, this region's rows
  changes,  \* the last version handed out by the central queue
  dst,      \* the regional tables
  queue,    \* the regional event.queue: the version waiting per table, or 0
  seq,      \* the last version handed out by the regional queue
  mem,      \* the lists in memory
  lost,     \* history: the rows (table and key) whose pull a repeated COMMIT rolled
            \*   back, and that have not been pulled since
  pull,     \* ManagerPull::pull: where it is and what it holds
  loader,   \* ThreadLoader: the same
  faults    \* how many faults have happened

centralVars == <<src, events, changes>>
regionVars  == <<dst, queue, seq>>
vars == <<centralVars, regionVars, mem, lost, pull, loader, faults>>

Rows == [Key -> Nat]
NoRows == [k \in Key |-> 0]
NoVersion == [t \in Table |-> 0]

PullIdle == [pc |-> "idle", part |-> {}, version |-> 0, todo |-> {}, table |-> All]
LoaderIdle == [pc |-> "idle", todo |-> {}, seen |-> NoVersion, table |-> All]

Fault(kind) == kind \in FaultKinds /\ faults < MaxFaults /\ faults' = faults + 1

-----------------------------------------------------------------------------
(* The central database: a trigger notifies every change of a row, some    *)
(* tables as a change of the whole table.                                  *)

Change(t, k, param) ==
  /\ changes < MaxChanges
  /\ changes' = changes + 1
  /\ src' = [src EXCEPT ![t][k] = changes + 1]
  /\ events' = events \cup {[event |-> t, param |-> param, version |-> changes + 1]}
  /\ UNCHANGED <<regionVars, mem, lost, pull, loader, faults>>

-----------------------------------------------------------------------------
(* Thread "sync": ManagerPull::pull.                                       *)

\* The first part_size events in the order of their versions.
Part == {e \in events : Cardinality({f \in events : f.version < e.version}) < PartSize}

\* The version up to which events will be deleted: res.last() has moved to the
\* last row of the whole answer.
LastVersion == CHOOSE v \in {e.version : e \in events} : \A e \in events : e.version <= v

PullQuery ==
  /\ pull.pc = "idle"
  /\ events # {}
  /\ pull' = [pc |-> "pull", part |-> Part, version |-> LastVersion, todo |-> Table, table |-> All]
  /\ UNCHANGED <<centralVars, regionVars, mem, lost, loader, faults>>

\* What the events of the part ask of table t: BasePull::addId.
Params(t) == {e.param : e \in {f \in pull.part : f.event = t}}
need_pull(t) == Params(t) # {}
full_pull(t) == t \in Keyless \/ All \in Params(t)
PulledKeysNamed(t) ==  \* mutant: a whole pull copies only the rows named
  Params(t) \ {All}
PulledKeys(t) == IF full_pull(t) THEN Key ELSE Params(t)

NextTable == IF pull.todo \ {pull.table} = {}
             THEN PullIdle
             ELSE [pull EXCEPT !.pc = "pull", !.todo = @ \ {pull.table}, !.table = All]

\* The rows pulled replace those of the region, whose triggers queue an event.
Written(t, rows) ==
  /\ dst' = [dst EXCEPT ![t] = [k \in Key |-> IF k \in PulledKeys(t) THEN rows[k] ELSE dst[t][k]]]
  /\ seq' = seq + 1
  /\ queue' = [queue EXCEPT ![t] = seq + 1]

PulledRows(t) == {t} \X PulledKeys(t)

\* BasePull::pull in one transaction.
PullTable(t) ==
  /\ pull.pc = "pull"
  /\ t \in pull.todo
  /\ IF need_pull(t)
     THEN Written(t, src[t]) /\ lost' = lost \ PulledRows(t)
     ELSE UNCHANGED <<regionVars, lost>>
  /\ pull' = [pull EXCEPT !.pc = "delete", !.table = t]
  /\ UNCHANGED <<centralVars, mem, loader, faults>>

\* The connection to the region is lost and trans.commit() is repeated on a new
\* one: it only warns, the rows are rolled back and nothing throws.
PullCommitRepeated(t) ==
  /\ pull.pc = "pull"
  /\ t \in pull.todo
  /\ need_pull(t)
  /\ Fault("reconnect")
  /\ lost' = lost \cup PulledRows(t)
  /\ pull' = [pull EXCEPT !.pc = "delete", !.table = t]
  /\ UNCHANGED <<centralVars, regionVars, mem, loader>>

\* The exception is logged and the next table is tried.  When it was DELETE that
\* was repeated on a new connection it is outside the transaction, and stays.
PullTableFails(t) ==
  /\ pull.pc = "pull"
  /\ t \in pull.todo
  /\ need_pull(t)
  /\ \/ Fault("pull") /\ UNCHANGED regionVars
     \/ Fault("reconnect") /\ Written(t, NoRows)
  /\ pull' = IF pull.todo = {t} THEN PullIdle ELSE [pull EXCEPT !.todo = @ \ {t}]
  /\ UNCHANGED <<centralVars, mem, lost, loader>>

DoneEventsOfTable == {e \in events : e.event = pull.table}  \* mutant: no version
DoneEvents == {e \in events : e.event = pull.table /\ e.version <= pull.version}

PullDelete ==
  /\ pull.pc = "delete"
  /\ events' = events \ DoneEvents
  /\ pull' = NextTable
  /\ UNCHANGED <<src, changes, regionVars, mem, lost, loader, faults>>

PullDeleteFails ==
  /\ pull.pc = "delete"
  /\ Fault("delete")
  /\ pull' = NextTable
  /\ UNCHANGED <<centralVars, regionVars, mem, lost, loader>>

-----------------------------------------------------------------------------
(* Thread "loader": prepare, then run.                                     *)

\* do_load_data: the queue is emptied, then every list is loaded.
BootClear ==
  /\ loader.pc = "boot"
  /\ queue' = NoVersion
  /\ loader' = [loader EXCEPT !.pc = "bootLoad", !.todo = Table]
  /\ UNCHANGED <<centralVars, dst, seq, mem, lost, pull, faults>>

BootLoad(t) ==
  /\ loader.pc = "bootLoad"
  /\ t \in loader.todo
  /\ mem' = [mem EXCEPT ![t] = dst[t]]
  /\ loader' = IF loader.todo = {t} THEN LoaderIdle ELSE [loader EXCEPT !.todo = @ \ {t}]
  /\ UNCHANGED <<centralVars, regionVars, lost, pull, faults>>

BootLoadFails ==
  /\ loader.pc = "bootLoad"
  /\ Fault("load")
  /\ loader' = [LoaderIdle EXCEPT !.pc = "boot"]
  /\ UNCHANGED <<centralVars, regionVars, mem, lost, pull>>

LoaderQuery ==
  /\ loader.pc = "idle"
  /\ queue # NoVersion
  /\ loader' = [pc |-> "load", todo |-> {t \in Table : queue[t] # 0}, seen |-> queue, table |-> All]
  /\ UNCHANGED <<centralVars, regionVars, mem, lost, pull, faults>>

LoaderLoad(t) ==
  /\ loader.pc = "load"
  /\ t \in loader.todo
  /\ mem' = [mem EXCEPT ![t] = dst[t]]
  /\ loader' = [loader EXCEPT !.pc = "delete", !.table = t]
  /\ UNCHANGED <<centralVars, regionVars, lost, pull, faults>>

LoadedEvents == {loader.table}  \* mutant: the version is not compared
LoadedEvent == {t \in {loader.table} : queue[t] = loader.seen[t]}

LoaderDelete ==
  /\ loader.pc = "delete"
  /\ queue' = [t \in Table |-> IF t \in LoadedEvent THEN 0 ELSE queue[t]]
  /\ loader' = IF loader.todo = {loader.table}
               THEN LoaderIdle
               ELSE [loader EXCEPT !.pc = "load", !.todo = @ \ {loader.table}, !.table = All]
  /\ UNCHANGED <<centralVars, dst, seq, mem, lost, pull, faults>>

\* An exception ends run; the thread's loop calls it again.
LoaderFails ==
  /\ loader.pc \in {"load", "delete"}
  /\ Fault("load")
  /\ loader' = LoaderIdle
  /\ UNCHANGED <<centralVars, regionVars, mem, lost, pull>>

-----------------------------------------------------------------------------
\* The daemon dies and is started again.
CrashRestart ==
  /\ Fault("crash")
  /\ mem' = [t \in Table |-> NoRows]
  /\ pull' = PullIdle
  /\ loader' = [LoaderIdle EXCEPT !.pc = "boot"]
  /\ UNCHANGED <<centralVars, regionVars, lost>>

Init ==
  /\ src = [t \in Table |-> NoRows]
  /\ events = {}
  /\ changes = 0
  /\ dst = src
  /\ queue = NoVersion
  /\ seq = 0
  /\ mem = src
  /\ lost = {}
  /\ pull = PullIdle
  /\ loader = [LoaderIdle EXCEPT !.pc = "boot"]
  /\ faults = 0

Central == \E t \in Table, k \in Key : \E param \in {k, All} : Change(t, k, param)
Sync    == PullQuery \/ (\E t \in Table : PullTable(t)) \/ PullDelete
Loader  == \/ BootClear \/ LoaderQuery \/ LoaderDelete
           \/ \E t \in Table : BootLoad(t) \/ LoaderLoad(t)
Failure == \/ \E t \in Table : PullTableFails(t) \/ PullCommitRepeated(t)
           \/ PullDeleteFails \/ BootLoadFails \/ LoaderFails \/ CrashRestart

Next == Central \/ Sync \/ Loader \/ Failure

\* The loops of the two threads; nothing is assumed of changes and faults.
Fairness == WF_vars(Sync) /\ WF_vars(Loader)

Spec == Init /\ [][Next]_vars
FairSpec == Spec /\ Fairness

-----------------------------------------------------------------------------
(* Properties.                                                             *)

\* A row of the region that is behind the central one has an event waiting for
\* it: the events that ManagerPull::pull deletes are the ones it has pulled.
\* Only a pull whose COMMIT exec repeated on a new connection forgets its rows,
\* until they are pulled again.
NoEventForgotten ==
  \A t \in Table, k \in Key :
    dst[t][k] # src[t][k] =>
      \/ <<t, k>> \in lost
      \/ \E e \in events : e.event = t /\ (e.param \in {k, All} \/ t \in Keyless)

\* Once the lists are loaded, a list that is behind its table has an event
\* waiting, although the table may change between the reload and the deletion.
NoReloadForgotten ==
  \A t \in Table : mem[t] # dst[t] =>
    \/ queue[t] # 0
    \/ loader.pc = "boot"
    \/ loader.pc = "bootLoad" /\ t \in loader.todo

\* In the end the lists in memory are what the central database holds, but for
\* the rows whose last pull ended in a COMMIT repeated on a new connection.
MemoryCatchesUp ==
  <>[](\A t \in Table, k \in Key : <<t, k>> \in lost \/ mem[t][k] = src[t][k])
=============================================================================
