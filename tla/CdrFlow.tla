------------------------------- MODULE CdrFlow -------------------------------
(***************************************************************************)
(* The way of a call detail record: ThreadCdrParser takes the switch's     *)
(* files from the FTP server and writes their calls to calls_cdr.cdr and   *)
(* calls_cdr.cdr_unfinished, month by month; ThreadSyncCdrs copies both    *)
(* tables to the central database, a month's partition at a time.  A file  *)
(* is found by looking back from the newest one to the first that is       *)
(* already in cdr_file, a row to copy by the greatest id the centre has.   *)
(***************************************************************************)
EXTENDS Integers, Sequences, FiniteSets, FiniteSetsExt

CONSTANTS Files,          \* sequence of files, oldest first: the sequences of their
                          \* calls [hash, route, setup, month, finished, form]: setup is
                          \* the month of setup_time, month that of the partition (by
                          \* connect_time, for an unfinished call by setup_time)
          Months,         \* the months, 1 .. n
          Limit,          \* rows per copy (100000 in the code)
          MaxFailures,    \* failing statements, transfers and crashes
          MaxCheckErrors  \* failing look-ups in cdr_file

ASSUME CdrFlowAssumption ==
  /\ Len(Files) \in Nat /\ \A f \in 1 .. Len(Files) : Len(Files[f]) \in Nat
  /\ Limit \in Nat \ {0}

VARIABLES listed,       \* files on the FTP server: Files[1 .. listed]
          cdrFile,      \* calls_cdr.cdr_file: the processed files
          rows,         \* table -> its rows [id, hash, route, setup, month]
          nextId,       \* table -> its sequence
          parser,       \* processFile in progress: [file, at]
          central,      \* table -> the ids the central database has
          sync,         \* ThreadSyncCdrs::run in progress: [table, last, ahead]
          missed,       \* history: table -> the ids that waited when a copy or a query
                        \*   of ThreadSyncCdrs failed
          failures,     \* failures so far
          checkErrors   \* failed look-ups so far

flowVars == <<listed, cdrFile, rows, nextId, parser, central, sync, missed, failures, checkErrors>>

Tables == {"cdr", "cdr_unfinished"}

Idle == [file |-> 0, at |-> 0]

NoSync == [table |-> "none", last |-> 0, ahead |-> 0]

FlowInit ==
  /\ listed = 0
  /\ cdrFile = {}
  /\ rows = [t \in Tables |-> {}]
  /\ nextId = [t \in Tables |-> 1]
  /\ parser = Idle
  /\ central = [t \in Tables |-> {}]
  /\ sync = NoSync
  /\ missed = [t \in Tables |-> {}]
  /\ failures = 0
  /\ checkErrors = 0

-----------------------------------------------------------------------------
(* The switch finishes a file.                                             *)
NewFile ==
  /\ listed < Len(Files)
  /\ listed' = listed + 1
  /\ UNCHANGED <<cdrFile, rows, nextId, parser, central, sync, missed, failures, checkErrors>>

(* getFileNameForParse: the oldest of the newest files that follow the     *)
(* file `stop`, the first one found processed on the way back.             *)
FileNewest(stop) == IF stop < listed THEN [file |-> listed, at |-> 1] ELSE Idle  \* mutant
FileAfter(stop) == IF stop < listed THEN [file |-> stop + 1, at |-> 1] ELSE Idle

FindFile ==
  /\ parser = Idle
  /\ \/ /\ parser' = FileAfter(Max({0} \cup cdrFile))
        /\ UNCHANGED checkErrors
     \/ /\ checkErrors < MaxCheckErrors      \* isFileProcessed says TRUE on an error
        /\ \E f \in (Max({0} \cup cdrFile) + 1) .. listed : parser' = FileAfter(f)
        /\ checkErrors' = checkErrors + 1
  /\ UNCHANGED <<listed, cdrFile, rows, nextId, central, sync, missed, failures>>

(* All fields of the call can be read.  One that is missing is only logged *)
(* and left empty.                                                         *)
ParseCall(call) == call.form # "broken"

(* insert_cdr2 and insert_cdr_unfinished: no setup_time can be made of an  *)
(* empty field, and the insert fails every time.                           *)
Refused(call) == call.form = "undated"

(* Parse drops such calls and counts them as errors.                       *)
ErrorCalls(file) == {i \in 1 .. Len(file) : ~ParseCall(file[i])}

(* With an error the whole file is given up, and counts as processed.      *)
parseFile(file) == IF ErrorCalls(file) # {} THEN <<>> ELSE file

Calls == parseFile(Files[parser.file])

(* A call of cdr is looked for by its hash in the partition, an unfinished *)
(* one by its hash and dst_route in the whole table.                       *)
Stored(t, call) ==
  \E r \in rows[t] : r.hash = call.hash /\ IF t = "cdr" THEN r.month = call.month ELSE r.route = call.route

RowOf(call, id) == [id |-> id, hash |-> call.hash, route |-> call.route, setup |-> call.setup, month |-> call.month]

AddRows(t, call, n) ==
  /\ rows' = [rows EXCEPT ![t] = @ \cup {RowOf(call, id) : id \in nextId[t] .. nextId[t] + n - 1}]
  /\ nextId' = [nextId EXCEPT ![t] = @ + n]

(* An insert into cdr: the partitioning trigger updates the row of a hash  *)
(* the partition has already.  The id it used up is left out: all that     *)
(* matters of the ids is their order.                                      *)
tr_partitioningBlind(call) == AddRows("cdr", call, 1)  \* mutant: nothing looks for the hash
tr_partitioning(call) ==
  IF Stored("cdr", call) THEN UNCHANGED <<rows, nextId>> ELSE AddRows("cdr", call, 1)

(* saveCalls: the next call of the file.  An unfinished one may be written *)
(* twice, by a query repeated on a new connection after its answer was     *)
(* lost, and its failing insert is logged and passed over.                 *)
SaveCall ==
  /\ parser # Idle
  /\ parser.at <= Len(Calls)
  /\ LET call == Calls[parser.at]
         unfinished == ~call.finished /\ ~Stored("cdr_unfinished", call) /\ ~Refused(call)
     IN  \/ /\ call.finished /\ ~Refused(call)
            /\ tr_partitioning(call)
            /\ UNCHANGED failures
         \/ /\ unfinished
            /\ AddRows("cdr_unfinished", call, 1)
            /\ UNCHANGED failures
         \/ /\ unfinished
            /\ failures < MaxFailures
            /\ failures' = failures + 1
            /\ \E n \in {0, 2} : AddRows("cdr_unfinished", call, n)
         \/ /\ ~call.finished /\ ~unfinished
            /\ UNCHANGED <<rows, nextId, failures>>
  /\ parser' = [parser EXCEPT !.at = @ + 1]
  /\ UNCHANGED <<listed, cdrFile, central, sync, missed, checkErrors>>

(* The exception of a finished call's insert ends the run, and the next    *)
(* one finds the same file.                                                *)
SaveCallRefused ==
  /\ parser # Idle
  /\ parser.at <= Len(Calls)
  /\ Calls[parser.at].finished /\ Refused(Calls[parser.at])
  /\ parser' = Idle
  /\ UNCHANGED <<listed, cdrFile, rows, nextId, central, sync, missed, failures, checkErrors>>

(* saveCdrFile: also for a file that did not parse.                        *)
SaveFileEarly ==  \* mutant: the row of the file may come before its calls
  /\ parser # Idle
  /\ cdrFile' = cdrFile \cup {parser.file}
  /\ parser' = Idle
  /\ UNCHANGED <<listed, rows, nextId, central, sync, missed, failures, checkErrors>>
SaveFile ==
  /\ parser # Idle
  /\ parser.at = Len(Calls) + 1
  /\ cdrFile' = cdrFile \cup {parser.file}
  /\ parser' = Idle
  /\ UNCHANGED <<listed, rows, nextId, central, sync, missed, failures, checkErrors>>

(* The transfer, a look-up or an insert fails, or the daemon is restarted: *)
(* the run ends, the next one looks for its file again.                    *)
ParserFails ==
  /\ parser # Idle
  /\ failures < MaxFailures
  /\ failures' = failures + 1
  /\ parser' = Idle
  /\ UNCHANGED <<listed, cdrFile, rows, nextId, central, sync, missed, checkErrors>>

-----------------------------------------------------------------------------
MaxId(S) == Max({0} \cup S)

(* prepareSyncCallsCentral: the greatest id the centre has of the table.   *)
lastSyncCentralId(t) == MaxId(central[t])

StartSync ==
  /\ sync = NoSync
  /\ sync' = [table |-> "cdr", last |-> lastSyncCentralId("cdr"), ahead |-> 0]
  /\ UNCHANGED <<listed, cdrFile, rows, nextId, parser, central, missed, failures, checkErrors>>

Newer(t, id) == {r \in rows[t] : r.id > id}

(* getCurrentMonths: the month in which the first row after id was set up. *)
MonthAfter(t, id) == (CHOOSE r \in Newer(t, id) : \A x \in Newer(t, id) : r.id <= x.id).setup

InMonth(t, m) == {r \in rows[t] : r.month = m}

(* The ids of the partition above the greatest one of it at the centre.    *)
Behind(t, m) ==
  {r.id : r \in {x \in InMonth(t, m) : \A y \in InMonth(t, m) : y.id \in central[t] => y.id < x.id}}

(* select ... order by id limit Limit                                      *)
BatchFromTop(S) == {id \in S : Cardinality({x \in S : x > id}) < Limit}  \* mutant
Batch(S) == {id \in S : Cardinality({x \in S : x < id}) < Limit}

(* getCurrentMonths of the clock: the calls are those of the last month.   *)
CurrentMonth == Max(Months)

(* The month that is looked at: that of the first newer row, then, for     *)
(* cdr, the next one.  Without a newer row cdr has nothing to do, and      *)
(* cdr_unfinished falls back on the clock.                                 *)
SyncMonth ==
  IF Newer(sync.table, sync.last) # {} THEN {MonthAfter(sync.table, sync.last) + sync.ahead}
  ELSE IF sync.table = "cdr" THEN {} ELSE {CurrentMonth}

(* BDb::copy: one COPY command, so all of the batch or nothing.            *)
copy(t, m) == [central EXCEPT ![t] = @ \cup Batch(Behind(t, m))]

(* A copy that succeeds: the loop begins again.                            *)
Copy ==
  /\ sync # NoSync
  /\ \E m \in SyncMonth : Behind(sync.table, m) # {} /\ central' = copy(sync.table, m)
  /\ sync' = [sync EXCEPT !.ahead = 0]
  /\ UNCHANGED <<listed, cdrFile, rows, nextId, parser, missed, failures, checkErrors>>

(* The other table, or the end of the run.                                 *)
AfterTable == IF sync.table = "cdr"
              THEN [table |-> "cdr_unfinished", last |-> lastSyncCentralId("cdr_unfinished"), ahead |-> 0]
              ELSE NoSync

AfterFalse == IF sync.table = "cdr" /\ sync.ahead = 0 THEN [sync EXCEPT !.ahead = 1] ELSE AfterTable

(* The month has nothing to copy.                                          *)
UpToDate ==
  /\ sync # NoSync
  /\ \E m \in SyncMonth : Behind(sync.table, m) = {}
  /\ sync' = AfterFalse
  /\ UNCHANGED <<listed, cdrFile, rows, nextId, parser, central, missed, failures, checkErrors>>

TableDone ==
  /\ sync # NoSync
  /\ SyncMonth = {}
  /\ sync' = AfterTable
  /\ UNCHANGED <<listed, cdrFile, rows, nextId, parser, central, missed, failures, checkErrors>>

(* A failed query ends the run.  A failed copy is logged and counts as a   *)
(* month with nothing to copy, also one the centre has carried out when    *)
(* only its result is lost.                                                *)
SyncFails ==
  /\ sync # NoSync
  /\ failures < MaxFailures
  /\ failures' = failures + 1
  /\ \/ sync' = NoSync /\ UNCHANGED central
     \/ /\ sync' = AfterFalse
        /\ \E m \in SyncMonth : /\ Behind(sync.table, m) # {}
                                 /\ central' \in {central, copy(sync.table, m)}
  /\ missed' = [missed EXCEPT ![sync.table] = @ \cup ({r.id : r \in rows[sync.table]} \ central[sync.table])]
  /\ UNCHANGED <<listed, cdrFile, rows, nextId, parser, checkErrors>>

-----------------------------------------------------------------------------
Parser == FindFile \/ SaveCall \/ SaveCallRefused \/ SaveFile \/ ParserFails

SyncCdrs == StartSync \/ Copy \/ UpToDate \/ TableDone \/ SyncFails

FlowNext == NewFile \/ Parser \/ SyncCdrs

FlowSpec == FlowInit /\ [][FlowNext]_flowVars /\ WF_flowVars(Parser) /\ WF_flowVars(SyncCdrs)

-----------------------------------------------------------------------------
(* A file that is done again after a failure between its calls and its row *)
(* in cdr_file leaves no call twice in a partition of cdr                  *)
(* (ThreadCdrParser::processFile, calls_cdr.tr_partitioning).              *)
StoredOnce ==
  \A r, s \in rows["cdr"] : r.hash = s.hash /\ r.month = s.month => r = s

(* The finished calls of every file in cdr_file are in the table, through  *)
(* whatever failures and repetitions: nobody looks at the file again       *)
(* (ThreadCdrParser::processFile, saveCdrFile).                            *)
DoneIsStored ==
  \A f \in cdrFile : \A i \in 1 .. Len(parseFile(Files[f])) :
    parseFile(Files[f])[i].finished => Stored("cdr", parseFile(Files[f])[i])

(* A file that is done has each of its finished calls in the table, and no *)
(* call is there twice, although any reading of the file may break off and *)
(* begin again (ThreadCdrParser::processFile).                             *)
FilesStoredOnce == StoredOnce /\ DoneIsStored

(* Of a partition the centre has all rows up to its greatest id, although  *)
(* rows are written while it is copied in batches that may fail or may     *)
(* seem to: the copy goes on from that id, so a gap would never be filled  *)
(* (ThreadSyncCdrs::copyCallsCdr).                                         *)
NoGaps ==
  \A t \in Tables : \A r, s \in rows[t] :
    r.month = s.month /\ r.id < s.id /\ s.id \in central[t] => r.id \in central[t]

(* A file that parses and has a finished call whose insert is refused: the *)
(* parser never gets beyond it.                                            *)
Blocking(f) == \E i \in 1 .. Len(parseFile(Files[f])) : Files[f][i].finished /\ Refused(Files[f][i])

(* Every finished call of every file without a broken call comes to the    *)
(* table, in whatever order files arrive and runs fail, unless a file from *)
(* there back has a call without setup_time, which blocks the parser for   *)
(* ever, or a look-up in cdr_file failed: that one error makes the search  *)
(* stop early and leaves the files before it for ever                      *)
(* (ThreadCdrParser::getFileNameForParse, isFileProcessed).                *)
FilesAreRead ==
  []<>(\/ checkErrors > 0
       \/ \A f \in 1 .. listed :
            \/ \E g \in 1 .. f : Blocking(g)
            \/ \A i \in 1 .. Len(parseFile(Files[f])) : Files[f][i].finished => Stored("cdr", Files[f][i]))

(* A row the greatest id at the centre hides: a later row of another month *)
(* is there, because a copy or a query failed while the row waited, or     *)
(* because rows of the two months alternate at the turn of the month and   *)
(* getCurrentMonths has seen only the first of them.                       *)
Hidden(t) ==
  {r \in rows[t] :
     /\ \E s \in rows[t] : s.id > r.id /\ s.month # r.month /\ s.id \in central[t]
     /\ r.id \in missed[t] \/ \E q \in rows[t] : q.id < r.id /\ q.month # r.month}

=============================================================================
