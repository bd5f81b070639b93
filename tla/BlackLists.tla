----------------------------- MODULE BlackLists -----------------------------
(***************************************************************************)
(* The lists of locked numbers and trunks the switch (OpenCA) keeps, and   *)
(* the two threads that drive them: ThreadBlacklistCalc works out what     *)
(* the lists should hold from the client locks and sends LOCK and UNLOCK   *)
(* over UDP (BlackList::push), ThreadBlacklistFetch reads the switch's     *)
(* lists once an hour (BlackList::fetch).  The two share the copy of each  *)
(* list the daemon keeps; a fetch replaces it, whatever was pushed between *)
(* the read and the replacement.  A datagram, or its answer, may be lost.  *)
(***************************************************************************)
EXTENDS Integers, Sequences, FiniteSets

CONSTANTS Clients,      \* accounts
          NumbersOf,    \* [Clients -> set of [did, is7800]]
          TrunksOf,     \* [Clients -> set of [trunk_name, auth_by_number]]
          MaxChanges,   \* how often the locks change
          MaxLost,      \* how many datagrams are lost
          MaxRestarts   \* restarts of the daemon

VARIABLES locks,       \* client -> its lock, from billing.locks
          antiFraud,   \* clients with anti_fraud_disabled
          switch,      \* kind -> what the switch has locked
          blacklist,   \* kind -> BlackList::blacklist, the daemon's copy
          calc,        \* ThreadBlacklistCalc::run in progress
          fetching,    \* ThreadBlacklistFetch::run in progress
          ready,       \* the repository is loaded
          left         \* the changes, losses and restarts to come

vars == <<locks, antiFraud, switch, blacklist, calc, fetching, ready, left>>

Kinds == <<"local", "global", "trunk", "anti_fraud_disable">>

KindSet == {Kinds[i] : i \in 1 .. Len(Kinds)}

LockObj == [disabled_local : BOOLEAN, disabled_global : BOOLEAN, is_finance_block : BOOLEAN]

NoLock == [disabled_local |-> FALSE, disabled_global |-> FALSE, is_finance_block |-> FALSE]

Local == {c \in Clients : locks[c].disabled_local}

Global == {c \in Clients : locks[c].disabled_global}

Finance == {c \in Clients : locks[c].is_finance_block}

Dids(clients, is7800) ==
  UNION {{n.did : n \in {x \in NumbersOf[c] : x.is7800 \in is7800}} : c \in clients}

TrunkNames(clients, by_number) ==
  UNION {{t.trunk_name : t \in {x \in TrunksOf[c] : x.auth_by_number \in by_number}} : c \in clients}

(* The four wanted lists. A 7800 number of a locally disabled client goes  *)
(* to the global list.                                                     *)
Wanted ==
  [local              |-> Dids(Local, {FALSE}),
   global             |-> Dids(Local, {TRUE}) \cup Dids(Global, BOOLEAN),
   trunk              |-> TrunkNames(Finance, {FALSE}) \cup TrunkNames(Global, BOOLEAN),
   anti_fraud_disable |-> Dids(antiFraud, BOOLEAN)]

Idle == [kind |-> 0]

Init ==
  /\ locks = [c \in Clients |-> NoLock]
  /\ antiFraud = {}
  /\ switch = [k \in KindSet |-> {}]
  /\ blacklist = [k \in KindSet |-> {}]
  /\ calc = Idle
  /\ fetching = Idle
  /\ ready = FALSE
  /\ left = [changes |-> MaxChanges, lost |-> MaxLost, restarts |-> MaxRestarts]

-----------------------------------------------------------------------------
(* The locks and the clients change in the database.                       *)
ChangeLocks ==
  /\ left.changes > 0
  /\ left' = [left EXCEPT !.changes = @ - 1]
  /\ \/ \E c \in Clients, l \in LockObj :
          /\ l # locks[c]
          /\ locks' = [locks EXCEPT ![c] = l]
          /\ UNCHANGED antiFraud
     \/ \E c \in Clients :
          /\ antiFraud' = IF c \in antiFraud THEN antiFraud \ {c} ELSE antiFraud \cup {c}
          /\ UNCHANGED locks
  /\ UNCHANGED <<switch, blacklist, calc, fetching, ready>>

(* The loader has filled the repository and the locks.                     *)
Load ==
  /\ ~ready
  /\ ready' = TRUE
  /\ UNCHANGED <<locks, antiFraud, switch, blacklist, calc, fetching, left>>

-----------------------------------------------------------------------------
(* What a push of one list will send: the two differences, under the       *)
(* list's spinlock.                                                        *)
Diffs(kind, wanted) ==
  [kind   |-> kind,
   wanted |-> wanted,
   add    |-> wanted[Kinds[kind]] \ blacklist[Kinds[kind]],
   del    |-> blacklist[Kinds[kind]] \ wanted[Kinds[kind]],
   answer |-> {}]

StartCalc ==
  /\ ready
  /\ calc = Idle
  /\ calc' = Diffs(1, Wanted)
  /\ UNCHANGED <<locks, antiFraud, switch, blacklist, fetching, ready, left>>

(* sendrecv: a datagram and an answer within two seconds. The request is   *)
(* lost, or the answer, or neither.                                        *)
sendrecv(carriedOut, answered) ==
  /\ answered => carriedOut
  /\ answered \/ left.lost > 0
  /\ left' = IF answered THEN left ELSE [left EXCEPT !.lost = @ - 1]

(* One LOCK, or after the last of them one UNLOCK, goes to the switch.     *)
(* What was not answered is left for the next round.                       *)
Send ==
  /\ calc # Idle
  /\ calc.answer = {}
  /\ LET k == Kinds[calc.kind]
         todo == IF calc.add # {} THEN calc.add ELSE calc.del
         done == IF calc.add # {} THEN "add" ELSE "del"
     IN  \E phone \in todo, carriedOut, answered \in BOOLEAN :
           /\ sendrecv(carriedOut, answered)
           /\ switch' = CASE ~carriedOut   -> switch
                          [] done = "add"  -> [switch EXCEPT ![k] = @ \cup {phone}]
                          [] OTHER         -> [switch EXCEPT ![k] = @ \ {phone}]
           /\ calc' = [calc EXCEPT ![done] = @ \ {phone},
                                   !.answer = IF answered THEN {[op |-> done, phone |-> phone]} ELSE {}]
  /\ UNCHANGED <<locks, antiFraud, blacklist, fetching, ready>>

(* The answer is "1": the daemon's copy follows.                           *)
Answered ==
  /\ calc # Idle
  /\ \E a \in calc.answer :
       blacklist' = [blacklist EXCEPT ![Kinds[calc.kind]] =
                       IF a.op = "add" THEN @ \cup {a.phone} ELSE @ \ {a.phone}]
  /\ calc' = [calc EXCEPT !.answer = {}]
  /\ UNCHANGED <<locks, antiFraud, switch, fetching, ready, left>>

(* The list is done: the next one, or the end of the round.                *)
NextList ==
  /\ calc # Idle
  /\ calc.add = {} /\ calc.del = {} /\ calc.answer = {}
  /\ calc' = IF calc.kind < Len(Kinds) THEN Diffs(calc.kind + 1, calc.wanted) ELSE Idle
  /\ UNCHANGED <<locks, antiFraud, switch, blacklist, fetching, ready, left>>

-----------------------------------------------------------------------------
(* A list is read from the switch; when the answer is lost the list is     *)
(* left as it is and the next one is read.                                 *)
Following(kind) == IF kind < Len(Kinds) THEN [kind |-> kind + 1] ELSE Idle

Fetch ==
  LET kind == IF fetching = Idle THEN 1 ELSE fetching.kind
  IN  /\ "list" \notin DOMAIN fetching
      /\ \/ /\ sendrecv(TRUE, TRUE)
            /\ fetching' = [kind |-> kind, list |-> switch[Kinds[kind]]]
         \/ /\ sendrecv(TRUE, FALSE)
            /\ fetching' = Following(kind)
      /\ UNCHANGED <<locks, antiFraud, switch, blacklist, calc, ready>>

(* The copy is replaced by what was read.                                  *)
ReplacedNot(kind) == blacklist  \* mutant: what was read is not swapped in
Replaced(kind) == [blacklist EXCEPT ![Kinds[kind]] = fetching.list]

Replace ==
  /\ "list" \in DOMAIN fetching
  /\ blacklist' = Replaced(fetching.kind)
  /\ fetching' = Following(fetching.kind)
  /\ UNCHANGED <<locks, antiFraud, switch, calc, ready, left>>

(* The daemon's copies are in memory; the switch keeps its own.            *)
Restart ==
  /\ left.restarts > 0
  /\ left' = [left EXCEPT !.restarts = @ - 1]
  /\ blacklist' = [k \in KindSet |-> {}]
  /\ calc' = Idle
  /\ fetching' = Idle
  /\ ready' = FALSE
  /\ UNCHANGED <<locks, antiFraud, switch>>

-----------------------------------------------------------------------------
Calc == StartCalc \/ Send \/ Answered \/ NextList

Fetcher == Fetch \/ Replace

Next == ChangeLocks \/ Load \/ Calc \/ Fetcher \/ Restart

(* Both threads and the loader run for ever (Thread::operator()).          *)
Spec == Init /\ [][Next]_vars /\ WF_vars(Load) /\ WF_vars(Calc) /\ WF_vars(Fetcher)

-----------------------------------------------------------------------------
(* Once the locks stop changing the switch comes to hold, and keeps,       *)
(* exactly the numbers and trunks of the locked clients, whatever          *)
(* datagrams were lost and however a push and a fetch crossed: a number    *)
(* left locked, or left open, by a lost answer is found by the next fetch  *)
(* (BlackList::fetch, BlackList::push).                                    *)
BlackListsConverge == <>[](switch = Wanted)
=============================================================================
