--------------------------- MODULE BillingLedger ---------------------------
(***************************************************************************)
(* What the billing pipeline promises of calls_raw, without its queues,    *)
(* partitions, transactions and threads: a ledger that receives both legs  *)
(* of every CDR that is to be billed, in the order of the CDRs, each once, *)
(* several at a time.                                                      *)
(***************************************************************************)
EXTENDS Naturals

CONSTANTS Technical, MaxCdr

VARIABLES cdrCount, ledger

vars == <<cdrCount, ledger>>

Legs(n) == ((1..n) \ Technical) \X {"orig", "term"}

Before(a, b) == a[1] < b[1] \/ (a[1] = b[1] /\ a[2] = "orig" /\ b[2] = "term")

\* No leg below one that is posted is missing.
PrefixClosed(S) == \A b \in S, a \in Legs(cdrCount) : Before(a, b) => a \in S

Init == cdrCount = 0 /\ ledger = {}

Arrive ==
  /\ cdrCount < MaxCdr
  /\ cdrCount' = cdrCount + 1
  /\ UNCHANGED ledger

\* ledger' is a conjunct of its own so that TLC can evaluate the action both ways.
Post ==
  /\ ledger \subseteq ledger' /\ ledger # ledger'
  /\ ledger' \subseteq Legs(cdrCount)
  /\ PrefixClosed(ledger')
  /\ UNCHANGED cdrCount

Next == Arrive \/ Post

Spec == Init /\ [][Next]_vars

\* Whatever can be posted is posted in the end.
AllPosted == \A a \in Legs(MaxCdr) : a[1] <= cdrCount ~> a \in ledger

FairSpec == Spec /\ AllPosted
=============================================================================
