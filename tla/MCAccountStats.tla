--------------------------- MODULE MCAccountStats ---------------------------
(***************************************************************************)
(* AccountStats for TLC: the daemon as it is started by default, with an   *)
(* invoice and what can fail on the way to the central database, and       *)
(* without the thread account_balance_recalc, with crashes, and either a   *)
(* recalculation and a turn of the month or an invoice.  The two races,    *)
(* each by itself.                                                         *)
(***************************************************************************)
EXTENDS AccountStats

WithReload == [skip_threads |-> {}, calls |-> 1, invoices |-> 1, recalcs |-> 1, months |-> 0, faults |-> 2,
               kinds |-> {"outage", "reconnect", "lostReply"}]
WithoutReload == [skip_threads |-> {"account_balance_recalc"}, calls |-> 2, invoices |-> 0, recalcs |-> 1,
                  months |-> 1, faults |-> 1, kinds |-> {"outage", "lostReply", "crash"}]
Invoiced == [WithoutReload EXCEPT !.invoices = 1, !.recalcs = 0, !.months = 0]
MCConfigurations == {WithReload, WithoutReload, Invoiced}
ReloadRace == {[WithReload EXCEPT !.calls = 2, !.recalcs = 0, !.faults = 0]}
RecalcRace == {[WithoutReload EXCEPT !.invoices = 1, !.calls = 1, !.months = 0, !.faults = 0]}
=============================================================================
