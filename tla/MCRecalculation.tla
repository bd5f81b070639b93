-------------------------- MODULE MCRecalculation --------------------------
(* Recalculation for TLC; the configurations give the other constants.     *)
EXTENDS Recalculation

\* The second CDR becomes a technical one when the lists change, the third
\* ceases to be one.
MCUnbilled == [v \in 0..MaxVersion |-> IF v = 0 THEN {3} ELSE {2}]
=============================================================================
