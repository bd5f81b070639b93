------------------------- MODULE MCBillingPipeline -------------------------
(***************************************************************************)
(* BillingPipeline on small instances: a few CDRs of which the second is a *)
(* technical leg, partitions of three calls (so that a full partition cuts *)
(* a CDR's pair of calls), and limits every queue reaches.                 *)
(***************************************************************************)
EXTENDS BillingPipeline
=============================================================================
