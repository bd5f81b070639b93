--------------------------- MODULE MCClientLocks ---------------------------
(* ClientLocks for TLC; the configurations give the constants.  The ids of *)
(* the clients are compared, so they are numbers and not symmetric.        *)
EXTENDS ClientLocks
=============================================================================
