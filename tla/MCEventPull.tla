---------------------------- MODULE MCEventPull ----------------------------
(* EventPull for TLC; the configurations give the constants.  A part of as  *)
(* many events as there are changes is never too small.                    *)
EXTENDS EventPull
=============================================================================
