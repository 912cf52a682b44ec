--------------------------- MODULE MCWarpTwoPasses ---------------------------
(* Model values for WarpTwoPasses. *)
EXTENDS WarpTwoPasses, TLC

NoUsage == {}
=============================================================================
