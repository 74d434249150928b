------------------------- MODULE MCRefreshScheduler -------------------------
(* RefreshScheduler with a floor of 2 and an interval of 3 ticks. *)
EXTENDS RefreshScheduler
=============================================================================
