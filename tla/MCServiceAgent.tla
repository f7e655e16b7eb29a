--------------------------- MODULE MCServiceAgent ---------------------------
(* ServiceAgent for TLC: all its parameters are numbers given in the .cfg. *)
EXTENDS ServiceAgent

(* The backoff found by repeated doubling that must not overflow is the    *)
(* closed form the properties use, also where the maximum cuts it off.     *)
ASSUME BackoffIsCapped == \A restarts \in 0..10 : BackoffDelay(restarts) = CappedPower(restarts)
=============================================================================
