---------------------------- MODULE MCTimerSched ----------------------------
(* Instance of TimerSched for TLC.  Every constant is a bound of the run.  *)
EXTENDS TimerSched
=============================================================================
