--------------------------- MODULE MCSelectPoller ---------------------------
(* Instance of SelectPoller for TLC; the constants are set in the cfgs. *)
EXTENDS SelectPoller
=============================================================================
