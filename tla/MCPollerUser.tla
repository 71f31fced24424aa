---------------------------- MODULE MCPollerUser ----------------------------
(* Instance of PollerUser for TLC; the constants are set in the cfg. *)
EXTENDS PollerUser
=============================================================================
