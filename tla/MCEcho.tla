------------------------------- MODULE MCEcho -------------------------------
(* Instance of Echo for TLC; the constants are set in the cfg. *)
EXTENDS Echo
=============================================================================
