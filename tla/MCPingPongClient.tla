-------------------------- MODULE MCPingPongClient --------------------------
(* Instance of PingPongClient for TLC; the constants are set in the cfg.   *)
EXTENDS PingPongClient
=============================================================================
