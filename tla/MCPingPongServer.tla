-------------------------- MODULE MCPingPongServer --------------------------
(* Instances of PingPongServer for TLC; the constants are set in the cfgs. *)
EXTENDS PingPongServer

\* One state space for the two services: on the port calls fail and a connection
\* sends one message, on the event service nothing fails and it sends several.
Bounded == IF OnPort(sys) THEN \A h \in Conns(sys) : sys.socks[h].sent <= 1
           ELSE sys.faults = MaxFaults

BoundedSpec == Init /\ [][Next /\ Bounded']_vars /\ Fairness
=============================================================================
