\* Two clients and two failures: a session closes while the other works, a
\* failed call meets a closed session, and both handles are given out again.
CONSTANTS
  Services = {"IOCompletionPort", "IOOverlapped"}
  MaxFaults = 2
  EarlyClose = TRUE
  MaxConns = 2
  MaxPings = 2
  WSA_MAXIMUM_WAIT_EVENTS = 64
  NULL = NULL
SPECIFICATION BoundedSpec
INVARIANTS TypeOK InFlightContexts SessionsOwnSockets NoSocketLost AcceptArmed
PROPERTIES EventsEchoPings
