CONSTANTS
  Services = {"IOOverlapped"}
  MaxFaults = 0
  EarlyClose = FALSE
  MaxConns = 1
  MaxPings = 1
  WSA_MAXIMUM_WAIT_EVENTS = 64
  NULL = NULL
SPECIFICATION Spec
INVARIANTS NoCallOnDeleted
