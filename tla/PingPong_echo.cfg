CONSTANTS
  Services = {"IOCompletionPort"}
  MaxFaults = 0
  EarlyClose = FALSE
  MaxConns = 1
  MaxPings = 2
  WSA_MAXIMUM_WAIT_EVENTS = 64
  NULL = NULL
SPECIFICATION FairSpec
PROPERTIES EveryPingEchoed
