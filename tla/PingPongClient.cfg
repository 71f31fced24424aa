CONSTANTS
  Services = {"IOCompletionPort", "IOOverlapped"}
  MaxFaults = 1
  EarlyClose = TRUE
  Addresses = 2
  MAX_SEND_COUNT = 2
  MaxWrites = 2
  MaxContexts = 6
  WSA_MAXIMUM_WAIT_EVENTS = 4
  NULL = NULL
SPECIFICATION FairSpec
INVARIANTS TypeOK OperationsOwned RecvContextAlive ReadArmed UndefinedOnlyOnPort
PROPERTIES ClientEnds
