CONSTANTS
  Pollers = {"PollerAsyncSelect", "PollerAsyncEvent"}
  Roles = {"server", "client"}
  WSA_MAXIMUM_WAIT_EVENTS = 3
  FD_SETSIZE = 2
  MaxFaults = 1
  MaxQueue = 0
  NULL = NULL
  Addresses = 2
  MAX_CONN_RECVBUF = 2
  MAX_RECV_COUNT = 3
  MAX_SEND_COUNT = 2
  RecvBuf = 2
  MaxMessages = 3
  EarlyClose = TRUE
  MaxConns = 2
SPECIFICATION FairSpec
INVARIANTS TypeOK ConnectionsOwnSockets SendsBounded
PROPERTIES ClosedForAReason EarlierMessagesEchoed EofEndsConnection ClientEnds
