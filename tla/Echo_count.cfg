\* A client that sends as many messages as the server receives of one connection,
\* and a buffer that they cannot fill.
CONSTANTS
  Pollers = {"PollerAsyncSelect", "PollerAsyncEvent"}
  Roles = {"server"}
  WSA_MAXIMUM_WAIT_EVENTS = 3
  FD_SETSIZE = 3
  MaxFaults = 0
  MaxQueue = 0
  NULL = NULL
  Addresses = 1
  MAX_CONN_RECVBUF = 4
  MAX_RECV_COUNT = 3
  MAX_SEND_COUNT = 1
  RecvBuf = 1
  MaxMessages = 3
  EarlyClose = FALSE
  MaxConns = 1
SPECIFICATION FairSpec
PROPERTIES EveryMessageEchoed
