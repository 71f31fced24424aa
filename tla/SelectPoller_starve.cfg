CONSTANTS
  Handles = {h1}
  Objs = {o1}
  FD_SETSIZE = 2
  INVALID_SOCKET = INVALID_SOCKET
  NULL = NULL
  RemoveBetweenPolls = TRUE
SPECIFICATION FairSpec
PROPERTIES TimersServed
