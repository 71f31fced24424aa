CONSTANTS
  Handles = {h1, h2}
  Objs = {o1, o2}
  FD_SETSIZE = 3
  INVALID_SOCKET = INVALID_SOCKET
  NULL = NULL
  RemoveBetweenPolls = FALSE
SPECIFICATION FairSpec
INVARIANTS TypeOK SetsMatchEntries AllServed NoRetiredBetweenPolls
PROPERTIES TimersServed ImplementsReactor
