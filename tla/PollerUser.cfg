\* Room for one entry less than there may be entries with retired ones.
CONSTANTS
  Pollers = {"PollerAsyncSelect", "PollerAsyncEvent"}
  WSA_MAXIMUM_WAIT_EVENTS = 2
  FD_SETSIZE = 2
  MaxFaults = 0
  MaxQueue = 2
  MaxSockets = 2
  NULL = NULL
SPECIFICATION FairSpec
INVARIANTS TypeOK SelectionsMatch
PROPERTIES ImplementsReactor EveryReportTaken TimersServed
