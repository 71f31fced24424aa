\* Positive delays, as in every caller of the repository, and a moving clock.
CONSTANTS
  FirstId = 100
  MaxTimers = 3
  Delays = {1, 2}
  MaxTick = 2
  Sinks = {s, NULL}
  NULL = NULL
SPECIFICATION FairSpec
PROPERTIES TimersFire UpdateReturns OnlyOldTimersFire
