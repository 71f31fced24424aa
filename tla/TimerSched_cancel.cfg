\* Timers are cancelled by id, at any time.
CONSTANTS
  FirstId = 100
  MaxTimers = 2
  Delays = {0, 1}
  MaxTick = 1
  Sinks = {s}
  NULL = NULL
SPECIFICATION Spec
INVARIANTS NoDanglingRef
