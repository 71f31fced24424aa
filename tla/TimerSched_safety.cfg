\* Six timers: the smallest heap in which CancelTimer has to sift up.  A delay
\* of 0 is due at once, a delay of 1 is never due while the clock stands still.
CONSTANTS
  FirstId = 100
  MaxTimers = 6
  Delays = {0, 1}
  MaxTick = 0
  Sinks = {s}
  NULL = NULL
SPECIFICATION Spec
INVARIANTS TypeOK IndexInv HeapInv OwnershipInv
PROPERTIES ImplementsQueue
