SPECIFICATION FairSpec
CONSTANTS
  Timers = {"t"}
  Delays = {"w"}
  Interval <- MCInterval
  Conds = {"semaphore", "pthread"}
  SemMax = 2
  MaxSlots = 2
  MaxSpare = 2
  MaxQueue = 3
INVARIANT EarlyTicks CancelQuiet
PROPERTY TicksForever TimerStops
CHECK_DEADLOCK FALSE
