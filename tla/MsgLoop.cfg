\* Both condition variables, and a thread that goes on posting after stop().
SPECIFICATION FairSpec
CONSTANTS
  Others = {"ui"}
  Conds = {"semaphore", "pthread"}
  SemMax = 2
  MaxPosts = 4
INVARIANT NoLostWakeup InOrder DrainedAtExit
PROPERTY StopEnds EveryMessageHandled
CHECK_DEADLOCK FALSE
