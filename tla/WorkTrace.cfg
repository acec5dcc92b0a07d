SPECIFICATION Spec
CONSTANTS
  Types = {"mouse"}
  Slots = 3
  Days = 3
  MaxJump = 2
  MaxEvents = 1
  MaxRuns = 2
INVARIANT OwnDay OneMinuteLost NoHole
CHECK_DEADLOCK FALSE
