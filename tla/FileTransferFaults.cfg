\* Every fault of the environment, late requests of dead connections included.
CONSTANTS
    UpFiles = {u}
    DownFiles = {d}
    SegLen = 1
    MaxSize = 2
    MaxTasks = 3
    MaxReconnects = 1
    Faults = {"lose", "late", "open", "short", "nospace", "mismatch", "grow"}
SPECIFICATION Spec
INVARIANTS NoMixture OneOutstanding AnswerHasTask NoLostWakeup PriorityOrder
PROPERTY OffsetNeverBack
CHECK_DEADLOCK FALSE
