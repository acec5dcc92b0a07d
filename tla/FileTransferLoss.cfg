\* Connections break and come back; nothing else goes wrong.
CONSTANTS
    UpFiles = {u}
    DownFiles = {d}
    SegLen = 1
    MaxSize = 2
    MaxTasks = 4
    MaxReconnects = 2
    Faults = {"lose"}
SPECIFICATION FairSpec
INVARIANTS TypeOK GateReopens DoneIsWhole RetryNeverFails
PROPERTY TransferEnds
CHECK_DEADLOCK FALSE
