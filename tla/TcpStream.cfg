SPECIFICATION FairSpec
CONSTANTS
  Sizes = {2, 3, 5}
  Header = 1
  Unit = 4
  Rubbish = {2}
  MaxReserved = 1
  Capacity = 4
  Windows = {1, 2}
  MaxPackets = 3
  MaxFaults = 1
  MaxDisc = 1
INVARIANT BufferInv
PROPERTY ChannelSpec LockStepArrives SendEnds
CHECK_DEADLOCK FALSE
