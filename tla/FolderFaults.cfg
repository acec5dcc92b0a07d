\* Deleting or moving a folder of the peer under refusals and a lost connection.
SPECIFICATION Spec
CONSTANTS
  d = d
  e = e
  f = f
  g = g
  h = h
  Folders = {d}
  Files = {f}
  BigFiles = {}
  Root = Root
  Up <- MCUp
  Start <- AtPeer
  Operations = {"Del", "Move"}
  From = {"peer"}
  MaxOps = 1
  MaxBrowse = 1
  MaxUi = 1
  MaxLoss = 1
  Refuse = TRUE
INVARIANT NobodySleeps
CHECK_DEADLOCK FALSE
