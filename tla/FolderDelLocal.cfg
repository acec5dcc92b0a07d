\* A local tree deleted twice over, with refusals, so that listings and removals fail.
SPECIFICATION FairSpec
CONSTANTS
  d = d
  e = e
  f = f
  g = g
  h = h
  Folders = {d, e}
  Files = {f, g}
  BigFiles = {}
  Root = Root
  Up <- MCUp
  Start <- AtLocal
  Operations = {"Del"}
  From = {"local"}
  MaxOps = 2
  MaxBrowse = 0
  MaxUi = 1
  MaxLoss = 0
  Refuse = TRUE
INVARIANT NobodySleeps FinalListing RowsCatchUp
PROPERTY OperationEnds
CHECK_DEADLOCK FALSE
