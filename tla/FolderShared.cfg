\* A tree both sides have a part of: deleting or copying either part; nothing goes wrong.
SPECIFICATION Spec
CONSTANTS
  d = d
  e = e
  f = f
  g = g
  h = h
  Folders = {d, e}
  Files = {f, g, h}
  BigFiles = {g}
  Root = Root
  Up <- MCUp
  Start <- Shared
  Operations = {"Del", "Copy"}
  From = {"local", "peer"}
  MaxOps = 1
  MaxBrowse = 0
  MaxUi = 2
  MaxLoss = 0
  Refuse = FALSE
INVARIANT CopyIsWhole NothingFails
CHECK_DEADLOCK FALSE
