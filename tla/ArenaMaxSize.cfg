\* The freeareas of MCArena (8, 12 and 16 bytes), and a request for an item of
\* MaxSize bytes, for which the nodes of 16 are exactly large enough.
CONSTANTS
  NodeHeader = 4
  MinSize = 2
  MaxSize = 12
  AlignSize = 4
  DataSizes = {20, 100}
  AreaHeader = 3
  PreallocNum = 1
  Requests = {4, 5, 9, 12}
  OtherAligns = {}
SPECIFICATION Spec
INVARIANTS
  RefusedOnlyTooLarge
CHECK_DEADLOCK FALSE
