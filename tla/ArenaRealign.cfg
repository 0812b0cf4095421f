\* The freeareas of MCArena (8, 12 and 16 bytes), and a process that also opens a
\* cache with an alignsize of 8: a request of 9 bytes then gets a node of 12.
CONSTANTS
  NodeHeader = 4
  MinSize = 2
  MaxSize = 12
  AlignSize = 4
  DataSizes = {20, 100}
  AreaHeader = 3
  PreallocNum = 1
  Requests = {4, 5, 9, 20}
  OtherAligns = {8}
SPECIFICATION Spec
INVARIANTS
  ItemFits
CHECK_DEADLOCK FALSE
