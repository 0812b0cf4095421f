\* Three freeareas, of 8, 12 and 16 bytes, with one preallocated node each.  The
\* requests fall into every area: 4 fills a node of the first one exactly, 20
\* fits none.  100 bytes leave room for up to eight nodes more; with 20 bytes the
\* preallocation does not fit and the open fails, which ends the behaviour.
CONSTANTS
  NodeHeader = 4
  MinSize = 2
  MaxSize = 12
  AlignSize = 4
  DataSizes = {20, 100}
  AreaHeader = 3
  PreallocNum = 1
  Requests = {4, 5, 9, 20}
  OtherAligns = {2}
SPECIFICATION Spec
INVARIANTS
  TypeOK
  BlocksDisjoint
  ItemFits
  ZoneAccounted
  SizesAsComputed
CHECK_DEADLOCK FALSE
