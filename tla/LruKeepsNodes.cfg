\* One freearea, nothing preallocated, room for three nodes.
CONSTANTS
  NodeHeader = 2
  MinSize = 2
  MaxSize = 2
  AlignSize = 2
  Node = {n1, n2, n3}
  k1 = k1
  k2 = k2
  k3 = k3
  s1 = s1
  s2 = s2
  m = m
  x = x
  NULL = NULL
  Key = {k1, k2, k3}
  Data = {s1}
  KeyLen <- MCKeyLen
  DataLen <- MCDataLen
  HashItemNum = 2
  Hash <- MCHash
  Merge <- MCMerge
  PreallocNum = 0
  InitFreeSize = 12
SPECIFICATION Spec
SYMMETRY MCSymmetry
INVARIANTS
  EveryNodeOnList
