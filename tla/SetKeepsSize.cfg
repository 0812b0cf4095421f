\* One freearea with room for two nodes, and data of two sizes that fit it.
CONSTANTS
  NodeHeader = 2
  MinSize = 2
  MaxSize = 2
  AlignSize = 2
  Node = {n1, n2}
  k1 = k1
  k2 = k2
  k3 = k3
  s1 = s1
  s2 = s2
  m = m
  x = x
  NULL = NULL
  Key = {k1, k2, k3}
  Data = {s1, m}
  KeyLen <- MCKeyLen
  DataLen <- MCDataLen
  HashItemNum = 2
  Hash <- MCHash
  Merge <- MCMerge
  PreallocNum = 0
  InitFreeSize = 12
SPECIFICATION Spec
SYMMETRY MCSymmetry
PROPERTY
  SetStoresData
