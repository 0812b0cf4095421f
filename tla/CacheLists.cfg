CONSTANTS
  NodeHeader = 2
  MinSize = 2
  MaxSize = 4
  AlignSize = 2
  Node = {n1, n2, n3, n4}
  k1 = k1
  k2 = k2
  k3 = k3
  s1 = s1
  s2 = s2
  m = m
  x = x
  NULL = NULL
  Key = {k1, k2, k3}
  Data = {s1, m}
  KeyLen <- MCKeyLen
  DataLen <- MCDataLen
  HashItemNum = 2
  Hash <- MCHash
  Merge <- MCMerge
  PreallocNum = 1
  InitFreeSize = 8
SPECIFICATION Spec
VIEW WithoutReply
SYMMETRY MCSymmetry
INVARIANTS
  TypeOK
  BucketsConsistent
  LruStaysInArea
  ItemFitsNode
  AreaStaysEvictable
PROPERTIES
  NodeKeepsSize
  EraseMakesRoom
