\* Two freeareas and nothing preallocated: 9 bytes are two small nodes, or a large
\* one, so that a freearea may never get a node and stores in it fail.
CONSTANTS
  NodeHeader = 2
  MinSize = 2
  MaxSize = 4
  AlignSize = 2
  Node = {n1, n2}
  k1 = k1
  k2 = k2
  k3 = k3
  s1 = s1
  s2 = s2
  m = m
  x = x
  NULL = NULL
  Key = {k1, k2, k3}
  Data = {s1, s2, m}
  KeyLen <- MCKeyLen
  DataLen <- MCDataLen
  HashItemNum = 2
  Hash <- MCHash
  Merge <- MCMerge
  PreallocNum = 0
  InitFreeSize = 9
SPECIFICATION Spec
VIEW WithoutReply
SYMMETRY MCSymmetry
PROPERTIES
  MapSpec
