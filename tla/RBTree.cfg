\* Ten keys and as many nodes, stored and erased in every order: with fewer no
\* erase climbs more than one level.
CONSTANTS
  Node = {n1, n2, n3, n4, n5, n6, n7, n8, n9, n10}
  Key = {1, 2, 3, 4, 5, 6, 7, 8, 9, 10}
  NULL = NULL
SPECIFICATION Spec
VIEW ByShape
INVARIANTS
  TypeOK
  PointersAgree
  NodeNumCounts
  Balanced
  SiblingExists
PROPERTIES
  RoundsDescend
  BucketSpec
