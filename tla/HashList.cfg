\* Four nodes and as many keys, stored, found, evicted and erased in every order.
CONSTANTS
  Node = {n1, n2, n3, n4}
  Key = {k1, k2, k3, k4}
  NULL = NULL
SPECIFICATION Spec
INVARIANTS
  TypeOK
  Linked
PROPERTIES
  HitMovesUpByOne
  BucketSpec
