\* The same two processes.
CONSTANTS
  Proc = {p1, p2}
  NULL = NULL
  DEAD = DEAD
  Config <- MCConfig
  p1 = p1
  b1 = b1
  b2 = b2
  PlaceOf <- MCPlaceOf
  MaxFile = 3
  ItemValues = 2
SPECIFICATION Spec
INVARIANT
  Exclusive
