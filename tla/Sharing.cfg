\* Two processes; two sizes of the cache, one of which is too small; three files,
\* the most there can be: the one with the name, and one that each process has.
CONSTANTS
  Proc = {p1, p2}
  NULL = NULL
  DEAD = DEAD
  Config <- MCConfig
  p1 = p1
  b1 = b1
  b2 = b2
  PlaceOf <- MCPlaceOf
  MaxFile = 3
  ItemValues = 2
SPECIFICATION Spec
ACTION_CONSTRAINT OneBreach
INVARIANTS
  TypeOK
  ReadsStayTrue
  WorksOnWhole
  OneCache
  PointersLead
  ClosesOwn
PROPERTIES
  CacheSurvives
  CallsGoOn
