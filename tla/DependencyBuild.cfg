SPECIFICATION Spec
CONSTANTS
  Builds = {b1, b2}
  N = 2
  Cleaning = {1}
  MaxFails = 2
  Nobody = Nobody
INVARIANTS
  CacheWhole
PROPERTY
  CleaningInstalls
CHECK_DEADLOCK FALSE
