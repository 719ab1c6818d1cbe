SPECIFICATION RangeSpec
CONSTANTS
  MaxU64 = 7
  Limit = 4
INVARIANTS
  Expansion
CHECK_DEADLOCK FALSE
