SPECIFICATION LanFairSpec
CONSTANTS
  Clients = {c1, c2, c3}
  Nobody = Nobody
INVARIANTS
  PairOwn
PROPERTIES
  Served
CHECK_DEADLOCK FALSE
