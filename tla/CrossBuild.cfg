SPECIFICATION Spec
CONSTANTS
  Builds = {b1, b2}
  N = 3
  Glib = 2
  MaxVersion = 2
  MaxFails = 2
INVARIANTS
  SysrootWhole
  Pinned
PROPERTY
  Recovers
CHECK_DEADLOCK FALSE
