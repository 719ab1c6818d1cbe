SPECIFICATION Spec
CONSTANTS
  MaxValue = 1
  Present = {p1}
  Absent = {a1}
  Unparsed = {u1}
  p1 = p1
  a1 = a1
  u1 = u1
  Hardware = TRUE
  Pretrigger = 1
  MaxLen = 3
  None = None
INVARIANTS FirstEdge Continuity CropAnchors DeliversSamples
