SPECIFICATION HSpec
CONSTANTS
  Keys = {k1, k2}
  Scannable = {k1}
  None = None
  k1 = k1
  k2 = k2
  Pretrigger = 0
  SeqMod = 3
  MaxK = 3
  MaxCmds = 2
INVARIANTS TypeOK OneHeaderPerReady HeaderSequence CaptureOwned Numbering
INVARIANTS StopBound SingleBound StartKept KeptUntilAnswered ForceBound NoInheritedRun FreshUnlessOverlap
