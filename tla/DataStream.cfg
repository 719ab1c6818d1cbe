SPECIFICATION FairSpec
CONSTANTS
  None = None
  MaxChannels = {8, 24, None}
  HwCounts = {4, 16}
  Prefixes = {"A", "", "D"}
  Indices = {1}
  Rates = {1, 3}
  Delay = 5
  FsPerSecond = 6
  MaxI64 = 12
  CHUNK_SAMPLES = 2
  Capacity = 2
  MaxBytes = 3
  MaxAsks = 2
INVARIANTS
  BytesNamed
  WholeWaveforms
  TriggerPlaced
PROPERTY
  Completes
  Ends
CHECK_DEADLOCK FALSE
