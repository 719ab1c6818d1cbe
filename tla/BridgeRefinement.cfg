SPECIFICATION StopOnlySpec
CONSTANTS
  Keys = {k1}
  Scannable = {k1}
  None = None
  k1 = k1
  Pretrigger = 0
  SeqMod = 3
  MaxK = 2
  MaxCmds = 2
PROPERTIES ImplementsSafety ImplementsLive Released StopInterrupts
  CaptureCycle
