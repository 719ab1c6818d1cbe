SPECIFICATION Spec
CONSTANTS
  Rates = {1, 2, 4}
  Depths = {5, 6}
  Widths = {8, 16}
  Bandwidth = 32
  MaxChannels = 8
  Unknown = Unknown
INVARIANTS
  LabelHonest
  AdvertisedSupported
CHECK_DEADLOCK FALSE
