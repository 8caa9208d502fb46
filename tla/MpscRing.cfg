SPECIFICATION FairSpec
CONSTANTS
  Producers = {1, 2}
  Size = 4
  MaxItems = 3
INVARIANTS
  NoCellRace
PROPERTIES
  RingIsChannel
  Delivered
