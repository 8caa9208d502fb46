SPECIFICATION FairSpec
CONSTANTS
  Size = 4
  MaxBatch = 6
  MaxItems = 11
INVARIANTS
  NoSlotRace
  InOrder
PROPERTIES
  RingIsChannel
  Delivered
  PublishReturns
