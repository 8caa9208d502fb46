SPECIFICATION Spec
CONSTANTS
  id1 = id1
  id2 = id2
  id3 = id3
  far = far
  SlabIds = {id1, id2, id3}
  AlienIds = {far}
  Taker = far
  MinPrice = 1
  MaxPrice = 2
  Prices = {1, 2}
  Qtys = {1, 2}
  Submitted <- MCSubmitted
  MaxNodes = 2
  Capacity = 2
  LevelCap = 2
SYMMETRY IdSymmetry
INVARIANTS
  ChainsLinked
  NodesConserved
  SlabMatchesBook
  AggregatesExact
  NeverCrossed
PROPERTIES
  PriceTimePriority
