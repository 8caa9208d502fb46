SPECIFICATION PartsSpec
CONSTANTS
  Prices = {1, 2, 3, 4, 5, 6, 7, 8, 9}
  Levels = 8
  Capacity = 4
  MaxSeq = 6
INVARIANTS
  RedBlack
  NeighboursInOrder
  SearchFindsLevels
  IndexIsMap
  TimeOrder
PROPERTIES
  NodeImplementsFifo
