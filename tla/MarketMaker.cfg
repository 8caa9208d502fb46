SPECIFICATION Spec
CONSTANTS
  HALF_SPREAD = 1
  SKEW_THRESHOLD = 0
  MAX_SKEW = 1
  UNITS_PER_TICK = 2
  HALT_INV = 1
  QUOTE_QTY = 2
  FLATTEN_CHUNK = 1
  IOC_CROSS = 1
  SEED_MID = 3
  ID_BASE = 1
  ID_MAX = 8
  Mids = {2, 5}
  MaxId = 7
  MaxTrades = 1
  MaxFaults = 1
CHECK_DEADLOCK FALSE
INVARIANTS
  QuotesBounded
  HaltedIsOut
  NoSelfTrade
PROPERTIES
  KeepsQuoting
