SPECIFICATION Spec
CONSTANTS
  HdrWords = 3
  RecWords = 3
  PageWords = 8
  SeqWord = 1
  WalCap = 8
  flush_interval = 2
  sync_every = 2
INVARIANTS
  KilledLosesNothing
  ClosedIsDurable
  CheckpointOnDisk
