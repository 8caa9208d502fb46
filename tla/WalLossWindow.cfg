SPECIFICATION Spec
CONSTANTS
  HdrWords = 3
  RecWords = 3
  PageWords = 8
  SeqWord = 1
  WalCap = 7
  flush_interval = 1
  sync_every = 3
INVARIANTS
  LossWindow
