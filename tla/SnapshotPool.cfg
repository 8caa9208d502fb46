SPECIFICATION FairSpec
CONSTANTS
  Slots = 3
  ClaimRetries = 2
  MaxSeq = 5
INVARIANTS
  NoTornRead
  WriterNeverSkips
  FinalImageSent
PROPERTIES
  PublishedStable
  ReaderTerminates
