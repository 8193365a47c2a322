SPECIFICATION FairSpec
CONSTANTS
  Bodies = {b1, b2}
  NoBody = NoBody
  Quota = 6
  MaxBody = 4
  MaxPending = 4
  MaxOperations = 2
  ChunkSizes = {2}
  MaxOffered = 4
  MaxStreams = 1
INVARIANTS
  AccountingIsExact
  StoredIsFaithful
  RemovalIsExclusive
PROPERTY
  FinishAnswers
