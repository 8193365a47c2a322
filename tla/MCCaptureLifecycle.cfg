SPECIFICATION FairSpec
CONSTANTS
  Captures = {c1}
  NoCapture = NoCapture
INVARIANTS
  IInv
  EvidenceTraceable
  SavedAtMostOnce
  CompleteIsWhole
PROPERTIES
  RecordedEvidenceKept
  RemovalIsAuthorized
  LedgerSpec
  FinalizationEnds
  StopEnds
  RestartSettles
