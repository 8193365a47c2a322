SPECIFICATION FairSpec
CONSTANTS
  Captures = {c1, w1}
  Sockets = {w1}
  None = None
  MaxRestarts = 1
  MaxAnswers = 1
INVARIANTS
  EvidenceInv
PROPERTIES
  AnswersAreFresh
  DrainEnds
CHECK_DEADLOCK FALSE
