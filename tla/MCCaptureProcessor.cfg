SPECIFICATION PoolFairSpec
CONSTANTS
  Processors = {p1, p2}
  j1 = j1
  j2 = j2
  j3 = j3
  j4 = j4
  Jobs = {j1, j2, j3, j4}
  NoJob = NoJob
  Bytes <- MCBytes
  MaxJobs = 3
  MaxBytes = 4
  PoolJobs = 3
  PoolBytes = 5
  PoolWorkers = 1
INVARIANTS
  PoolInv
  NothingStranded
PROPERTY
  SubmittedSettles
CHECK_DEADLOCK FALSE
