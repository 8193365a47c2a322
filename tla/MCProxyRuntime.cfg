SPECIFICATION FairSpec
CONSTANTS
  Runs = {r1, r2, r3}
  NoRun = NoRun
  Maintenance = Maintenance
INVARIANT
  RuntimeInv
PROPERTIES
  LeaseSpec
  RequestsSettle
CHECK_DEADLOCK FALSE
