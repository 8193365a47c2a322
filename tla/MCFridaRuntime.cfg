SPECIFICATION FairSpec
CONSTANTS
  Runs = {r1, r2, r3}
  NoRun = NoRun
  MaxRows = 1
INVARIANTS
  FridaInv
PROPERTIES
  FridaLease
  Released
