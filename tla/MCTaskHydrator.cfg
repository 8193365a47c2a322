SPECIFICATION HydratorFairSpec
CONSTANTS
    s = s  t = t  k1 = k1  k2 = k2
    Leases = {p, q, r}
    Tasks = {s, t}
    Keys = {k1, k2}
    Members <- SomeMembers
    MaxLeases = 2
    MaxJobs = 2
    MaxLoads = 2
INVARIANTS HydratorInv DoneIsComplete
PROPERTY PageEnds
CHECK_DEADLOCK FALSE
