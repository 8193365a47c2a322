SPECIFICATION FairSpec
CONSTANTS
    jsonl = jsonl  sqlite = sqlite  s1 = s1  s2 = s2  s3 = s3
    Jsonl = {jsonl}  Sqlite = {sqlite}  Team = {jsonl}
    Sessions = {s1, s2}
    FileOf <- Home
    NoFile = NoFile  NoSession = NoSession
    MaxScans = 2  MaxPosts = 1
    Writes <- FewWrites
    Deletable = {s1}
INVARIANTS ScanInv OffIsQuiet
PROPERTIES GateNotAhead NoSignalLost
