SPECIFICATION Spec
CONSTANTS
    jsonl = jsonl  sqlite = sqlite  s1 = s1  s2 = s2  s3 = s3
    Jsonl = {jsonl}  Sqlite = {sqlite}  Team = {}
    Sessions = {s1, s2}
    FileOf <- Home
    NoFile = NoFile  NoSession = NoSession
    MaxScans = 2  MaxPosts = 2
    Writes <- FewWrites
    Deletable = {s1}
INVARIANT OneScanAtATime
