SPECIFICATION Spec
CONSTANTS
    jsonl = jsonl  sqlite = sqlite  s1 = s1  s2 = s2  s3 = s3
    Jsonl = {}  Sqlite = {sqlite}  Team = {}
    Sessions = {s2, s3}
    FileOf <- HomeOfTwo
    NoFile = NoFile  NoSession = NoSession
    MaxScans = 1  MaxPosts = 1
    Writes <- OneWrite
    Deletable = {}
INVARIANT GateIsTruthful
