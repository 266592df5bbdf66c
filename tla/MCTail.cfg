SPECIFICATION FairSpec
CONSTANTS
    BufSize = 2
    MaxRead = 3
    MaxLine = 2
    MaxFiles = 2
    MaxSize = 4
    Disturbances = {"replace", "truncate"}
INVARIANTS
    TypeOK
    CountsLines
    ExposesTheLog
PROPERTIES
    CatchesUp
