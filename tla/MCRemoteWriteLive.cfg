SPECIFICATION FairSpec
CONSTANTS
    Series = {a}
    Destinations = {d1}
    MaxTs = 1
    MaxBatch = 1
    MaxBytes = 1
    Faults = {"write", "read", "remove", "sync", "rmsync", "state", "torn"}
PROPERTIES
    ShutdownEnds
    HeadLeaves
