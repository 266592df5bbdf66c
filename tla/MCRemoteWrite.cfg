SPECIFICATION Spec
CONSTANTS
    Series = {a, b, c}
    Destinations = {d1, d2}
    MaxTs = 3
    MaxBatch = 2
    MaxBytes = 4
    Faults = {"write", "read", "remove"}
SYMMETRY Symmetry
INVARIANTS
    TypeOK
    MemoryMatchesDisk
    NoSilentGhost
    CapHoldsOnDisk
    RightReceiver
    HeadIsSent
PROPERTIES
    FIFO
    IsDurableQueue
