SPECIFICATION Spec
CONSTANTS
    m1 = m1
    m2 = m2
    NumTargets = 2
    Models = {m1, m2}
    Bodies <- Lineup
    MaxTargets = 1
    Workers = 1
    Factor = 1
    ForgetAfter = 1
    HasStartTime = TRUE
    Pinnable = {1}
    MaxProcs = 2
INVARIANTS
    TypeOK
    SamplesLabelled
PROPERTIES
    ReadyIsFresh
    CapSparesFresh
    PinsWin
    DeltasAreSafe
