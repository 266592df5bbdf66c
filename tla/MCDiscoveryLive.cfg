SPECIFICATION FairSpec
CONSTANTS
    m1 = m1
    m2 = m2
    NumTargets = 2
    Models = {m1, m2}
    Bodies <- Labelling
    MaxTargets = 2
    Workers = 1
    Factor = 1
    ForgetAfter = 0
    HasStartTime = FALSE
    Pinnable = {}
    MaxProcs = 2
PROPERTIES
    NoTargetStarves
