SPECIFICATION Spec
CONSTANTS
    m1 = m1
    m2 = m2
    Arms <- Lineup
    ModelSets <- AnyModels
    MaxWork = 2
    MaxRestarts = 2
INVARIANTS
    TypeOK
    CountsOnce
    AbsentIsNotZero
PROPERTIES
    RateNeverOvercounts
