SPECIFICATION FairSpec
CONSTANTS
    Procs = {p1, p2, p3}
    Backends = {b1}
    Runs = {r1}
    Found <- AnyFound
INVARIANTS
    TypeOK
    NewestLaunchKept
    NeverBlinks
PROPERTIES
    CallsReturn
    IsRegistry
