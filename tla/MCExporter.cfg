SPECIFICATION FairSpec
CONSTANTS
    Backends = {b1}
    Regs = {r1}
    ArmIds = {i1, i2, i3}
    MaxErrors = 0
    Conns = {h1, h2}
INVARIANTS
    CleanExit
    FlushesBeforeExit
PROPERTIES
    ServeReturns
