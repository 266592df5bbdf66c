SPECIFICATION ServingSpec
CONSTANTS
    Backends = {b1}
    Regs = {r1, r2}
    ArmIds = {i1, i2, i3}
    MaxErrors = 3
INVARIANTS
    ErrorsCounted
