SPECIFICATION FairSpec
CONSTANTS
    Backends = {b1, b2}
    Regs = {r1}
    ArmIds = {i1, i2, i3, i4, i5}
    MaxErrors = 0
PROPERTIES
    ScrapeEnds
    Heals
