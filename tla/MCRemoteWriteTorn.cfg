SPECIFICATION Spec
CONSTANTS
    Series = {a, b}
    Destinations = {d1}
    MaxTs = 2
    MaxBatch = 2
    MaxBytes = 3
    Faults = {"torn"}
SYMMETRY Symmetry
INVARIANTS
    NoSilentGhost
