SPECIFICATION Spec
CONSTANTS
    Cpus = {c1, c2}
    Repeat = 2
    Capacity = 2
    RequestTicks = 0
    LeaseTicks = 1
    Faults <- LinkFaults
    MaxSeq = 3
    MaxClock = 1
    MaxEpoch = 2
SYMMETRY Symmetry
INVARIANTS
    NoOrphan
CHECK_DEADLOCK FALSE
