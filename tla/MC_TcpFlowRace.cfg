SPECIFICATION Spec
CONSTANTS
    Cpus = {c1, c2}
    Keys = {k1}
    Slots = {s1}
    Recycle = FALSE
    Nobody = Nobody
    NoSlot = NoSlot
    Workloads <- Raced
    MaxBatches = 2
    SeqMod = 2
    Life = 3
    Gap = 2
    MaxClock = 5
    TimeMod = 64
SYMMETRY Symmetry
INVARIANTS
    QuotaHolds
CHECK_DEADLOCK FALSE
