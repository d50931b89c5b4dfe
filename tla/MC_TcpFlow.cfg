SPECIFICATION Spec
CONSTANTS
    Cpus = {c1, c2}
    Keys = {k1, k2}
    Slots = {s1}
    Recycle = FALSE
    Nobody = Nobody
    NoSlot = NoSlot
    Workloads <- Mixed
    MaxBatches = 2
    SeqMod = 2
    Life = 3
    Gap = 2
    MaxClock = 6
    TimeMod = 64
SYMMETRY Symmetry
INVARIANTS
    TypeOK
    QuotaHoldsInOrder
    BatchesAreSpaced
    OverMeansOver
    OneShape
    PeerIsKnown
CHECK_DEADLOCK FALSE
