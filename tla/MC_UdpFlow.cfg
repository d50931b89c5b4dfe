SPECIFICATION Spec
CONSTANTS
    Cpus = {c1, c2}
    Keys = {k1, k2}
    Slots = {s1}
    Recycle = FALSE
    Nobody = Nobody
    NoSlot = NoSlot
    Configs <- TwoConfigs
    MaxInitial = 2
    Ttls = {64}
    Top = 3
    MaxPackets = 4
    MaxClock = 4
    TimeMod = 64
SYMMETRY Symmetry
INVARIANTS
    NoReflection
    BatchesAreEarly
    EstimateIsCurrent
CHECK_DEADLOCK FALSE
