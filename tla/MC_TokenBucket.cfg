SPECIFICATION Spec
CONSTANTS
    Cpus = {c1, c2}
    NS = 2
    MaxRate = 3
    MaxBurst = 3
    Configs <- MCConfigs
    MaxTriggers = 5
    MaxClock = 6
    TimeMod = 64
SYMMETRY Symmetry
INVARIANTS
    BucketBelowBurst
    BudgetHoldsInOrder
PROPERTIES
    IdleBucketAdmits
CHECK_DEADLOCK FALSE
