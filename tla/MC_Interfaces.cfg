SPECIFICATION FairSpec
CONSTANTS
    Count = 2
    Indices <- FewIndices
    MaxBirth = 3
    MaxRun = 2
    MaxEpoch = 4
INVARIANTS
    TypeOK
    Accounted
    StartsClean
    EnabledMeansHooked
PROPERTIES
    Rehooked
    ForeignStays
CHECK_DEADLOCK FALSE
