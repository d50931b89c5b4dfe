SPECIFICATION FairShutdownSpec
CONSTANTS
    Cpus = {c1, c2}
    Repeat = 2
    Capacity = 2
    RequestTicks = 0
    LeaseTicks = 1
    Faults <- LostClones
    MaxSeq = 2
    MaxClock = 1
    MaxEpoch = 1
    Polls = 3
PROPERTIES
    Drains
CHECK_DEADLOCK FALSE
