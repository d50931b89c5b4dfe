SPECIFICATION ShutdownSpec
CONSTANTS
    Cpus = {c1, c2}
    Repeat = 2
    Capacity = 2
    RequestTicks = 0
    LeaseTicks = 1
    Faults <- AllFaults
    MaxSeq = 2
    MaxClock = 1
    MaxEpoch = 2
    Polls = 3
SYMMETRY Symmetry
INVARIANTS
    NoReinjection
    SubmitMeansBuilt
    LastRequests
    DrainedMeansQuiet
PROPERTIES
    ForgottenStayForgotten
    DeliverySpec
CHECK_DEADLOCK FALSE
