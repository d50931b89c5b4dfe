SPECIFICATION InputsSpec
CONSTANTS
    Files <- AllFiles
    Frames <- AllFrames
    Serving <- Served
    MaxInterfaces = 2
    MaxRules = 2
    MaxKeys = 6
    Variants = 4
INVARIANTS
    ReadAsWritten
    PicksArePublished
    LooksInside
    KeysAgree
    OptionsAsRead
    NoPartialRewrite
    DecoyFallsShort
CHECK_DEADLOCK FALSE
