SPECIFICATION Spec
CHECK_DEADLOCK FALSE
CONSTANTS
    Keys = {"mp4"}
    Guess <- SameGuess
    MaxJobs = 2
    MaxExports = 2
    MaxCommands = 2
    MaxTouches = 0
    Triggers = {"folder"}
    Commands <- AllCommands
    Truncates = TRUE
    Sizes = {1}
    RecycleMode = "ask"
    SdrPolicy = "skip"
    HoldUnknown = TRUE
    AutoSources <- Sources
    Colour <- AllHdr
INVARIANT MuxAccounted
PROPERTY HeldIsNotDispatched
