SPECIFICATION Spec
CHECK_DEADLOCK FALSE
CONSTANTS
    Keys = {"mp4"}
    Guess <- SameGuess
    MaxJobs = 3
    MaxExports = 2
    MaxCommands = 0
    MaxTouches = 1
    Triggers = {"log", "folder"}
    Commands = {}
    Truncates = FALSE
    Sizes = {1}
    RecycleMode = "auto"
    SdrPolicy = "skip"
    HoldUnknown = TRUE
    AutoSources <- Sources
    Colour <- AllHdr
PROPERTIES OneJobPerExport OncePerExport
