SPECIFICATION Spec
CHECK_DEADLOCK FALSE
CONSTANTS
    Keys = {"mp4", "mov"}
    Guess <- FirstGuess
    MaxJobs = 2
    MaxExports = 1
    MaxCommands = 1
    MaxTouches = 0
    Triggers = {"log", "cep", "sidecar", "folder"}
    Commands = {"preset", "hold", "resume"}
    Truncates = FALSE
    Sizes = {1}
    RecycleMode = "auto"
    SdrPolicy = "skip"
    HoldUnknown = TRUE
    AutoSources <- Sources
    Colour <- AllSdr
PROPERTIES SdrNeedsPreset WorkSettles
