SPECIFICATION AllSpec
CHECK_DEADLOCK FALSE
CONSTANTS
    Posters = {p1, p2}
    UI = ui
    Windows = {w1}
    NoWindow = none
    MaxEvents = 2
    MaxRounds = 2
    MaxTargets = 1
    EarlyPost = TRUE
    PostMayFail = TRUE
    Procs = {"p", "q"}
    MaxWindows = 2
INVARIANTS NoStrandedEvent OneEngine
PROPERTIES ImplementsChannel EventuallyApplied LeavesWithAme
