SPECIFICATION WindowSpec
CONSTANTS
    Posters = {p1}
    UI = ui
    Windows = {w1, w2}
    NoWindow = none
    MaxEvents = 2
    MaxRounds = 2
    MaxTargets = 1
    EarlyPost = FALSE
    PostMayFail = FALSE
PROPERTY EventuallyApplied
CHECK_DEADLOCK FALSE
