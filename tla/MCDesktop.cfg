SPECIFICATION AllSpec
CHECK_DEADLOCK FALSE
CONSTANTS
    Posters = {p1, p2}
    UI = ui
    Windows = {w1, w2}
    NoWindow = none
    MaxEvents = 2
    MaxRounds = 2
    MaxTargets = 1
    EarlyPost = FALSE
    PostMayFail = FALSE
    MaxRange = 2
    Page = 2
    Cefs = {"cef"}
    MaxClosed = 1
INVARIANTS ScrollRests DockingIsSettled ListShowsTheQueue PointersStayGood ToastsLeave PlansAgree OnlyDestroyStrands
PROPERTIES FieldIsWhole SettingsKept
