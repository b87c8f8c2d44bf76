SPECIFICATION AllSpec
CHECK_DEADLOCK FALSE
CONSTANTS
    Ids <- TwoJobs
    MaxStarts = 2
    Recycle = TRUE
    Jobs = {"j"}
    MaxGen = 2
    MaxChanges = 0
    States = {"locked", "final"}
    CheckStructure = FALSE
    Paths = {"a", "b"}
    Dirs = {"d1", "d2"}
    DirOf <- FolderOf
    Ignored = {"d2"}
    Positions = {"p1", "p2"}
    MaxItems = 2
    MaxFolders = 1
    Candidates = {"clip"}
    Sidecars = {"stream"}
    MaxSize = 2
    MaxNotified = 1
    MaxOutages = 1
    Slots = {1, 2}
    MaxSessions = 2
    MaxPieces = 2
    MaxPending = 1
    MaxOutbound = 1
    MaxInbound = 2
    Limit = 1
    MaxInbox = 1
    MaxRestarts = 1
INVARIANTS
    MuxedOnce NothingForgotten LogToldOnce  FolderIsTold PipeIsCounted
    PanelIsBelieved ProbesAccounted ChildIsRead NamesRoundTrip
PROPERTIES StoreIsWhole TagsAreVerified
