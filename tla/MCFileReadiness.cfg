SPECIFICATION MCSpec
CHECK_DEADLOCK FALSE
CONSTANTS
    Jobs = {j1}
    MaxGen = 1
    MaxChanges = 2
    States = {"absent", "directory", "locked", "denied", "tiny", "sidecars", "cut", "final"}
    CheckStructure = TRUE
PROPERTIES ReadyAfterTwoLooks FailIsPosted EveryProbeEnds
