SPECIFICATION MCSpec
CHECK_DEADLOCK FALSE
CONSTANTS
    Jobs = {j1, j2}
    Second = j2
    NoJob = none
    MaxRuns = 1
    MaxForeign = 0
    LastName = 1
    Policies = {"increment"}
    KeepChoices = {FALSE}
INVARIANTS OneFinishedPerRequest CancelsReach FilesAreWhole
PROPERTIES ForeignFilesSurvive RequestsFinish
