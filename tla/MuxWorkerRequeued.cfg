SPECIFICATION Spec
CHECK_DEADLOCK FALSE
CONSTANTS
    Jobs = {j1}
    NoJob = none
    MaxRuns = 2
    MaxForeign = 0
    LastName = 1
    Policies = {"increment"}
    KeepChoices = {FALSE}
INVARIANT NoCancelWipedOut
