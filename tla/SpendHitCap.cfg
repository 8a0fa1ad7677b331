SPECIFICATION Spec
CONSTANTS
    r1 = r1
    r2 = r2
    NoCap = NoCap
    Requests <- MCRequests
    Periods = {"lifetime"}
    Rolling = {}
    Limits = {2}
    cost <- MCCost
    FailOpen = FALSE
    MaxWindow = 0
    MaxChanges = 0
PROPERTY HitCapBlocks
CHECK_DEADLOCK FALSE
