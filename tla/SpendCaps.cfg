SPECIFICATION Spec
CONSTANTS
    r1 = r1
    r2 = r2
    NoCap = NoCap
    Requests <- MCRequests
    Periods = {"daily", "lifetime"}
    Rolling = {"daily"}
    Limits = {2, 3}
    cost <- MCCost
    FailOpen = FALSE
    MaxWindow = 1
    MaxChanges = 1
INVARIANTS
    CapHolds
    SpendAccounted
CHECK_DEADLOCK FALSE
