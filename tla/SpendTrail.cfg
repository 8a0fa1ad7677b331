SPECIFICATION Spec
CONSTANTS
    r1 = r1
    r2 = r2
    r3 = r3
    low = low
    Requests = {r1, r2}
    Past = {r3}
    Capacity = 1
    MaxChunks = 1
    MaxAttempts = 2
    Partitions = {1, 2}
    NoRow = NoRow
    Alerts = {low}
    WarnAt <- MCWarnAt
    CapAt <- MCCapAt
    NoCap = NoCap
    NoVerdict = NoVerdict
    LastMonth = 2
    Arrivals <- MCArrivals
    PlainCost = 1
    MaxFaults = 1
INVARIANTS RecordComplete VerdictBacked AlertsBounded
PROPERTIES OpenAIStreamsBilled
CHECK_DEADLOCK FALSE
