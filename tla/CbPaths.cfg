SPECIFICATION Spec
CONSTANTS
    a = a
    b = b
    aPath = aPath
    bPath = bPath
    svc = svc
    r1 = r1
    r2 = r2
    Urls <- MCPathUrls
    Upstreams <- MCPair
    finalUrl <- MCPaths
    ServiceUrls = {}
    Supported <- MCBoth
    Requests <- MCRequests
    FailureThreshold = 2
    HalfOpenMax = 1
    RateMode = FALSE
    RatePercent = 50
    MinSamples = 2
    WindowCap = 10
    CounterCap = 2
    Memory = 2
INVARIANTS
    FailsFast
