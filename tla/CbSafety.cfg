SPECIFICATION Spec
CONSTANTS
    a = a
    b = b
    aPath = aPath
    bPath = bPath
    svc = svc
    r1 = r1
    r2 = r2
    Urls <- MCAllUrls
    Upstreams <- MCPair
    finalUrl <- MCHalf
    ServiceUrls <- MCService
    Supported <- MCMixed
    Requests <- MCRequests
    FailureThreshold = 2
    HalfOpenMax = 1
    RateMode = FALSE
    RatePercent = 50
    MinSamples = 2
    WindowCap = 10
    CounterCap = 2
    Memory = 2
INVARIANT TracksFailures
