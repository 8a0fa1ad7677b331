SPECIFICATION FairSpec
CONSTANTS
    r1 = r1
    r2 = r2
    r3 = r3
    t1 = t1
    t2 = t2
    k1 = k1
    None = None
    Keys = {k1}
    Requests <- MCPair
    Tokens = {t1}
    tokenOf <- MCPairTokenOf
    keyOf <- MCPairKeyOf
    MaxPending = 2
    Unbounded = {}
PROPERTIES
    GateResolves
    GateRefined
CHECK_DEADLOCK FALSE
