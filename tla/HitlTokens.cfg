SPECIFICATION Spec
CONSTANTS
    r1 = r1
    r2 = r2
    r3 = r3
    t1 = t1
    t2 = t2
    k1 = k1
    None = None
    Keys = {k1}
    Requests <- MCRequests
    Tokens = {t1, t2}
    tokenOf <- MCTokenOf
    keyOf <- MCKeyOf
    MaxPending = 1
    Unbounded = {}
INVARIANTS
    OutcomeMatchesRow
    KeyNamesOneApproval
PROPERTY RevokedNeverAdmitted
SYMMETRY MCSymmetry
CHECK_DEADLOCK FALSE
