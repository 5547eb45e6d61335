CONSTANTS
    e1 = e1
    e2 = e2
    e3 = e3
    NoEndpoint = NoEndpoint
    ResetEndpoints <- MCResetEndpoints
    BasicCount = 3
    MayTimeOut = TRUE
SPECIFICATION Spec
INVARIANTS AtMostOneReset
CHECK_DEADLOCK FALSE
