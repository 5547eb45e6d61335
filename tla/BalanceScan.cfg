\* Safety and termination of the scan against every node behaviour, a
\* request that never returns included (a hung request is a real stop,
\* hence no deadlock check).
CONSTANTS
    a1 = a1
    a2 = a2
    Addr <- MCAddr
    Chains <- MCChains
    MayHang = TRUE
SPECIFICATION Spec
INVARIANTS TypeOK ReplyAccurate
PROPERTIES ScanTerminates
CHECK_DEADLOCK FALSE
