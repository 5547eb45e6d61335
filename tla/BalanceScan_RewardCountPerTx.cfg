CONSTANTS
    a1 = a1
    a2 = a2
    Addr <- MCAddr
    Chains <- MCChains
    MayHang = FALSE
SPECIFICATION Spec
INVARIANTS RewardCountPerTx
