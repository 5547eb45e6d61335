CONSTANTS
    p1 = p1
    p2 = p2
    n1 = n1
    n2 = n2
    w1 = w1
    w2 = w2
    NoProc = NoProc
    NoNode = NoNode
    NoWallet = NoWallet
    Procs = {p1, p2}
    Nodes = {n1, n2}
    DefaultNode = n1
    Wallets = {w1, w2}
    RunCommands = {"balance", "wallet_create", "wallet_address", "send"}
    Overlap = FALSE
    MayKill = TRUE
    EnvMayFail = TRUE
SPECIFICATION Spec
INVARIANTS TypeOK SessionIsolation PortHeldByLiveCommand
PROPERTIES CommandEnds
CHECK_DEADLOCK FALSE
