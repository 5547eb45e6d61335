CONSTANTS
    a1 = a1
    a2 = a2
    Addr <- MCAddr
    Chains <- MCChains
    Paths <- MCPaths
    MayHang = FALSE
SPECIFICATION ApiSpec
INVARIANTS BalanceRouteServed
