SPECIFICATION FairSpec
CONSTANTS
    f1 = f1
    f2 = f2
    f3 = f3
    f4 = f4
    NoFn = NoFn
    Fn <- MCFn
    IdRank <- MCIdRank
    Apps <- MCApps
    RequestPrice = 2
    ExecutionPrice = 1
INVARIANTS
    NearestBarrier
    ClaimedOnce
    ChainsStayWithinTheLimit
PROPERTIES
    MergesHelp
    Terminates
