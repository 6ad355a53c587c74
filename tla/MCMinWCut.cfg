SPECIFICATION Spec
CONSTANTS
    f1 = f1
    f2 = f2
    f3 = f3
    NoFn = NoFn
    Fn <- MCFn
    Apps <- MCApps
    RequestPrice = 2
    ExecutionPrice = 1
INVARIANTS
    TypeOK
    Partition
    FusedGroupsFit
    ConnectedByCalls
    NeverWorseThanNoFusion
    TradeoffExplainsTheChange
PROPERTIES
    MergesLowerTheTotalCost
    HopsNeverAdded
    RefinesCoarsening
