SPECIFICATION FairSpec
CONSTANTS
    r1 = r1
    r2 = r2
    Request <- MCRequest
    Propagation = 1
    DrainDelay = 2
    ShutdownTimeout = 1
    MetricsTimeout = 2
    Grace = 4
CHECK_DEADLOCK FALSE
INVARIANTS
    TypeOK
    NoneRefused
    KilledBehindTheWork
    DrainIsAnnounced
    CallsOutliveTheirRequests
PROPERTIES
    ServerStopsOrderly
    GatewayStopsOrderly
