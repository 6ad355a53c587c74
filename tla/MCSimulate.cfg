SPECIFICATION FairSpec
CONSTANTS
    resize = resize
    thumbResize = thumbResize
    NoRow = NoRow
    Fn = {resize, thumbResize}
    EndsIn <- MCEndsIn
    PollInterval = 1
    GitHubTimeout = 3
    OverallBudget = 24
    ParseBudget = 2
    EnrichBudget = 9
    OptimizeBudget = 18
    SolverTimeout = 12
    HeuristicsTime = 0
CHECK_DEADLOCK FALSE
INVARIANTS
    SimulateTypeOK
    BudgetsHold
    EnricherStops
PROPERTIES
    EveryRequestIsAnswered
