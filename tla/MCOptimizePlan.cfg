SPECIFICATION PlanSpec
CONSTANTS
    NoFusion = NoFusion
    Singleton = Singleton
    GreedyTP = GreedyTP
    CostlessCSP = CostlessCSP
    Algorithms <- MCAlgorithms
    Outcomes <- MCOutcomes
INVARIANTS
    FrontierCoversTheRest
    UnambiguousMeansNoTrade
