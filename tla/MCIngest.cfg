SPECIFICATION Spec
CONSTANTS
    a = a
    b = b
    c = c
    NoFn = NoFn
    Unknown = Unknown
    Fn <- MCFn
    Yamls <- MCYamls
    Telemetry <- MCTelemetry
    Defaults <- MCDefaults
    RateUnit = 12
    RequestPrice = 2
    ExecutionPrice = 1
INVARIANTS
    BuildsAnApplication
    TelemetryIsItsOwn
    ChargeIsThatOfOneSource
