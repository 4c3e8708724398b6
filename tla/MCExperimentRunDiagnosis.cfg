SPECIFICATION FairSpec
CONSTANTS
    r1 = r1
    r2 = r2
    NoRunner = NoRunner
    Runners = {r1}
    Questions = {1, 2, 3}
    Concurrency = 2
    BatchCap = 3
    ErrorWindow = 2
    SchemaStop = 2
    ProviderStop = 1
    MaxAttempts = 2
    MaxCrashes = 1
INVARIANTS DiagnosisRequired
CHECK_DEADLOCK FALSE
