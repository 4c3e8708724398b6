SPECIFICATION FairSpec
CONSTANTS
    r1 = r1
    r2 = r2
    NoRunner = NoRunner
    Runners = {r1, r2}
    Questions = {1, 2, 3}
    Concurrency = 2
    BatchCap = 2
    ErrorWindow = 2
    SchemaStop = 2
    ProviderStop = 1
    MaxAttempts = 2
    MaxCrashes = 1
INVARIANTS RecordsBackedByResults StateMatchesArtifacts NeverReexecutesSaved HistoryFaithful
PROPERTIES RunnerReturns ResultsImmutable
CHECK_DEADLOCK FALSE
