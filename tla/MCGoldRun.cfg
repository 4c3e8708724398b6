SPECIFICATION MCSpec
CONSTANTS
    p1 = p1
    p2 = p2
    e1 = e1
    e2 = e2
    e3 = e3
    c1 = c1
    c2 = c2
    v1 = v1
    v2 = v2
    r1 = r1
    None = None
    Processes <- MCProcesses
    Preregs <- MCPreregs
    CohortOf <- MCCohortOf
    Scores <- MCScores
    Reports <- MCReports
    LastSlot = 2
    Tokens <- MCTokens
    Benchmarks <- MCBenchmarks
    MaxStarts = 3
    MaxInvalidations = 2
INVARIANTS ReportsStayTrue ExecutedOnce SplitsIsolate
PROPERTIES InvalidationIsFinal ImplementsFiles
SYMMETRY MCSymmetry
CHECK_DEADLOCK FALSE
