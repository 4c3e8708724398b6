SPECIFICATION MCSpec
CONSTANTS
    p1 = p1
    p2 = p2
    d1 = d1
    d2 = d2
    c1 = c1
    c2 = c2
    same = same
    other = other
    NoPipe = NoPipe
    NoDoc = NoDoc
    Pipes <- MCPipes
    Docs <- MCDocs
    Budget = 4
    MaxExecutions = 3
    MaxFaults = 1
    Collectors = {c1, c2}
    Documents = {"report", "table"}
    Contents <- MCContents
    PagesOf <- MCPagesOf
    Abouts <- MCAbouts
    Dirs = {same, other}
    FileNames = {"f1", "f2", "f3"}
    NamePairs <- MCNamePairs
    Targets <- MCTargets
    NoCollector = NoCollector
    NoFile = NoFile
    MaxCollections = 2
    MaxLater = 1
    SyncPages <- MCSyncPages
    LongPages = {4}
    MaxOnPage = 2
    Models = {"m", "n"}
    MaxAttempts = 2
INVARIANTS NeverReparsesIntact  RowsHoldResponses TurnsBelowBudget CorpusStands LongDocumentsWhole
SYMMETRY MCSymmetry
CHECK_DEADLOCK FALSE
