SPECIFICATION MCSpec
CONSTANTS
    p1 = p1
    p2 = p2
    k1 = k1
    k2 = k2
    None = None
    Processes <- MCProcesses
    Rankings <- MCRankings
    LastQuestion = 2
    MaxStarts = 3
    Queries <- MCQueries
    Strategies <- MCStrategies
    TopKs <- MCTopKs
    Contests <- MCContests
INVARIANTS SearchedOnce EvaluationsAgree StrandedOnlyByFault AnswersGrounded 
SYMMETRY MCSymmetry
CHECK_DEADLOCK FALSE
