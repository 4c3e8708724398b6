SPECIFICATION Spec
CONSTANTS
    p1 = p1
    p2 = p2
    None = None
    Processes <- MCProcesses
    Quotas <- MCQuotas
    NormalQuotas <- MCNormalQuotas
    Windows <- MCWindows
    Drafts <- MCDrafts
    Similar <- MCSimilar
    DocumentCap = 4
    PageCap = 2
    BatchSize = 2
    MaxRounds = 1
    Budget = 8
    MaxStarts = 2
INVARIANTS  ReportsAgree ConfirmedScope
SYMMETRY MCSymmetry
CHECK_DEADLOCK FALSE
