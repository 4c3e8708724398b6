SPECIFICATION MCSpec
CONSTANTS
    None = None
    Exporters = {e1, e2}
    Requests <- MCRequests
    Evidence <- MCInputs
    Vat = 110
    Consoles <- MCConsoles
    SampleSize = 2
    MaxStarts = 2
CHECK_DEADLOCK FALSE
INVARIANTS PublishedWhole 
