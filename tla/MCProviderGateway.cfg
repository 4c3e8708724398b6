SPECIFICATION GatewaySpec
CONSTANTS
    c1 = c1
    c2 = c2
    c3 = c3
    p1 = p1
    p2 = p2
    NoCall = NoCall
    Calls <- MCCalls
    Procs <- MCProcs
    Keys = {"g", "d"}
    Operation <- MCOperation
    Projected <- MCProjected
    Reported <- MCReported
    HardLimit = 5
    MaxCost = 3
    MaxRetries = 1
    MaxConcurrency = 1
    MaxLockConnections = 1
    MaxCrashes = 1
SYMMETRY MCSymmetry
INVARIANTS ChargedExactlyOnce CapUnlessOverrun SingleFlight NeverPaysForCached PaidTwiceOnlyAfterLoss OpenReservationOwned AnswerAccounted CoalescedPerProcess
PROPERTIES ImplementsAccount
