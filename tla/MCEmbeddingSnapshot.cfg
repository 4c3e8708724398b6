SPECIFICATION Spec
CONSTANTS
    b1 = b1
    b2 = b2
    v1 = v1
    v2 = v2
    None = None
    Rejected = Rejected
    Builders <- MCBuilders
    Versions <- MCVersions
    Tokens <- MCTokens
    Limits <- MCLimits
    MaxExecutions = 4
    MaxTouches = 1
  
PROPERTY ImplementsStore
SYMMETRY MCSymmetry
CHECK_DEADLOCK FALSE
