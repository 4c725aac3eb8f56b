SPECIFICATION FairSpec
CONSTANTS
    a1 = a1
    a2 = a2
    p1 = p1
    p2 = p2
    NULL = NULL
    UNDEFINED = UNDEFINED
    Accounts <- MCAccounts
    Factors <- MCFactors
    MaxSwitches = 1
    MaxSigns = 2
    MaxProofs = 2
    MaxSends = 2
    MaxFailures = 1
INVARIANTS
    OperatorKeyIsOwners
CHECK_DEADLOCK FALSE
