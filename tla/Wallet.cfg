SPECIFICATION FairSpec
CONSTANTS
    a1 = a1
    a2 = a2
    NULL = NULL
    Accounts <- MCAccounts
    OnChain <- MCOnChain
    Owners <- MCOwners
    MaxSwitches = 1
    MaxPolls = 1
    MaxCompiles = 1
    MaxFailures = 1
    MaxRefreshes = 1
INVARIANTS
    AccountOnNetwork
    NewAccountLookedUp
    WalletKeptAlive
    PendingIsReloaded
    CompilingEnds
PROPERTIES
    FundedIsFound
CHECK_DEADLOCK FALSE
