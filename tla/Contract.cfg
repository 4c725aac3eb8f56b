SPECIFICATION Spec
CONSTANTS
    i1 = i1  i2 = i2  k1 = k1  k2 = k2  p1 = p1  p2 = p2
    Ids = {i1, i2}
    Factors = {k1, k2, p1, p2}
    OpKey <- OpKeys
    Enrols <- OneOwnSecret
    MANAGER = MANAGER
    EMPTY = EMPTY
    PRESENT = PRESENT
    PROTOCOL = PROTOCOL
    NULL = NULL
    Clients = {u1}
    Methods <- AllMethods
    MaxSends = 3
    MaxCommits = 2
    Drops = FALSE
    Serialized = FALSE
    PromptFlag = FALSE
    MaxIndexerCrashes = 0
    MaxProverCrashes = 0
INVARIANTS RequestsJustified PendingShareCommitment
    NoDuplicateCommit
