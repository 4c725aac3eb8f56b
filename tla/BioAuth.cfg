SPECIFICATION FairSpec
CONSTANTS
    x = x
    y = y
    h = h
    t1 = t1
    t2 = t2
    NULL = NULL
    First = x
    BioIds <- MCBioIds
    Humans <- MCHumans
    Tabs <- MCTabs
    MaxOpens = 2
    MaxForms = 2
    MaxFaults = 1
    MaxPolls = 1
    MaxClicks = 1
    MaxMoves = 1
INVARIANTS
    PollAlive
    LandsWhereAsked
PROPERTIES
    AuthArrives
CHECK_DEADLOCK FALSE
