SPECIFICATION FairSpec
CONSTANTS
    FirstHeight = 8
    MaxLag = 2
    MaxBlocks = 4
    MaxEvents = 4
    MaxCrashes = 1
    UNDEFINED = UNDEFINED
INVARIANTS TypeOK NothingSkipped RecordedIsPrefix ProcessedInOrder
PROPERTIES EventsProcessed WaitsForBlocksOrDigit
