SPECIFICATION LinkFairSpec
CONSTANTS
    Commands = 3
    Chunk <- MCChunk
    NoChunk = NoChunk
    Sender = {}
    Cap = 1
    Purge = TRUE
    PurgeRounds = 2
    Edge = {e1, e2}
    NoEdge = NoEdge
    MaxEpoch = 2
INVARIANTS
    CommandLedger
    DeliveredInOrder
    OutageBacklogPurged
PROPERTIES
    FloorYielded
CHECK_DEADLOCK FALSE
