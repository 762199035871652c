SPECIFICATION LinkSpec
CONSTANTS
    Commands = 1
    Chunk <- MCChunk
    NoChunk = NoChunk
    Sender = {}
    Cap = 1
    Purge = TRUE
    PurgeRounds = 2
    Edge = {e1}
    NoEdge = NoEdge
    MaxEpoch = 1
INVARIANT
    BindingIsLive
CHECK_DEADLOCK FALSE
