SPECIFICATION NodeSpec
CONSTANTS
    c1 = c1
    c2 = c2
    e1 = e1
    e2 = e2
    Chunk = {c1, c2, e1, e2}
    Empty = {e1, e2}
    NoChunk = NoChunk
    Sender = {w1, w2}
    Cap = 2
    PurgeRounds = 3
    PurgeOnReconnect = TRUE
    Verb = {v1, v2}
    MaxOpens = 2
    MaxNodes = 2
    MaxGen = 3
    MaxReplugs = 1
INVARIANTS
    NothingVanishes
    ChargedOnce
    StaleNeverWritten
    PortSound
    BreakHolds
PROPERTIES
    ForwardsInOrder
    BackpressureEnds
    LineVerbKeepsToPort
    Reconnects
CHECK_DEADLOCK FALSE
