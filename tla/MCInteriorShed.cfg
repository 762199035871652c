SPECIFICATION InnerSpec
CONSTANTS
    pa = pa
    pb = pb
    u = u
    v = v
    a1 = a1
    a2 = a2
    b1 = b1
    e1 = e1
    e2 = e2
    e3 = e3
    Chunk = {a1}
    NoChunk = NoChunk
    Sender = {}
    Cap = 1
    Pump = {pa}
    PumpOf <- MCPumpOf
    Pieces = 1
    Edge = {e1}
    NoEdge = NoEdge
    HostOf <- MCHostOf
    Deleted = {}
    Refused = {}
    ExecWrites = 2
    ExecReads = 2
    MergeCap = 1
    PipeCap = 1
    MaxSpawns = 3
    MaxSurgery = 2
    LogCap = 2
    LogLen <- MCLogLen
    LogGenerations = 2
    LogRotates = 2
    LogWedges = FALSE
    Rotate = Rotate
    Current = Current
INVARIANT
    DetachStallsWriters
CHECK_DEADLOCK FALSE
