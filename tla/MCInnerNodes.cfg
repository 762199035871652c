SPECIFICATION InnerSpec
CONSTANTS
    pa = pa
    pb = pb
    u = u
    v = v
    a1 = a1
    a2 = a2
    b1 = b1
    e1 = e1
    e2 = e2
    e3 = e3
    Chunk = {a1, a2, b1}
    NoChunk = NoChunk
    Sender = {}
    Cap = 1
    Pump = {pa, pb}
    PumpOf <- MCPumpOf
    Pieces = 2
    Edge = {e1, e2, e3}
    NoEdge = NoEdge
    HostOf <- MCHostOf
    Deleted = {a2}
    Refused = {b1}
    ExecWrites = 2
    ExecReads = 2
    MergeCap = 1
    PipeCap = 1
    MaxSpawns = 3
    MaxSurgery = 2
    LogCap = 2
    LogLen <- MCLogLen
    LogGenerations = 2
    LogRotates = 2
    LogWedges = FALSE
    Rotate = Rotate
    Current = Current
INVARIANTS
    PumpLedger
    NoLostEdgeWakeup
    ExecSound
    LogSound
PROPERTIES
    PipesNeverWedge
    RotationNeverReplaced
    WriterWakes
CHECK_DEADLOCK FALSE
