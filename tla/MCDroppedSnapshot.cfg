SPECIFICATION DaemonSpec
CONSTANTS
    Origin = {o1, o2, o3}
    NoOrigin = NoOrigin
    Arbitration = "exclusive"
    GenModulus = 3
    PurgeMax = 1
    Name = {"s", "m", "c", "p"}
    GraphKind <- MCGraphKind
    LoadFile <- MCLoadFile
    MaxBuilds = 4
    MaxEdgeIds = 3
    Conn = {c1, c2}
    MaxMutations = 3
    MaxDeaths = 2
    MaxIoFailures = 1
    Torn = Torn
    NoFile = NoFile
INVARIANT
    SnapshotCurrent
CHECK_DEADLOCK FALSE
