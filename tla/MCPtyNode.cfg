SPECIFICATION PtySpec
CONSTANTS
    MaxSessions = 2
    MaxTraffic = 2
    MaxVerbs = 1
    EndpointCap = 1
    BridgeCap = 1
INVARIANTS
    PtySound
    StaleInputNeverFires
PROPERTIES
    DetachReleases
CHECK_DEADLOCK FALSE
