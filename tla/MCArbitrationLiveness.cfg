SPECIFICATION OrderFairSpec
CONSTANTS
    h = h
    p = p
    g = g
    q = q
    Client = {c1}
    Target = {h, p, g}
    KindOf <- MCKindOf
    ModeOf <- MCModeOf
    EdgeId = {e1, e2}
    SendId = {s1}
    Origin = {e1, e2, s1}
    NoOrigin = NoOrigin
    Arbitration = "exclusive"
    GenModulus = 2
    PurgeMax = 0
    MaxLeases = 0
PROPERTIES
    NoOvertaking
    WaiterServed
    HeldReclaims
    CloseEndsWaits
CHECK_DEADLOCK FALSE
