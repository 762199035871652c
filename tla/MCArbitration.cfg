SPECIFICATION ArbSpec
CONSTANTS
    h = h
    p = p
    g = g
    q = q
    Client = {c1, c2}
    Target = {h, p, g}
    KindOf <- MCKindOf
    ModeOf <- MCModeOf
    EdgeId = {e1, e2}
    SendId = {s1, s2}
    Origin = {e1, e2, s1, s2}
    NoOrigin = NoOrigin
    Arbitration = "exclusive"
    GenModulus = 4
    PurgeMax = 0
    MaxLeases = 2
SYMMETRY IdSymmetry
VIEW Control
INVARIANTS
    ArbSound
    NoLostWakeup
    QueueIsServed
PROPERTIES
    LeaseReleasesOwnGrant
CHECK_DEADLOCK FALSE
