SPECIFICATION PathSpec
CONSTANTS
    Endpoint = {t1, t2}
    EdgeMax = 3
    HostChunks = 2
    EdgeDepth = 1
    EdgeInboxCap = 2
    Tap = {k1}
    Wait = {w1, w2}
    StreamLen = 4
    FeedCap = 1
    RingCap = 2
    TapQueueCap = 1
    MaxArmedWaits = 1
    Lookback = 2
SYMMETRY WaitSymmetry
INVARIANT
    NoMatchAcrossHole
CHECK_DEADLOCK FALSE
