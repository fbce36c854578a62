CONSTANTS
    k1 = k1
    k2 = k2
    c1 = c1
    c2 = c2
    Nonce = {k1, k2}
    Caller = {c1, c2}
    TTL = 1
    MaxClock = 4
    RedisConfigured = TRUE
SPECIFICATION Spec
INVARIANTS
    TypeOK
    SingleUseUnlessDoubled
    StrictTTL
PROPERTY ImplementsOneTimeNonce
SYMMETRY CallSymmetry
