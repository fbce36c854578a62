CONSTANTS
    k1 = k1
    c1 = c1
    Nonce = {k1}
    Caller = {c1}
    TTL = 2
    MaxClock = 3
    RedisConfigured = TRUE
SPECIFICATION Spec
INVARIANT SingleUse
