CONSTANTS
    r1 = r1
    r2 = r2
    Request = {r1, r2}
    SampleLimit = 1
    RedisConfigured = TRUE
    MaxArrivals = 2
SPECIFICATION FairSpec
INVARIANTS
    TypeOK
    NothingCountedTwice
    CountersAgree
    SamplesMatchCounts
    RelayedOnce
    ProbeFailsForCause
PROPERTY OnlyRedisOrClientStalls
