CONSTANTS
    s1 = s1
    s2 = s2
    r1 = r1
    passkey = passkey
    Session = {s1, s2}
    Credential = {passkey}
    CredentialOf <- CredentialOfValue
    Request = {r1}
    TPS = 2
    SessionTTL = 2
    RevokeTTL = 2
    StepUpLimit = 1
    RedisConfigured = TRUE
    Faults <- EitherFault
    MaxClock = 7
SPECIFICATION Spec
INVARIANTS
    TypeOK
    LogoutReachesItsTokenOnly
PROPERTIES
    LogoutTakesEffectAtOnce
    StepUpIsTimely
    KeepsContract
SYMMETRY GateSymmetry
