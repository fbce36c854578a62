CONSTANTS
    h1 = h1
    h2 = h2
    d1 = d1
    d2 = d2
    ch1 = ch1
    ch2 = ch2
    alice = alice
    hardware = hardware
    synced = synced
    Handler = {h1, h2}
    Device = {d1, d2}
    User = {alice}
    Credential = {hardware, synced}
    Owner <- OwnerValue
    Challenge = {ch1, ch2}
    InitialCount <- InitialCountValue
    Counterless <- CounterlessValue
    MaxCount = 3
SPECIFICATION Spec
INVARIANTS
    TypeOK
    EarnedOnce
    AlarmHasCause
    CounterIsGenuine
    NoDuplicateUnlessRaced
PROPERTY CounterGrowsUnlessRaced
SYMMETRY CeremonySymmetry
