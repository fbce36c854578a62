CONSTANTS
    c1 = c1
    c2 = c2
    nginx = nginx
    Client = {c1, c2}
    Address = {nginx}
    AddressOf <- AddressOfValue
    MaxRequests = 3
    Window = 3
    TPS = 2
    Slot = {1, 2, 3, 4}
SPECIFICATION FairSpec
INVARIANTS
    TypeOK
    WindowBound
PROPERTIES
    RefusedForAdmissions
    RetryIsHonoured
    RefusalEnds
