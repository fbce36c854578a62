CONSTANTS
    p1 = p1
    p2 = p2
    p3 = p3
    Process = {p1, p2, p3}
    MaxFaults = 2
SPECIFICATION FairSpec
INVARIANTS
    TypeOK
    SchemaRepaired
PROPERTY EventuallyServes
CHECK_DEADLOCK FALSE
