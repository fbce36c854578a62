CONSTANTS
    f1 = f1
    f2 = f2
    Flow = {f1, f2}
    StepUpLimit = 2
    MaxClock = 4
SPECIFICATION Spec
INVARIANTS
    TypeOK
    OneTransferPerClick
    ExpiredIsTrue
    PanelIsTrue
SYMMETRY PageSymmetry
