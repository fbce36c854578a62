CONSTANTS
    f1 = f1
    Flow = {f1}
    StepUpLimit = 2
    MaxClock = 5
SPECIFICATION Spec
PROPERTY ProfileIsShown
