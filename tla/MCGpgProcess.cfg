CONSTANTS
    Calls = {c1, c2}
    PipeSize = 1
    InputSizes = {0, 1}
    OutputSizes = {2}
SPECIFICATION Spec
CHECK_DEADLOCK FALSE
INVARIANTS
    GpgProcessTypeOK
    HandlesReleased
    ResultIsComplete
PROPERTIES
    GpgCallReturns
