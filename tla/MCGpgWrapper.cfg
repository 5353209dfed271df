CONSTANTS
    Instances = {a, b}
    CallerDirs = {shared}
    Emails = {e1, e2}
    Foreign = {f}
    MaxKeys = 2
    MaxTemps = 3
SPECIFICATION Spec
CHECK_DEADLOCK FALSE
CONSTRAINT MCFocus
SYMMETRY MCSymmetry
INVARIANTS
    GpgWrapperTypeOK
    TrackedKeysInKeyring
    ResultIsOwn
    TemporariesRemoved
