CONSTANTS
    Paths = {p1, p2, p3}
    Passwords <- MCPasswords
    Chunks <- MCChunks
    UserPath = p1
    MayCrash = FALSE
    MaxCalls = 4
    UserFiles <- MCUserFiles
SPECIFICATION Spec
INVARIANT
    SuccessMeansComplete
