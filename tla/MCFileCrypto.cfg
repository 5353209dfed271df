CONSTANTS
    Paths = {p1, p2, p3}
    Passwords <- MCPasswords
    Chunks <- MCChunks
    UserPath = p1
    MayCrash = TRUE
    MaxCalls = 4
    UserFiles <- MCUserFiles
SPECIFICATION Spec
INVARIANTS
    FileTypeOK
    OutputIsPrefix
    RoundTrip
    KeyWiped
PROPERTIES
    InputPreserved
    FileCallReturns
