CONSTANTS
    A = A
    B = B
    Absent = Absent
    Paths <- MCPaths
    Recipients <- MCRecipients
    InitialDisks <- MCDisks
    Foreign <- MCForeign
    HeadRead = 8
    ReadSize = 2
    OneOctetLimit = 4
    LengthModulus = 11
    SizeModulus = 1000
    MaxDocument = 10
    MaxCalls = 2
SPECIFICATION Spec
CONSTRAINT MCFocus
CHECK_DEADLOCK FALSE
INVARIANTS
    PgpFileTypeOK
    DecryptFileVerdict
    TemporaryIsPrefix
    NothingLeftBehind
PROPERTIES
    ImplementsOutputFile
    FileCallEnds
