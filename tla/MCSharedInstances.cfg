CONSTANTS
    Threads = {t1, t2}
    Requests <- MCRequests
    Default <- MCDefault
    MaxCalls = 3
    MaxInstances = 3
    MaxKeys = 2
SPECIFICATION Spec
CHECK_DEADLOCK FALSE
INVARIANTS
    SharedTypeOK
    LiveReferenceIsCached
    MutualExclusion
    SignatureIsShared
PROPERTIES
    SharedCallReturns
