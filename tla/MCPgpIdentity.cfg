CONSTANTS
    Passwords = {pw1, pw2}
    Expirations <- MCExpirations
    FlagChoices <- MCFlagChoices
    Constructions <- MCConstructions
    MaxIdentities = 2
    MaxUserIds = 2
    MaxSubkeys = 2
    MaxTime = 1
SYMMETRY PasswordSymmetry
SPECIFICATION Spec
INVARIANTS
    TypeOK
    OnePassword
    UniquePrimary
    PrimaryCertGoverns
    ExportedByOwnMaster
    FlatSubkeyMirrors
    BindingMatchesGetters
PROPERTIES
    RevocationIsForever
    ErrorKeepsIdentity
