CONSTANTS
    Passwords <- MCOnePassword
    Expirations <- MCNever
    FlagChoices <- MCFlagChoices
    Constructions <- MCRsa
    MaxIdentities = 1
    MaxUserIds = 1
    MaxSubkeys = 3
    MaxTime = 1
    TimeModulus = 100
SPECIFICATION ExchangeSpec
INVARIANT
    EncryptFlagRespected
