CONSTANTS
    Passwords <- MCOnePassword
    Expirations <- MCLongExpirations
    FlagChoices <- MCFlagChoices
    Constructions <- MCRsa
    MaxIdentities = 1
    MaxUserIds = 1
    MaxSubkeys = 2
    MaxTime = 1
    TimeModulus = 8
SPECIFICATION ExchangeSpec
INVARIANT
    ExpirationIsExact
