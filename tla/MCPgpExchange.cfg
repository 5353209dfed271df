CONSTANTS
    Passwords <- MCOnePassword
    Expirations <- MCExpirations
    FlagChoices <- MCFlagChoices
    Constructions <- MCBoth
    MaxIdentities = 2
    MaxUserIds = 1
    MaxSubkeys = 3
    MaxTime = 1
    TimeModulus = 100
SPECIFICATION ExchangeSpec
CONSTRAINT MCExpiryOrRotation
INVARIANTS
    ExchangeTypeOK
    BufferMessageOpens
    SignatureVerifies
    UnknownSignerIsInvalid
    SignsWithNewestSubkey
    EncryptsToBestSubkey
