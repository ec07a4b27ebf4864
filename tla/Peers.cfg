CONSTANTS
    a = a
    b = b
    c = c
    Devices = {a, b, c}
    Transfers <- MCTransfers
    OtherAnswers <- MCOtherAnswers
    NoTransfer = NoTransfer
SPECIFICATION FairSpec
INVARIANTS
    TypeOK
    NoCircle
    RefusedAskIsCleared
PROPERTIES
    EverySendEnds
    RefusedAskGoes
    ImplementsConsent
CHECK_DEADLOCK FALSE
