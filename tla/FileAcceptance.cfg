CONSTANTS
    a1 = a1
    a2 = a2
    Asks = {a1, a2}
    NoAsk = NoAsk
    o1 = o1
    Others = {o1}
    OtherAnswers <- AcceptOfTheFirstId
    MaxDeaths = 1
SPECIFICATION FairSpec
INVARIANTS
    WaitingAskIsRegistered
    RefusedAskIsWithdrawn
    OneAcceptPerTransfer
PROPERTIES
    ResultIsTheAnswer
    ImplementsConsent
CHECK_DEADLOCK FALSE
