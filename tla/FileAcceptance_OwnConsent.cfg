CONSTANTS
    a1 = a1
    a2 = a2
    Asks = {a1, a2}
    NoAsk = NoAsk
    Others = {}
    OtherAnswers = {}
    MaxDeaths = 0
SPECIFICATION Spec
INVARIANT OwnConsent
SYMMETRY Symmetry
CHECK_DEADLOCK FALSE
