CONSTANTS
    old = old
    new = new
    Phones = {old, new}
    NoAnswer = NoAnswer
    MaxProcesses = 4
    MaxRestores = 2
SPECIFICATION Spec
INVARIANTS
    TypeOK
    ModelIsOwn
PROPERTY FoundIsForGood
CHECK_DEADLOCK FALSE
