SPECIFICATION Spec
CONSTANTS
    Capacity = 7
    Rate = 2
    Unit = 3
    Window = 3
    Limit = 3
    MaxTime = 8
INVARIANTS
    TypeOK
    FieldsMatchHistory
    AtMostTwoWindows
    RefusalIsEarned
PROPERTIES
    ExactlyTheBurstLaw
    ExactlyTheWindowLaw
