SPECIFICATION AlgorithmsSpec
CONSTANTS
    MaxLen = 5
    Values = {1, 2, 3, 4}
    MaxSize = 4
    Weights = {1, 2, 3}
    Worths = {1, 3}
    Numbers <- SignedNumbers
    Letters = {"a", "b"}
INVARIANTS
    ArraysAreRight
    TablesAreRight
PROPERTIES
    Ends
