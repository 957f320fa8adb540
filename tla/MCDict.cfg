CONSTANTS
    Keys = {1, 2, 3}
    Hash <- MCHash
    InitialSize = 2
    MinFill = 40
    ForceRatio = 1
    EmptyVisits = 2
    Word = 8
SPECIFICATION Spec
INVARIANTS TypeOK ScanComplete IteratorComplete EveryKeyCanBeDrawn
PROPERTIES IteratorOnce ImplementsKeySet
