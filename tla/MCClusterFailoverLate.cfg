CONSTANTS
    Nodes = {1, 2, 3, 4, 5}
    None = None
    Slots = {1, 2, 3}
    InitSlaveof <- MCSlaveof
    InitOwner <- MCOwner
    InitEpoch <- MCEpoch
    Suspects = {1}
    Scenarios <- MCScenarios
SPECIFICATION Spec
INVARIANT OneWinnerPerEpoch
CHECK_DEADLOCK FALSE
