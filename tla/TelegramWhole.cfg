SPECIFICATION Spec
CONSTANTS
    MaxPart = 2
    Sizes = {2, 3}
    MaxMessages = 6
    MaxTries = 2
    MaxChanges = 0
    MaxFaults = 1
INVARIANTS
    ActiveIsWhole
CHECK_DEADLOCK FALSE
