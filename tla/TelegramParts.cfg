SPECIFICATION FairSpec
CONSTANTS
    MaxPart = 2
    Sizes = {2, 3, 6}
    MaxMessages = 16
    MaxTries = 2
    MaxChanges = 2
    MaxFaults = 3
INVARIANTS
    TypeOK
    CalmMirrors
    LacksOnlyIfCut
    RepeatsOnlyIfAgain
    HiddenStays
PROPERTIES
    Present
CHECK_DEADLOCK FALSE
