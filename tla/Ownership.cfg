SPECIFICATION Spec
CONSTANTS
    main = main
    b1 = b1
    b2 = b2
    b3 = b3
    large = large
    small = small
    i1 = i1
    i2 = i2
    i3 = i3
    Main = main
    Backups = {b1, b2, b3}
    Files = {large, small}
    Ids = {i1, i2, i3, i4}
    None = None
    Size <- MCSize
    Total <- MCTotal
    Starts <- MCStarts
    MaxFaults = 2
INVARIANTS
    TypeOK
    CopyKept
    CheckpointTrue
    NeverOverfilled
    FreesWhatFits
    BalanceSettles
    RowsFollow
