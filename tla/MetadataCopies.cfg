SPECIFICATION Spec
CONSTANTS
    main = main
    backup = backup
    drive = drive
    tg = tg
    Accounts = {main, backup, drive, tg}
    Google = {main, backup}
    Telegram = {tg}
    Sources <- MCSources
    Edits = {e1, e2}
    MaxLosses = 1
    None = None
SYMMETRY Symm
INVARIANTS
    TypeOK
    LocalLeads
    SomeCopyKept
    KeptUnlessHurt
    CopyInv
CHECK_DEADLOCK FALSE
