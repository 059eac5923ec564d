SPECIFICATION Spec
CONSTANTS
    main = main
    backup = backup
    drive = drive
    tg = tg
    Accounts = {main, tg}
    Google = {main}
    Telegram = {tg}
    Sources <- MCTwo
    Edits = {e1, e2}
    MaxLosses = 0
    None = None
INVARIANTS
    EveryAccountHolds
CHECK_DEADLOCK FALSE
