SPECIFICATION Spec
CONSTANTS
    Google = {g1, g2}
    Microsoft = {m1, m2}
    Telegram = {t1}
    MaxMoves = 2
    MaxFaults = 1
PROPERTIES
    OnlyHardDeletionDestroys
CHECK_DEADLOCK FALSE
