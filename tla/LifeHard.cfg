SPECIFICATION Spec
CONSTANTS
    Google = {g1, g2}
    Microsoft = {m1, m2}
    Telegram = {t1}
    MaxMoves = 1
    MaxFaults = 1
INVARIANTS
    HardDeletionCompletes
CHECK_DEADLOCK FALSE
