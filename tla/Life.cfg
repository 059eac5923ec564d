SPECIFICATION Spec
CONSTANTS
    Google = {g1, g2}
    Microsoft = {m1, m2}
    Telegram = {t1, t2, t3}
    MaxMoves = 2
    MaxFaults = 2
SYMMETRY Symm
INVARIANTS
    TypeOK
    Mirrored
PROPERTIES
    NothingRemovedUnasked
    DestroyedAsSeen
    Idempotent
CHECK_DEADLOCK FALSE
