SPECIFICATION Spec
CONSTANTS
    Procs = {p1, p2}
    MaxRuns = 2
    MaxChanges = 2
    Keep = 1
SYMMETRY Symm
CONSTRAINT OneRunAndChanges
INVARIANTS
    TypeOK
    CheckpointSound
    RunCovers
PROPERTIES
    Implements
CHECK_DEADLOCK FALSE
