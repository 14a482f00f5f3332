CONSTANTS
    Nil = Nil
    Inputs <- MCInputs
    World <- MCWorld
    Tries = 2
    Backoff = 2
    MaxOutages = 2
SPECIFICATION Spec
INVARIANTS
    TypeOK
    GivesUpForAReason
PROPERTIES
    EverythingRuns
CHECK_DEADLOCK FALSE
