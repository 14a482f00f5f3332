CONSTANTS
    Nil = Nil
    Specs <- FaultSpecs
    DepStates <- SecretGiven
    ReadyKinds <- TwoKinds
    MaxEdits = 1
    MaxDeletes = 0
    MaxFaults = 1
SPECIFICATION Spec
INVARIANTS
    Inv
    RestMatches
    RestReady
CHECK_DEADLOCK FALSE
