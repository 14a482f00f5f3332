CONSTANTS
    Nil = Nil
    Specs <- DeleteSpecs
    DepStates <- SecretGiven
    ReadyKinds <- TwoKinds
    MaxEdits = 0
    MaxDeletes = 1
    MaxFaults = 1
SPECIFICATION FairSpec
PROPERTIES
    DeletedIsGone
CHECK_DEADLOCK FALSE
