CONSTANTS
    Nil = Nil
    Specs <- MasterSpecs
    DepStates <- SecretGiven
    ReadyKinds <- TwoKinds
    MaxEdits = 0
    MaxDeletes = 0
    MaxFaults = 0
SPECIFICATION FairSpec
PROPERTIES
    EveryRoleDeployed
CHECK_DEADLOCK FALSE
