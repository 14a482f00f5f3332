CONSTANTS
    Nil = Nil
    Specs <- EditSpecs
    DepStates <- SecretOrNot
    ReadyKinds <- TwoKinds
    MaxEdits = 1
    MaxDeletes = 0
    MaxFaults = 0
SPECIFICATION Spec
INVARIANTS
    TypeOK
    ReferencesExist
    SchemaFirst
    
PROPERTY
    ImplementsRollout
CHECK_DEADLOCK FALSE
