CONSTANTS
    Nil = Nil
    Inputs <- MySqlInputs
    World <- MCWorld
    Tries = 3
    Backoff = 2
    MaxOutages = 0
SPECIFICATION Spec
PROPERTY SchemaCreated
CHECK_DEADLOCK FALSE
