CONSTANTS
    Nil = Nil
    MaxCrashes = 3
SPECIFICATION Spec
INVARIANT
    ShutdownFileIsTrue
PROPERTIES
    EndsGracefully
    KeepsServing
CHECK_DEADLOCK FALSE
