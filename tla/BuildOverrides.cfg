CONSTANTS
    Nil = Nil
    Inputs <- OverrideInputs
    Reads <- MCReads
SPECIFICATION Spec
INVARIANT CrOverridesDefault
CHECK_DEADLOCK FALSE
