CONSTANTS
    Nil = Nil
    Inputs <- MCInputs
    Reads <- MCReads
SPECIFICATION Spec
INVARIANTS
    PodsFindTheirFiles
    OneReconcilerPerObject
    ScriptRunsOnce
    StopOnlyScales
    
    GroupOverRole
    SettingsFromOneEntry
    BuildsAllOrExplained
CHECK_DEADLOCK FALSE
