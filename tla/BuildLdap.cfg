CONSTANTS
    Nil = Nil
    Inputs <- LdapInputs
    Reads <- MCReads
SPECIFICATION Spec
INVARIANT LdapOnlyInserts
CHECK_DEADLOCK FALSE
