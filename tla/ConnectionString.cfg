CONSTANTS
    Nil = Nil
    Types <- MCTypes
    Hosts <- MCHosts
    DbNames <- MCDbNames
    Queries <- MCQueries
SPECIFICATION Spec
INVARIANTS
    RoundTrip
    SameHost
    QueryCredentials
CHECK_DEADLOCK FALSE
