CONSTANTS
    n1 = n1
    n2 = n2
    None = None
    Server = {n1, n2}
    Voters = {n1, n2}
    Ids = {1}
    Ordered = TRUE
    Unstable = {}
    Electing = {n1, n2}
    MaxTerm = 2
    MaxLog = 1
    MaxInFlight = 1
    MaxBusy = 1
SPECIFICATION Spec
CHECK_DEADLOCK FALSE
PROPERTIES
    ResponseDeposesLeader
