CONSTANTS
    n1 = n1
    n2 = n2
    None = None
    Server = {n1, n2}
    Voters = {n1, n2}
    Ids = {1}
    Ordered = FALSE
    Unstable = {}
    Electing = {n1}
    MaxTerm = 1
    MaxLog = 3
    MaxInFlight = 2
    MaxBusy = 2
SPECIFICATION Spec
CHECK_DEADLOCK FALSE
INVARIANTS
    AssertionsHold
