CONSTANTS
    n1 = n1
    n2 = n2
    n3 = n3
    None = None
    Server = {n1, n2, n3}
    Voters = {n1, n2, n3}
    Ids = {1}
    Ordered = TRUE
    Unstable = {n1, n2}
    Electing = {n1, n2}
    MaxTerm = 3
    MaxLog = 1
    MaxInFlight = 1
    MaxBusy = 0
SPECIFICATION Spec
SYMMETRY Symmetry
VIEW NoHistory
CHECK_DEADLOCK FALSE
INVARIANTS
    StateMachineSafety
