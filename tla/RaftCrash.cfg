CONSTANTS
    n1 = n1
    n2 = n2
    n3 = n3
    None = None
    Server = {n1, n2, n3}
    Voters = {n1, n2, n3}
    Ids = {1}
    Ordered = TRUE
    Unstable = {n3}
    Electing = {n1, n2}
    MaxTerm = 2
    MaxLog = 1
    MaxInFlight = 1
    MaxBusy = 1
SPECIFICATION Spec
SYMMETRY Symmetry
CHECK_DEADLOCK FALSE
INVARIANTS
    ElectionInv
    LeaderCompleteness
PROPERTIES
    CommittedStable
