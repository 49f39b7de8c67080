CONSTANTS
    n1 = n1
    n2 = n2
    n3 = n3
    None = None
    Server = {n1, n2, n3}
    Voters = {n1, n2, n3}
    Ids = {1}
    Ordered = FALSE
    Unstable = {}
    Electing = {n1, n2}
    MaxTerm = 2
    MaxLog = 0
    MaxInFlight = 2
    MaxBusy = 0
SPECIFICATION Spec
SYMMETRY Symmetry
CHECK_DEADLOCK FALSE
INVARIANTS
    ElectionSafety
    OneVotePerTerm
