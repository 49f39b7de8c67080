CONSTANTS
    n1 = n1
    n2 = n2
    n3 = n3
    None = None
    Server = {n1, n2, n3}
    Voters = {n1, n2, n3}
    Ids = {0, 1}
    Ordered = TRUE
    Unstable = {}
    Electing = {n1, n2}
    MaxTerm = 3
    MaxLog = 3
    MaxInFlight = 2
    MaxBusy = 0
SPECIFICATION Spec
SYMMETRY Symmetry
VIEW Exchange
CHECK_DEADLOCK FALSE
INVARIANTS
    TypeOK
    LogMatching
    CommittedOnMajority
    MatchIsReplicated
    AssertionsHold
