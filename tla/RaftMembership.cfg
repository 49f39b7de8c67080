CONSTANTS
    Me = 1
    Peer = {2, 3}
    FirstNodes = {1, 2}
    Change <- Join
    MaxTerms = 2
    MaxEntries = 3
SPECIFICATION MemberSpec
CHECK_DEADLOCK FALSE
INVARIANTS
    OneVotingChange
