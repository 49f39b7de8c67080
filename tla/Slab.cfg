CONSTANTS
    NPages = 4
    PageShift = 3
    MinShift = 0
    ByteBits = 2
    WordBytes = 2
    Sizes = {1, 2, 3, 8, 16, 24}
    MaxLive = 4
SPECIFICATION SlabSpec
CHECK_DEADLOCK FALSE
INVARIANTS
    AllocDisjoint
    NoMemoryLost
    ListsSound
    StrayFreeIgnored
