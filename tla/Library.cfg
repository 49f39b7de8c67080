CONSTANTS
    Capacity = 3
    DSize = 4
    MaxItems = 9
    Signaller = {sig1, sig2, sig3}
    Waiter = {wait1, wait2, wait3}
    NULL = NULL
    Entry = {1, 2}
    InitialCapacity = 2
    MaxCount = 6
    TreeNode = {1, 2, 3, 4, 5, 6, 7}
    KeyOf <- TwoAlike
    DictKey <- SomeKeys
    DictValue <- SomeValues
    HashOf <- FirstByteModulo2
    DictBucket = {0, 1}
    MaxInserts = 4
    BlockSize = 6
    LengthBytes = 2
    ByteBase = 16
    MaxMessage = 14
    MaxPart = 14
    SourceByte = {0, 3, 64, 128, 255}
    MaxBytes = 5
    TextChar = {66, 47, 61, 200}
    MaxChars = 6
    SectionName <- Names
    KeyName <- Names
    FileForm = {"plain"}
    MaxSteps = 6
    MaxCalls = 2
    Me = 1
    Peer = {2, 3}
    FirstNodes = {1, 2}
    Change <- Requests
    MaxTerms = 2
    MaxEntries = 2
SPECIFICATION Spec
CHECK_DEADLOCK FALSE
INVARIANTS
    PointerValid
    NotSleptOver
    ReadsAgree
    SearchFinds
    RedBlack
    LookupIsNewest
    DigestOfMessage
    EncodedReadsBack
    DecodedFits
    FoundAgain
    DumpReadsBack
PROPERTIES
    RingIsQueue
    ArrayIsSequence
    TreeIsSet
    
