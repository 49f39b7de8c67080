CONSTANTS
    t1 = t1
    t2 = t2
    a1 = a1
    a2 = a2
    x1 = x1
    None = None
    NumThreads = 2
    Task = {t1, t2}
    Adder = {a1, a2}
    Waiter = {x1}
    MayDeinit = TRUE
    r1 = r1
    r2 = r2
    r3 = r3
    RwThread = {r1, r2, r3}
    c1 = c1
    c2 = c2
    Client = {c1, c2}
    Fd = {8, 10, 11}
    NumWorkers = 2
    EfdOf <- SetNumbers
    IoResult <- GoOnOrClose
    MaxStops = 1
SPECIFICATION ThreadsSpec
CHECK_DEADLOCK FALSE
INVARIANTS
    NotStranded
    TaskOnce
    WaitMeansDone
    RwExclusion
    WordIsState
    IoForOwner
    OpenIsWatched
PROPERTIES
    TasksDone
    SomeoneGetsIt
    DataIsRead
