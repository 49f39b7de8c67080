CONSTANTS
    t1 = t1
    t2 = t2
    a1 = a1
    x1 = x1
    None = None
    NumThreads = 2
    Task = {t1, t2}
    Adder = {a1}
    Waiter = {x1}
    MayDeinit = FALSE
SPECIFICATION FairSpec
CHECK_DEADLOCK FALSE
PROPERTIES
    WaitReturns
