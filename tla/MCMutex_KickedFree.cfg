SPECIFICATION Spec
CONSTANTS
    t1 = t1
    t2 = t2
    Threads <- TwoTasks
    NoThread = NoThread
    Recursive = FALSE
    Ops <- OnlyLock
    MaxDepth = 1
    SysLocks = 1
    Breaks = 0
INVARIANTS NoPhantomHolder
