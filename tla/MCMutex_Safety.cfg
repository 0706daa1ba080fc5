SPECIFICATION Spec
CONSTANTS
    t1 = t1
    t2 = t2
    Threads <- TwoTasks
    NoThread = NoThread
    Recursive = TRUE
    Ops <- OpNames
    MaxDepth = 2
    SysLocks = 2
    Breaks = 1
SYMMETRY Symmetry
INVARIANTS MutualExclusion OwnerExact NoStaleWake
