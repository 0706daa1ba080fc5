SYMMETRY Symmetry
CONSTRAINT Bounded
SPECIFICATION Spec
CONSTANTS
    A = A
    B = B
    AnyPool = AnyPool
    Pools <- TwoPools
    MaxWorkers = 3
    MaxInPool = 2
    WorkersCall = TRUE
    CreateFails = TRUE
    Masks = {{2}}
    MaxJobs = 2
    MaxCalls = 1
    MaxLeaving = 1
INVARIANTS CountIsTrue JobsAreServed
PROPERTY SlotIsOwned
