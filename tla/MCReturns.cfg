SPECIFICATION ReturnsSpec
CONSTANTS
    NReaders = 2
    Setters <- TaskAndUser
    Task = "worker"
    Values = {"v1"}
    Errors <- Fails
    Excuses <- GivesUp
    LocaleMissing = TRUE
    MaxLocks = 1
    A = A
    AnyPool = AnyPool
INVARIANTS NoSleeperLeft WakesInside
PROPERTIES WritesOnce EverybodyReturns CallsReturn
CHECK_DEADLOCK FALSE
