CONSTANTS
    MaxThreads = 3
    AtStart = 2
    Priorities <- TwoPriorities
SPECIFICATION FairSpec
INVARIANTS BarrierExact
PROPERTIES RunningFrozen StopsTheWorld LockEnds TopIsServed
