CONSTANTS
    console = console
    worker = worker
    g = g
    h = h
    z = z
    Console = console
    Worker = worker
    Mortal <- Two
    Z = z
    Null = Null
    PathOf <- Path
    Depth = 1
SPECIFICATION Spec
INVARIANTS CountExact AliveWhileRunning DeletedGoes UseExact
CONSTRAINT Bounded
