CONSTANTS
    t1 = t1
    t2 = t2
    t3 = t3
    t4 = t4
    Threads <- FourThreads
    Nobody = Nobody
    NoThread = NoThread
SPECIFICATION LocksSpec
INVARIANTS WordExact WriterAlone NoLostWake
PROPERTIES ReadersAndWriter SomebodyGetsIn SomebodyGetsIt
