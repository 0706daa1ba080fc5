CONSTANTS
    t1 = t1
    t2 = t2
    t3 = t3
    u1 = u1
    u2 = u2
    s1 = s1
    s2 = s2
    s3 = s3
    s4 = s4
    arg1 = arg1
    arg2 = arg2
    arg3 = arg3
    kernel = kernel
    math = math
    Garbage = Garbage
    Threads <- ThreeThreads
    Names <- FourNames
    Size = 1
    LocaleSize = 5
    MaxNumber = 6
    Hashes <- Affine
    Callers <- TwoThreads
    Strings <- ThreeStrings
    LibraryOf <- Libraries
    NoString = NoString
    CallSizes <- OneOfEach
    NLIBS = 1
    LibSlots = 4
    MemoryFails = TRUE
    MaxCalls = 5
    Arguments <- ThreeArguments
    Rows = 1
    Slots = 3
    Range32 = 8
    Functions32 <- Ends
    MaxResults = 5
SYMMETRY Symmetry
SPECIFICATION TablesSpec
CHECK_DEADLOCK FALSE
INVARIANTS OwnsOldTable
