CONSTANTS
    m = m
    w1 = w1
    w2 = w2
    k1 = k1
    k2 = k2
    k3 = k3
    k4 = k4
    Nil = Nil
    Foreign = Foreign
    Workers <- TwoWorkers
    Master = m
    Blocks <- FourBlocks
    Origin <- Owners
    Starter <- Starters
    Reuses = 1
    OLIM = 2
    GCLIM = 2
SYMMETRY Symmetry
SPECIFICATION Spec
INVARIANTS OnePlace SizeExact 
