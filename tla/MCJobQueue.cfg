CONSTANTS
  c1 = c1
  c2 = c2
  None = None
  NWorkers = 2
  Callers <- TwoCallers
  MaxJobs = 2
  Sizes = {2}
  Masks <- SomeMasks
  MaxUpsets = 1
SPECIFICATION Spec
SYMMETRY Symmetry
INVARIANTS BlocksLive TasksOnce CountsExact NoLostWake NobodyStuck
CHECK_DEADLOCK FALSE
