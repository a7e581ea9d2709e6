SPECIFICATION HFairSpec
CONSTANTS
  n1 = n1
  n2 = n2
  Nodes <- MCNodes
  N_MINI = 2
  CAPACITY = 3
  MAX_IN_FLIGHT = 2
  N_BATCHES = 2
INVARIANT RegistersLoaded
PROPERTIES MiniBatchOrder Completes
CHECK_DEADLOCK FALSE
