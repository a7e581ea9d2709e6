SPECIFICATION FairSpec
CONSTANTS
  n1 = n1
  n2 = n2
  n3 = n3
  ta = ta
  tb = tb
  Nodes <- MCNodes
  Tenants <- MCTenants
  tenant <- MCtenant
  N_BLOCKS = 2
  NO_BLOCK = 99
  START_DELAY = 1
  DURATION = 1
  N_BATCHES = 2
  MAX_TS = 3
INVARIANTS BlockExclusive Framed HandleAsserts
PROPERTY Served
CHECK_DEADLOCK FALSE
