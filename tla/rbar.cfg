CONSTANTS
  n0 = n0  n1 = n1  w1 = w1  w2 = w2  w3 = w3  x1 = x1  x2 = x2
  Nodes <- MCNodes
  Threads <- MCThreads
  node_id <- MCnode_id
  single <- MCsingle
  MAX_WAITS = 2
SPECIFICATION FairSpec
INVARIANTS MiddleAlone MiddlePerWait
PROPERTIES BarrierSpec AllReturn
CHECK_DEADLOCK FALSE
