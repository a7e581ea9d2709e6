CONSTANTS
  n0 = n0  n1 = n1  a = a  b = b  c = c
  Nodes <- MCNodes
  Threads <- MCThreads
  node_id <- MCnode_id
  single <- MCsingle
  Leader <- MCLeader
  MAX_WAITS = 1
  calls <- MCOneBatch
SPECIFICATION NFairSpec
PROPERTY CallsReturn
CHECK_DEADLOCK FALSE
