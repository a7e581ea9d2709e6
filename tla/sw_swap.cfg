CONSTANTS
  p1 = p1  p2 = p2  p3 = p3  p4 = p4  p5 = p5  p6 = p6
  l1 = l1  l2 = l2  l3 = l3
  NoLock = NoLock
  Pkts <- MCPkts
  Locks <- MCLocks
  Cells <- MCCells
  lock_pos <- MClock_pos
  pass1 <- MCpass1
  pass2 <- MCpass2
  locks_check <- MClocks_check
  locks_acquire <- MClocks_acquire
  FAIL_LIMIT = 2
  FAIL_WRAP = 16
SPECIFICATION QueueSpec
PROPERTY Serial
