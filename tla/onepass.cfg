SPECIFICATION FairSpec
CHECK_DEADLOCK FALSE
CONSTANTS
  Txns <- MCTxns
  N_REGS = 2
  N_RECORDS = 8
  SLOTS_PER_SCHED_BLOCK = 2
  SPAN = 4
  Values <- MCValues
  initial <- MCinitial
  buffer <- MCbuffer
  block_num <- MCblock
  hot_ops_pass1 <- MCops
  NoReply = NoReply
PROPERTIES AtomicSpec Replied
