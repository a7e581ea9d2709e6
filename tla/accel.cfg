SPECIFICATION SSpec
CONSTANTS
  Keys <- MCKeys
  AllKeys <- MCAllKeys
  Freqs <- MCFreqs
  U16 = 4
  N_REGS = 2
  N_SW_LOCKS = 2
  SLOTS_PER_SCHED_BLOCK = 2
  NO_LOCK = 255
  NO_KEY = 999
  Blocks <- MCBlocks
  NO_BLOCK = 99
  N_OPS = 3
  Builds <- MCBuilds
  Traces <- MCTraces
  LaterTraces <- MCLaterTraces
  MAX_OPS_PASS2_ACCEL = 1
  INVALID = INVALID
  num_nodes = 3
  REMOTE_FRAC = 50
  partition_size = 3
  num_txn_workers = 2
  num_txns = 5
  RemoteCounts = {0, 2}
  batch_tgt = 3
INVARIANTS   NoOpLost OncePerPass EvenShares SlotPerNode
