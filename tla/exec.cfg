CONSTANTS
  n0 = n0 n1 = n1 a = a a2 = a2 b = b x = x y = y z = z
  t1 = t1 t2 = t2 t3 = t3 t4 = t4 t5 = t5
  USE_FLOW_ORDER = TRUE
  Nodes <- MCNodes
  Node0 = n0
  Workers = {a, a2, b}
  node_id <- MCnode_id
  Leader <- MCLeader
  my_txns <- MCmy_txns
  Keys = {x, y, z}
  target <- MCtarget
  Txns = {t1, t2, t3, t4, t5}
  NoTxn = NoTxn
  cold_ops <- MixedOps
  hot_ops <- OneHot
  accel0 <- SomeAccel
  N_QUEUES = 2
  Sched <- TwoBatches
  N_OPS = 3
  N_MINI = 2
  MINI_TGT = 1
  MAX_TIMES_ACCEL_ABORT = 1
  DROP_DIV = 2
SPECIFICATION FairSpec
INVARIANTS LockInv CopyFresh MbInOrder PutsCounted AnswerAwaited WritesDisjoint SlotOrder ExactlyOnce
PROPERTY Terminates
