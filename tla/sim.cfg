CONSTANTS
  k1 = k1
  k2 = k2
  k3 = k3
  k4 = k4
  k5 = k5
  Keys <- MCKeys
  YcsbTraces <- MCYcsbTraces
  SynDraws <- MCSynDraws
  Orders <- MCOrders
  SYN_OPS = 2
  Impls = {"naive_spray", "freq_heuristic", "better_random", "even_better_random", "random_spray"}
  Builds = {"whole_pipe", "granular_OPT", "granular_real"}
  N_STAGES = 2
  REGS_PER_STAGE = 1
  N_LOCKS = 2
  PASS2_ACCEL_THR = 2
  N_MAX_HOT_OPS = 5
  HOT_PERCENT = 80
  N_PORT_GROUPS = 2
  PORTS_PER_GROUP = 1
  IPB_SIZE = 2
  MAX_FAIL_CT = 2
  N_SLOTS = 4
  BACKOFF = 1
SPECIFICATION Spec
INVARIANTS LayoutSound Serializable OnePlace LocksOwned AllOrNothing
PROPERTY Delivered
