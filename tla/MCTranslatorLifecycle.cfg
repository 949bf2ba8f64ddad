SPECIFICATION FairSpec
CONSTANTS
  None = None
  Miner = {m1, m2}
  MaxInputs = 2
  Upstreams = 2
INVARIANTS
  FallbackLeavesNothing
PROPERTIES
  FallbackCompletes
  LossIsHandled
  ShutdownReachesComponents
CHECK_DEADLOCK FALSE
