\* One client, up to two jobs of at most two positions.
SPECIFICATION Spec
CONSTANTS
  None = None
  Client = {c1}
  Tx = {t1, t2}
  MaxTokens = 1
  MaxJobs = 2
  MaxTxs = 2
INVARIANTS
  TypeOK
  AcknowledgedIsComplete
  BlocksWereAcknowledged
CHECK_DEADLOCK FALSE
