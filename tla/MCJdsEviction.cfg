\* Two clients that declare the same transaction.
SPECIFICATION Spec
CONSTANTS
  None = None
  Client = {c1, c2}
  Tx = {t1}
  MaxTokens = 1
  MaxJobs = 2
  MaxTxs = 1
INVARIANT
  JobStaysKnown
CHECK_DEADLOCK FALSE
