SPECIFICATION Spec
CONSTANTS
  MaxDownstream = 1
  MaxChannelId = 2
  MaxTemplate = 2
  MaxRequest = 3
  MaxPrefix = 2
  MaxQueue = 2
  MaxReport = 1
  MaxPool = 2
  FullTemplatePools = {1}
  RequireStdJob = {FALSE}
CHECK_DEADLOCK FALSE
INVARIANTS
  ForwardingIsExact
  TipAgreement
  SharesReachThePool
  SoloServes
