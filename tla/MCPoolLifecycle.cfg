SPECIFICATION FairSpec
CONSTANTS
  None = None
  Downstream = {1}
  NotifyCapacity = 1
  MaxFrames = 2
  Earlier = 1
INVARIANTS
  OneNoticePerConnection
  LiveSessionIsKnown
  LossIsReported
PROPERTIES
  ConnectionRemoved
  IoTasksEnd
  ComponentLossStopsPool
  ShutdownCompletes
CHECK_DEADLOCK FALSE
