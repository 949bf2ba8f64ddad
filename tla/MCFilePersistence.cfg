SPECIFICATION FairSpec
CONSTANTS
  ChannelSize = 2
  MaxEvents = 4
INVARIANTS
  TypeOK
  NothingLostWhileRunning
PROPERTIES
  AcceptedIsWritten
  ImplementsLog
CHECK_DEADLOCK FALSE
