SPECIFICATION Spec
CONSTANTS
  MaxTip = 3
  MaxFeeRise = 1
  MaxConstraints = 2
CHECK_DEADLOCK FALSE
INVARIANTS
  LiveTemplatesAreServed
PROPERTIES
  ImplementsStream
  TipIsAnnounced
  ShutdownEnds
