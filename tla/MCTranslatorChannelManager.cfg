SPECIFICATION Spec
CONSTANTS
  None = None
  Miner = {m1, m2}
  MaxOpened = 2
  MaxTip = 2
  MaxEvents = 2
INVARIANTS
  PrefixesDistinct
  SharesInTheirSpace
  JobsOnTheServersTip
  TwinsAgree
CHECK_DEADLOCK FALSE
