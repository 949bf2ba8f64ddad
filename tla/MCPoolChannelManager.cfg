\* Two connections, two targets; up to two channel ids each: a group and a
\* standard channel, or two extended ones.
SPECIFICATION Spec
CONSTANTS
  Downstream = {d1, d2}
  MaxChannelId = 2
  MaxTemplate = 3
  MaxStandardPrefix = 2
  MaxExtendedPrefix = 2
  Target = {easy, hard}
SYMMETRY ConnectionSymmetry
CHECK_DEADLOCK FALSE
INVARIANTS
  TypeOK
  VardiffMatchesChannels
  TipAgreement
  WorkIsOnTip
  MinerAgreement
  SearchSpacesDisjoint
  ExitsAreExplained
