SPECIFICATION FairSpec
CONSTANTS
  w1 = w1
  w2 = w2
  w3 = w3
  small = 1
  large = 2
  None = None
  Platforms <- MCPlatforms
  Windows <- MCWindows
  Unsupported <- MCUnsupported
  Sizes <- MCSizes
  MaxServer = 2
INVARIANT TypeOK
INVARIANT ShownStateIsLive
INVARIANT HistoryOfOneTarget
INVARIANT ShownTargetIsCurrent
PROPERTY StopsOnlyForGood
PROPERTY Recovers
