SPECIFICATION Spec
CONSTANTS
  p1 = p1
  p2 = p2
  b4 = b4
  playerA = playerA
  playerB = playerB
  j1 = j1
  j2 = j2
  Patterns <- MCPatterns
  Button <- MCButton
  Song <- MCSong
  Steams <- MCSteams
  UnknownSteam = unknown
  Rates <- MCRates
  Jobs <- MCJobs
  MaxClock = 2
  None = None
SYMMETRY Interchangeable
INVARIANT SyncLeavesNothing

