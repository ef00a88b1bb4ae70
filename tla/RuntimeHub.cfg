SPECIFICATION Spec
CONSTANTS
  player = player
  unknown = unknown
  p1 = p1
  p2 = p2
  Patterns <- MCPatterns
  Steams <- MCSteams
  UnknownSteam = unknown
  Rates <- MCRates
  Button <- MCButton
  Played <- MCPlayed
  Fetched <- MCFetched
  NoRecord = NoRecord
  NoSnapshot = NoSnapshot
  NoPattern = NoPattern
INVARIANT TypeOK
PROPERTY ResultKeepsBest
PROPERTY PbAgainstEntry
