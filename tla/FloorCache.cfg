SPECIFICATION FloorSpec
CONSTANTS
  player = player
  unknown = unknown
  p1 = p1
  p2 = p2
  Patterns <- MCPatterns
  Steams <- MCSteams
  UnknownSteam = unknown
  Rates <- MCRates
  Button <- MCButton
  Played <- MCPlayed
  Fetched <- MCFetched
  NoRecord = NoRecord
  Bucket <- MCBucket
INVARIANT FloorTypeOK
INVARIANT StaleIsFlagged
