SPECIFICATION Spec
CONSTANTS
  s1 = s1
  s2 = s2
  c1 = c1
  c2 = c2
  SelectScenes <- MCSelectScenes
  ResultScenes <- MCResultScenes
  IngameScenes <- MCIngameScenes
  Unknown = "Unknown"
  Songs <- MCSongs
  Charts <- OneChart
  Patterns <- TwoSongs
  NoSong = NoSong
  NoChart = NoChart
  NoRate = NoRate
  NoKey = NoKey
  NoContext = NoContext
  NoEvent = NoEvent
  Rates <- MCRates
  HistorySize = 2
  WindowSize = 1
  MinPlay = 3
SYMMETRY SongSymmetry
INVARIANT TypeOK
INVARIANT RoisFollowScene
INVARIANT ResultOfThisPlay
INVARIANT ResultSeenTwice
INVARIANT SilentAfterIngame
