SPECIFICATION FairSpec
CONSTANTS
  a = a
  b = b
  x = x
  c1 = c1
  c2 = c2
  Clients <- MCClients
  Scenes <- MCScenes
  Songs <- MCSongs
  NoScene = NoScene
  NoSong = NoSong
  MaxPublished = 2
  HubCapacity = 1
  ClientCapacity = 1
  MaxClients = 1
CHECK_DEADLOCK FALSE
INVARIANT TypeOK
INVARIANT QuietClientIsCurrent
PROPERTY ImplementsStream
PROPERTY ShutdownEndsWriters
