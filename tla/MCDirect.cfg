\* Two endpoints; an attempt, its successor, and one reconnect waiting between them.
CONSTANTS
  Conns = {c1, c2}
  NoConn = NoConn
  MaxAttempts = 2
  MaxFrames = 1
  MaxReconnects = 1
SPECIFICATION FairSpec
INVARIANTS
  TypeOK
  LiveSocketIsCurrent
  ConnectedMeansOpened
  SessionsEndUnlessReplaced
  ListedStatusIsBacked
PROPERTIES
  NoPacketAfterTheEnd
  EverySessionDecided
