\* The second attempt replaces a first one that is closing.
CONSTANTS
  Conns = {c1, c2}
  NoConn = NoConn
  MaxAttempts = 2
  MaxFrames = 0
  MaxReconnects = 0
SPECIFICATION Spec
INVARIANT CloseEndsSession
