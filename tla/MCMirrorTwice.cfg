SPECIFICATION MirrorSpec
CONSTANTS
  Conns = {c1}
  Targets = {t}
  NoTarget = NoTarget
  MaxRuns = 1
  MaxPages = 1
  MaxRegs = 2
  MaxMoves = 4
INVARIANT CountedOnce
CHECK_DEADLOCK FALSE
