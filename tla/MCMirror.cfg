SPECIFICATION MirrorSpec
CONSTANTS
  Conns = {c1}
  Targets = {t}
  NoTarget = NoTarget
  MaxRuns = 2
  MaxPages = 2
  MaxRegs = 2
  MaxMoves = 4
INVARIANT MirrorIsTruthful
CHECK_DEADLOCK FALSE
