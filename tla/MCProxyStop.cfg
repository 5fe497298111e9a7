\* One run and one client are enough for a loop that is never signalled.
CONSTANTS
  Conns = {c1}
  Targets = {t1}
  NoTarget = NoTarget
  MaxRuns = 1
SPECIFICATION Spec
INVARIANT StopSignalsEveryLoop
CHECK_DEADLOCK FALSE
