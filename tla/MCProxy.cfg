\* Two runs and three clients: leftovers of the first run meet clients of the second.
CONSTANTS
  Conns = {c1, c2, c3}
  Targets = {t1}
  NoTarget = NoTarget
  MaxRuns = 2
SYMMETRY Symmetry
SPECIFICATION Spec
INVARIANTS
  TypeOK
  StatusMatchesListener
  RegistryCountsOpenSessions
  ActiveCountBounds
\* The bounded runs and clients get used up.
CHECK_DEADLOCK FALSE
