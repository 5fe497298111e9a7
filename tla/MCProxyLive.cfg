\* Liveness and refinement: one client lives through either of two runs, or through both.
CONSTANTS
  Conns = {c1}
  Targets = {t1}
  NoTarget = NoTarget
  MaxRuns = 2
SPECIFICATION PeersSpec
PROPERTIES
  StoppedListenerEnds
  SignalledLoopEnds
  ImplementsLifecycle
CHECK_DEADLOCK FALSE
