SPECIFICATION MCSpec
CONSTANTS
  Events = {e1, e2}
  MaxRegs = 3
  Steps = 2
  MaxDemos = 3
  Count = 3
  MaxRuns = 3
  MaxSends = 6
  MaxEpochs = 2
  Packets = {p1, p2}
  Urls = {u1, u2}
  Model = model
  Nothing = Nothing
  MaxRequests = 2
  MaxMounts = 3
  Rules = {"valid", "invalid"}
  Times = {0, 1}
  Limits = {1, 3}
  MaxCaptured = 2
  MaxPackets = 4
  MaxSessions = 2
  MaxFiles = 1
  MaxRunning = 1
INVARIANTS
  ListenersMatchMount
  DemosExclude
  SequencesAreCancellable
  PanelShowsTheLastAction
  FilesAreSafe
PROPERTIES
  MountedEndsUpListening
  TimersRunOut
  LoadRestoresTranscript
CHECK_DEADLOCK FALSE
