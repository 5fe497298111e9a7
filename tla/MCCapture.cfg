\* Batches of two, a limit of one or two, and more sessions than the list holds.
CONSTANTS
  Sessions = {s1, s2, s3}
  Times = {1, 2}
  PacketBatchMax = 2
  StatsBatchMax = 3
  Limits = {1, 2}
  SessionCap = 2
  AllSessions = AllSessions
  MaxPackets = 3
SYMMETRY Symmetry
SPECIFICATION Spec
INVARIANTS
  TimelineOrderedAndBounded
  BatchesAreScheduled
  EachPacketOnceUntilCleared
  CountersMatchRecorded
PROPERTIES
  RetentionDropsOldest
