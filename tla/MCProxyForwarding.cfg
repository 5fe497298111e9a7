\* Two frames a direction: one delivered, one in flight when the connection ends.
CONSTANTS
  Frames = {f1, f2}
  MaxFrames = 2
SPECIFICATION FairSpec
INVARIANTS
  CaptureIsTranscript
  CloseIsFinal
PROPERTIES
  ShutdownEndsForwarding
\* A connection that has ended takes no further step.
CHECK_DEADLOCK FALSE
