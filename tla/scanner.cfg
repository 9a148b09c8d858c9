CONSTANTS
  MaxDisturbances = 2
  MaxRequestFrameBytes = 40
  MaxResponseFrameBytes = 42
  MaxRequestDataBytes = 32
SPECIFICATION Spec
INVARIANT OnlyTheAnswerIsAccepted
INVARIANT AnswerIsFound
INVARIANT ScanEnds
CHECK_DEADLOCK FALSE
