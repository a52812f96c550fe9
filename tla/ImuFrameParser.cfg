SPECIFICATION Spec
CONSTANTS
  Byte <- MCByte
  ChecksumModulus = 16
  HEAD_0 = 6
  HEAD_1 = 11
  FUNC_RAW_ACCEL = 0
  FUNC_EULER = 5
  MAX_FRAME_LEN = 7
  AccelDataLen = 1
  EulerDataLen = 2
  MaxStream = 10
ACTION_CONSTRAINT Focus
INVARIANTS
  TypeOK
  FrameIsStreamSuffix
  MatchesReference
PROPERTIES
  PublishesOnlyValidFrames
CHECK_DEADLOCK FALSE
