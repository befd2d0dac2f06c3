SPECIFICATION Spec
CONSTANTS
  Stages = 2
  SettleTime = 1
  HoldTime = 1
  StageTimeout = 4
  MinSamples = 2
  StopTime = 1
  StopTimeout = 3
  Freshness = 1
  DriverFresh = 2
  DriverTimeout = 1
INVARIANTS TypeOK CourseInOrder
PROPERTIES MotionVerified SessionEnds
