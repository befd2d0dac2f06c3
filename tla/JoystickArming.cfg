SPECIFICATION FairHistorySpec
CONSTANTS
  RcTimeout = 1
  NavTimeout = 1
  CalibTimeout = 1
  Cap = 2
INVARIANTS TypeOK AutonomyForwardsSpeed CalibrationOfThisArming
PROPERTIES MotionEndsWithoutRc
