SPECIFICATION ChainSpec
CONSTANTS
  RcTimeout = 1
  NavTimeout = 1
  CalibTimeout = 0
  Cap = 2
  Depth = 2
  MaxDelay = 1
  MaxRuns = 2
INVARIANTS ChainTypeOK WithdrawnMotionEnds ControllerFollowsOperator
