SPECIFICATION Spec
CONSTANTS
  AutoStart = FALSE
  RepeatLaps = TRUE
  InitialAge = 0
  Ttl = 2
  Lead = 1
  Budget = 1
  StopHold = 1
  AutoTimeout = 1
  MaxSpeed = 2
  MinDrive = 1
  MaxEpoch = 1
  MaxGeneration = 1
  MaxStart = 1
  None = None
PROPERTY RecoveryNeedsAuthorization
