SPECIFICATION FairSpec
CONSTANTS
  AutoStart = FALSE
  RepeatLaps = TRUE
  InitialAge = 0
  Ttl = 1
  Lead = 0
  Budget = 0
  StopHold = 1
  AutoTimeout = 1
  MaxSpeed = 1
  MinDrive = 1
  MaxEpoch = 1
  MaxGeneration = 2
  MaxStart = 2
  None = None
PROPERTIES StopCompletes PendingConsumed
