SPECIFICATION RecoverySpec
CONSTANTS
  AutoStart = TRUE
  RepeatLaps = TRUE
  InitialAge = 0
  Ttl = 2
  Lead = 1
  Budget = 0
  StopHold = 1
  AutoTimeout = 1
  MaxSpeed = 1
  MinDrive = 1
  MaxEpoch = 2
  MaxGeneration = 1
  MaxStart = 1
  None = None
INVARIANT AutoStartWaits
PROPERTIES FatalFaultsDoNotRestart RecoveryEnds AutoStartResolved
