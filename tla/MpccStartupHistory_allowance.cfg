SPECIFICATION HistorySpec
CONSTANTS
  AutoStart = TRUE
  RepeatLaps = TRUE
  InitialAge = 0
  Ttl = 1
  Lead = 0
  Budget = 0
  StopHold = 1
  AutoTimeout = 1
  MaxSpeed = 1
  MinDrive = 1
  MaxEpoch = 2
  MaxGeneration = 2
  MaxStart = 2
  None = None
PROPERTY TrustedSnapshotEndsAllowance
