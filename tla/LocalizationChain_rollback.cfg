SPECIFICATION FairSpec
CONSTANTS
  MaxEpoch = 1
  RecoveryCommits = 2
  History = 2
  Depth = 1
  MaxEvents = 1
  MaxSequence = 1
  MaxFaults = 2
PROPERTY ClockResetRecovers
