SPECIFICATION HistorySpec
CONSTANTS
  MaxEpoch = 2
  RecoveryCommits = 2
  History = 3
  Depth = 2
  MaxEvents = 4
  MaxSequence = 1
  MaxFaults = 1
INVARIANTS TypeOK QualifiedIsAnchored LeftEpochsStayLeft
PROPERTIES RecoveryNeedsCommits RewindNeedsNewEpoch
