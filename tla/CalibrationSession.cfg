SPECIFICATION SessionSpec
CONSTANTS
  Capacity = 2
  MaxTrials = 2
INVARIANTS SessionTypeOK EvidenceComplete
PROPERTIES FailureBecomesDurable UncertainStartUndone AcceptedIsWhole
CHECK_DEADLOCK FALSE
