SPECIFICATION AccelerationSpec
CONSTANTS
  MaxTime = 4
  History = 2
  Cap = 3
  MaxLog = 5
INVARIANTS AccelerationTypeOK CheckpointsReplay InitializedByBoth
PROPERTIES ImplementsLog
