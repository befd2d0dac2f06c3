SPECIFICATION Spec
CONSTANTS
  AutoStart = FALSE
  RepeatLaps = FALSE
  InitialAge = 0
  Ttl = 2
  Lead = 1
  Budget = 0
  StopHold = 1
  AutoTimeout = 1
  MaxSpeed = 2
  MinDrive = 2
  MaxEpoch = 2
  MaxGeneration = 2
  MaxStart = 3
  None = None
INVARIANTS TypeOK PhaseAgrees PendingOwned ActiveOwned AuthorityHeld PlansOfThisEpoch
PROPERTIES MotionAuthorized ImplementsAuthority PlannedAcceleration
