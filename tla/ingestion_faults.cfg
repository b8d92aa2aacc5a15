SPECIFICATION Spec
CONSTANTS
  Jobs = {1, 2}
  Malformed = {2}
  MaxAttempts = 2
  FaultKinds = {"crash", "disk"}
  MaxFaults = 3
  MaxRetries = 1
INVARIANTS TypeOK NothingLost AttemptBudget
PROPERTIES IntakeContract
