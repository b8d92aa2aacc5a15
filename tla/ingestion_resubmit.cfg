SPECIFICATION Spec
CONSTANTS
  Jobs = {1}
  Malformed = {}
  MaxAttempts = 2
  FaultKinds = {"crash", "disk"}
  MaxFaults = 2
  MaxRetries = 0
INVARIANTS AcknowledgedIsKnown
