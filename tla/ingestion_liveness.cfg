SPECIFICATION ServiceSpec
CONSTANTS
  Jobs = {1, 2, 3, 4, 5}
  Malformed = {4, 5}
  MaxAttempts = 2
  FaultKinds = {"crash", "disk"}
  MaxFaults = 1
  MaxRetries = 1
  Paths = {1, 2}
  Contents = {"half", "whole"}
  Reads <- MCReads
  MaxWrites = 2
PROPERTIES DeliveredIsSettled
CHECK_DEADLOCK FALSE
