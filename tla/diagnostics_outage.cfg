SPECIFICATION FairSpec
CONSTANTS
  Workers = {w1}
  Jobs = {1, 2}
  Ttls = {2}
  LeaseTime = 1
  FaultKinds = {"crash"}
  SerialBroker = TRUE
  MaxTime = 2
  MaxFaults = 1
PROPERTIES SpoolDrains
