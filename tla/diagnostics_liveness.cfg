SPECIFICATION FairSpec
CONSTANTS
  Workers = {w1, w2}
  Jobs = {1, 2}
  Ttls = {1}
  LeaseTime = 3
  FaultKinds = {"crash", "execute", "ingest"}
  SerialBroker = TRUE
  MaxTime = 1
  MaxFaults = 1
PROPERTIES SpoolDrains PendingIsServed
