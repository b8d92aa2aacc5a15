SPECIFICATION Spec
CONSTANTS
  Workers = {w1, w2}
  Jobs = {1, 2}
  Ttls = {1, 3}
  LeaseTime = 1
  FaultKinds = {"crash", "torn", "execute", "ingest"}
  SerialBroker = TRUE
  MaxTime = 3
  MaxFaults = 1
INVARIANTS TypeOK SingleUseLease IngestedIsRecorded LeaseAccounted
PROPERTIES UnlinkedAfterRecorded JobContract
