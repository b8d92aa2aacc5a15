SPECIFICATION Spec
CONSTANTS
  Workers = {w1, w2}
  Jobs = {1}
  Ttls = {2}
  LeaseTime = 2
  FaultKinds = {}
  SerialBroker = FALSE
  MaxTime = 2
  MaxFaults = 0
INVARIANTS SingleUseLease
