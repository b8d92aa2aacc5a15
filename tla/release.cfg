SPECIFICATION Spec
CONSTANTS
  Last = 2
  Services = {knowledge, ingestion}
  Sessions = {a, b}
  MaxCommands = 2
  None = None
INVARIANTS TypeOK LeftoverHarmless
PROPERTIES CurrentStays VerdictHolds
SYMMETRY Symmetry
CHECK_DEADLOCK FALSE
