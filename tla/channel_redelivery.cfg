SPECIFICATION Spec
CONSTANTS
  Feed <- MCFeed
  Allowed = {1, 2}
  Backlog = {11, 12}
  Replies = 2
  Limit = 2
  MaxAttempts = 2
  FaultKinds = {"unsent"}
  MaxFaults = 2
INVARIANTS AnsweredOnce
