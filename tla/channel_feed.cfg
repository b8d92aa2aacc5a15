SPECIFICATION FairSpec
CONSTANTS
  Feed <- MCFeed
  Allowed = {1, 2}
  Backlog = {11, 12}
  Replies = 2
  Limit = 2
  MaxAttempts = 2
  FaultKinds = {"unsent", "unconfirmed", "raise", "job", "disk", "crash"}
  MaxFaults = 3
INVARIANTS TypeOK SuppressedIsServed SyncIsComplete
PROPERTIES SilentOnceRecorded FeedIsAnswered SyncEnds
