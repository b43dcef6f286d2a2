SPECIFICATION FairSpec
CONSTANTS
  Channels = {0, 1}
  Lengths = {0, 2}
  PendingLimit = 1
  Window = 1
  MaxEdits = 1
  MaxAttempts = 2
  Faults = TRUE
INVARIANTS NeverCorrupt
PROPERTIES Delivered AttemptEnds
CHECK_DEADLOCK FALSE
