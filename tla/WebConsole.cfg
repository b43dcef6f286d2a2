SPECIFICATION FairSpec
CONSTANTS
  Requests = {r1, r2}
  Uploads = {u1}
  Sizes = {2}
  MaxActive = 1
  Capacity = 2
  MaxJobs = 2
INVARIANTS OutcomeIsOwn StagedAccounted FinishedIsWhole
PROPERTY CancelTakesEffect
CHECK_DEADLOCK FALSE
