SPECIFICATION FairSpec
CONSTANTS
  Faults = TRUE
  Counts = {1, 3}
INVARIANTS FailsOnlyUnpaired SecuredTogether MuxAgree MuxIsWhole
PROPERTIES ImplementsCommit SessionEnds
CHECK_DEADLOCK FALSE
