SPECIFICATION FairSpec
CONSTANTS
  Cases <- MCCases
  Policies = {"overwrite", "skip", "rename"}
  Size = 2
  Sampled = {1}
  MaxSuffix = 3
  Window = 2
  MaxAttempts = 2
  MaxReruns = 1
  MaxChanges = 1
  MaxFaults = 1
INVARIANTS ProgressTrue BatchWhole Untouched ProgressKept
PROPERTY RetriesEnd
CHECK_DEADLOCK FALSE
