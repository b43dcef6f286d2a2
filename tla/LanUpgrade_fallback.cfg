SPECIFICATION Spec
CONSTANTS
    TrySets = {{"sender", "receiver"}}
    Timely = TRUE
    Leftovers = FALSE
INVARIANT UpgradeHarmless
CHECK_DEADLOCK FALSE
