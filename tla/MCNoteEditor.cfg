SPECIFICATION NoteFairSpec
CONSTANTS
    Pads = {1, 2}
    MaxFrames = 2
    MaxRevision <- Bounds
    MaxThreads = 2
    Leavers = {1}
INVARIANTS EditorShowsDocument Converged
PROPERTIES TypingSettles EditsSettle StopReachesBoth
CHECK_DEADLOCK FALSE
