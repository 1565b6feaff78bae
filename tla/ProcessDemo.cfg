CONSTANTS
    MaxPolls = 6
    MaxRuns = 2
    Faults = TRUE
SPECIFICATION ProcessSpec
INVARIANTS OwnChildCollected ShowsOwnOutput

