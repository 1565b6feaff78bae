CONSTANTS
    MaxStarts = 2
    N_MESSAGES = 2
    Crashes = TRUE
SPECIFICATION ShmFairSpec
INVARIANTS OneToken
PROPERTIES RestartIsClean RunsEnd
