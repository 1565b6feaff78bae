CONSTANTS
    Runs = {1, 2}
    LINES = 2
    Address = {p1, p2, p3}
    Sizes = {1, 2}
    Margins = {2, 12}
    MAX_RESTARTS = 5
SPECIFICATION ProgramsSpec
INVARIANTS CleanRuns TrackerExact
PROPERTIES ResetIfAbandoned KeepsOneRunning
\* The programs end.
CHECK_DEADLOCK FALSE
