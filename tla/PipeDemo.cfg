CONSTANTS
    MaxRuns = 3
    Killable = {1, 2}
    Length = 3
    READ_MAX = 1
SPECIFICATION DemoSpec
INVARIANTS EofAfterWholeMessage ReadAtMostOnce
PROPERTIES DemosEnd
\* The last run ends, or waits for good where DemosEnd says so.
CHECK_DEADLOCK FALSE
