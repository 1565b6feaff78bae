CONSTANTS
    MAX_MSGS = 8
    N_MSGS = 4
    Prios = {1, 5, 9}
    MaxLeftover = 6
SPECIFICATION MqFairSpec
INVARIANTS HighestPriorityFirst
PROPERTIES DemoCompletes
\* The program ends, or waits for good where DemoCompletes says so.
CHECK_DEADLOCK FALSE
