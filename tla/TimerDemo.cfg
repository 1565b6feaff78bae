CONSTANTS
    TICKS = 5
    MaxFired = 8
SPECIFICATION TimerSpec
INVARIANTS PendingHandled NoneMissed
PROPERTIES TimersComplete
\* The program ends; that it ends only where it should is the liveness property.
CHECK_DEADLOCK FALSE
