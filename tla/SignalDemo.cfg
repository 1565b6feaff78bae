CONSTANTS
    External = {"INT", "TERM"}
    MaxExternal = 3
SPECIFICATION SignalSpec
INVARIANTS CountsEverySignal
PROPERTIES SignalsComplete
\* The program ends; that it ends only where it should is the liveness property.
CHECK_DEADLOCK FALSE
