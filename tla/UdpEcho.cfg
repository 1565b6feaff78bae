CONSTANTS
    N_MSGS = 4
    Strangers = {x1, x2}
    Lossy = TRUE
SPECIFICATION FairSpec
PROPERTIES Completes
\* Both sides may wait for a datagram that was lost; Completes says when not.
CHECK_DEADLOCK FALSE
