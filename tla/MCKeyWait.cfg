CONSTANTS
    MaxKeys = 3
    MaxPresses = 2
    MaxSignals = 1
    PauseTicks = 2
SPECIFICATION FairSpec
PROPERTIES
    CtrlCInTurn
    KeysStayTogether
    CtrlCActs
    ErrorShows
\* The user may stop typing, and servers sending.
CHECK_DEADLOCK FALSE
