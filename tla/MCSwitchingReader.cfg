\* The reader readline is left with after a panic at the first `enable -f`.
SPECIFICATION SwitchingSpec
CONSTANTS
    MaxSwitches = 2
    MaxPanics = 1
    MaxLines = 2
    MaxDepth = 3
INVARIANTS
    AlwaysAReader
CHECK_DEADLOCK FALSE
