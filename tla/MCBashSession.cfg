SPECIFICATION Spec
CONSTANTS
    arg = arg
    cmd = cmd
    None = None
    Places = {arg}
    AtCommand = {}
    Texts <- MCTexts
    Words <- MCWords
    Offered <- MCOffered
    MinChars = 1
    Most = 1
    MaxCopies = 2
    MaxNoStart = 0
    MaxLine = 1
INVARIANTS
    ShownIsBashs
    WaitsWhileMoreComes
PROPERTIES
    AnsweredIsNotTimedOut
CHECK_DEADLOCK FALSE
