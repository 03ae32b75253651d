SPECIFICATION LiveSpec
CONSTANTS
    arg = arg
    cmd = cmd
    None = None
    Places = {arg, cmd}
    AtCommand = {cmd}
    Texts <- MCFewTexts
    Words <- MCPlaceWords
    Offered <- MCPlaceOffered
    MinChars = 1
    Most = 1
    MaxCopies = 2
    MaxNoStart = 1
    MaxLine = 0
PROPERTIES
    NoCopyStays
CHECK_DEADLOCK FALSE
