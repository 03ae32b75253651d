SPECIFICATION UpDownSpec
CONSTANTS
    a = a
    b = b
    nl = nl
    tab = tab
    blank = blank
    backslash = backslash
    wide = wide
    Chars = {a, b, nl, tab, blank, backslash, wide}
    Newline = nl
    Tab = tab
    Space = blank
    Backslash = backslash
    WidthOf <- MCWidthOf
    Fold <- MCFold
    IgnoreCase = FALSE
    History <- MCHistory
    Starting <- MCStarting
    Prompt = 1
    ScreenRows = 2
    CursorAtEnd = FALSE
    Nothing = Nothing
    Typed = {a}
    Counts <- MCCounts
    MenuCounts = {0, 1}
    LineKeys = 5
INVARIANTS
    FindsAsPromised
PROPERTIES
    ColumnsKept
    SearchSteps
CHECK_DEADLOCK FALSE
