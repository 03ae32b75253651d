SPECIFICATION Spec
CONSTANTS
    w = w
    do = do
    done = done
    open = open
    close = close
    pipe = pipe
    quote = quote
    m = m
    case = case
    in = in
    ends = ends
    blank = blank
    tab = tab
    nl = nl
    backslash = backslash
    Chars = {w, do, done, open, close, pipe, quote, m, case, in, ends, blank, tab, nl, backslash}
    Newline = nl
    Tab = tab
    Space = blank
    Backslash = backslash
    WidthOf <- MCWidthOf
    Words = {w, do, done, m, case, in}
    Do = {do}
    Open = {open}
    OpenParen = open
    CloseParen = close
    Case = case
    In = in
    EndOfBody = ends
    Closers = {done, close}
    Continuers = {pipe}
    Separators = {}
    Quote = quote
    Step = 2
    MostDepth = 1
    Starting <- MCStarting
    Found <- MCFound
    CloserOf <- MCCloserOf
    ModeWord = m
    DepthAnswers <- MCDepthAnswers
    ScreenRows = 6
    None = None
    Typing = {w, do, done, open, close, pipe, quote, blank}
    MaxKeys = 2
    TypedOn = {do, done, pipe}
    MaxTyped = 8
INVARIANTS
    BlocksLineUp
    SearchLeavesNoTrace
PROPERTIES
    EnterIsOneStep
CHECK_DEADLOCK FALSE
