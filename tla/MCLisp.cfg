CONSTANTS
    x = x
    y = y
    Bytes = {x, y}
    MaxLength = 2
    Unbound = Unbound
    Named = {"command"}
    Lambdas = {"lambda1", "lambda2"}
    Readline = {"undo"}
    Users = {"mine"}
    SlotFunctions <- OneSlot
    Descs <- KeyDescs
    Layout <- KeyLayout
    Defaults <- KeyDefaults
    TtyKeys <- KeyTty
    MenuFallback <- KeyFallback
    MaxSteps = 4
    Chars = {a}
    Histories = {h1, h2}
    MaxText = 2
    MaxFunctions = 2
    MaxCalls = 6
    Letters = {a, b}
    LongestLine = 2
    Functions = {f, g}
    Items = {i}
    MaxEvents = 4
    MaxSwitches = 4
    MaxPanics = 2
    MaxLines = 3
    MaxDepth = 5
INIT LispInit
NEXT LispNext
CHECK_DEADLOCK FALSE
INVARIANTS
    UsersKeysKept
    RunsItsCommand
    AnswersAreOfThisLine
    FunctionsInPlace
    NothingOfEarlierLine
PROPERTIES
    StepsAreOneUndo
    GroupsEndWell
