SPECIFICATION Spec
CONSTANTS
    r1 = r1
    r2 = r2
    p1 = p1
    None = None
    Requests = {r1, r2}
    Large = {r1}
    Places = {p1}
    AskLists <- MCAskLists
    SendCap = 2
    MostUnread = 1
    MaxId = 3
    MaxLine = 1
    MaxFaults = 1
INVARIANTS
    KeptFromThisLine
    AnswersAreOwn
    ProtocolKept
PROPERTIES
    TurnedOffJustly
    TakenIsGivenUp
