SPECIFICATION LiveSpec
CONSTANTS
    r1 = r1
    r2 = r2
    p1 = p1
    None = None
    Requests = {r1}
    Large = {r1}
    Places = {p1}
    AskLists <- MCOneCommand
    SendCap = 1
    MostUnread = 1
    MaxId = 2
    MaxLine = 1
    MaxFaults = 1
PROPERTIES
    CallsReturn
    EveryRequestResolved
