CONSTANTS
    HistoryLimit = 1
    Entries <- MCEntries
    LinesTyped <- MCLines
    Offers <- MCOffers
    MaxOffered = 3
    MaxChars = 5
    Letters <- MCLetters
    Rows = 3
    Cols = 5
    LastRow = 20
    Prompts <- MCPrompts
    OddPrompts <- MCOddPrompts
    FirstLines <- MCFirstLines
    Typed <- MCTyped
    Messages <- MCMessages
    Found <- MCFound
    MaxLength = 3
    MaxPresses = 2
    letter = letter
    threeBytes = threeBytes
    feed = feed
    Symbols = {letter, threeBytes, feed}
    BytesOf <- MCBytes
    Newlines = {feed}
    CharSets <- MCCharSets
    LineTexts <- MCLineTexts
    MaxEdits = 3
    MaxExcursions = 2
INIT TextInit
NEXT TextNext
CHECK_DEADLOCK FALSE
INVARIANTS
    ScreenIsRight
    NothingLeftBehind
    PromptEndsWhereDrawn
    GatheredAtTheirBest
    BestIsShown
PROPERTIES
    PlacesFollowText
