SPECIFICATION Spec
CONSTANTS
    empty = empty
    typed = typed
    one = one
    two = two
    three = three
    inside = inside
    end = end
    a1 = a1
    a2 = a2
    None = None
    Texts = {empty, typed, one, two, three}
    Empty = empty
    Garbled = Garbled
    Spots = {inside, end}
    End = end
    Recallable = {three}
    Addresses = {a1, a2}
    Offers <- MCOffers
    MenuOnMove = FALSE
    MenuLines = 2
    Counts <- MCCounts
    MaxUndo = 2
SYMMETRY MCSymmetry
INVARIANTS
    PickedRowShows
    MenuStaysAway
PROPERTIES
    RowsWereOnScreen
    Browses
