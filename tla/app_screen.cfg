CONSTANTS
    n1 = n1
    n2 = n2
    Callers = {c1}
    Names = {n1, n2}
    Tables = {t}
    Filters = {}
    Orders = {}
    SQLs = {q}
    WriteIds = {w1}
    Handles = {h1, h2}
    Requests <- ScreenRequests
    Seeded <- TwoSeeds
    AllowWrites = TRUE
    DefaultLimit = 1
    MaxPage = 1
    MaxInt = 1
    Nothing = Nothing
SPECIFICATION Spec
SYMMETRY FullSymmetry
INVARIANTS
    ScreenConsistent
    RowsFollowWrites
    StateMatchesApp
PROPERTY ViewsRemembered
