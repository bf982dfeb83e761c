CONSTANTS
    n1 = n1
    n2 = n2
    Callers = {c1}
    Names = {n1}
    Tables = {t}
    Filters = {f}
    Orders = {o}
    SQLs = {q}
    WriteIds = {}
    Handles = {h1, h2}
    Requests <- PagingRequests
    Seeded <- OneSeed
    AllowWrites = TRUE
    DefaultLimit = 2
    MaxPage = 2
    MaxInt = 3
    Nothing = Nothing
SPECIFICATION Spec
SYMMETRY FullSymmetry
INVARIANTS
    TypeOK
    PagesAligned
