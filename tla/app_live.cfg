CONSTANTS
    n1 = n1
    n2 = n2
    Callers = {c1, c2}
    Names = {n1}
    Tables = {t}
    Filters = {}
    Orders = {}
    SQLs = {q}
    WriteIds = {w1}
    Handles = {h1, h2}
    Requests <- LiveRequests
    Seeded <- NoSeeds
    AllowWrites = TRUE
    DefaultLimit = 1
    MaxPage = 1
    MaxInt = 1
    Nothing = Nothing
SPECIFICATION FairSpec
PROPERTIES
    OperationEnds
    CloseEnds
    QuietAfterClose
    FeedsInterface
INVARIANTS
    OneOperation
    PoolsAccounted
