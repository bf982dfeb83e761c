CONSTANTS
    n1 = n1
    n2 = n2
    Callers = {c1, c2}
    Names = {n1, n2}
    Tables = {t}
    Filters = {}
    Orders = {}
    SQLs = {q}
    WriteIds = {w1, w2}
    Handles = {h1, h2}
    Requests <- WriteRequests
    Seeded <- TwoSeeds
    AllowWrites = TRUE
    DefaultLimit = 1
    MaxPage = 1
    MaxInt = 1
    Nothing = Nothing
SPECIFICATION Spec
SYMMETRY FullSymmetry
INVARIANTS
    WritesAsApproved
PROPERTY WritesFollowApproval
