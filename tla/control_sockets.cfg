CONSTANTS
    Processes = {p1, p2}
    Names = {n1}
    Conns = {k1, k2}
    Inodes = {i1, i2}
    Nothing = Nothing
SPECIFICATION FairSpec
INVARIANTS
    SessionReachable
    NothingAfterClose
PROPERTIES
    CloseReturns
    RequestsEnd
CHECK_DEADLOCK FALSE
