CONSTANTS
    Processes = {p1, p2}
    Names = {n1, n2}
    Conns = {k1, k2, k3}
    Inodes = {i1, i2}
    Clients = {a1}
    Nothing = Nothing
SPECIFICATION ClientSpec
INVARIANTS
    ActsAtMostOnce
    ActsOnTheOnlySession
SYMMETRY Symmetric
CHECK_DEADLOCK FALSE
