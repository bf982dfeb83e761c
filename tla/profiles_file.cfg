CONSTANTS
    Adders = {p1, p2}
    Readers = {r1}
    Names = {n1, n2}
    Inodes = {i1, i2, i3}
    Partial = Partial
    Nothing = Nothing
SPECIFICATION FairSpec
INVARIANTS
    ReadersSeeWhole
    NoStrayTemps
PROPERTIES FileIsRegistry AddEnds
