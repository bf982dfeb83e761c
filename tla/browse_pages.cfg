CONSTANTS
    a = a
    b = b
    Columns = {a, b}
    RowIds = {1, 2, 3}
    Values = {1, 2, 3}
    Within <- Contained
    MaxPage = 2
    Null = Null
    Nothing = Nothing
    Tables <- AllTables
    Requests <- AllRequests
SPECIFICATION Spec
INVARIANTS
    EachRowOnce
    MoreIsExact
    DemoLikeMySQL
