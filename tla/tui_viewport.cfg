SPECIFICATION Spec
CONSTANTS
    ta = ta
    tb = tb
    tc = tc
    Nothing = Nothing
    Tables <- MCTables
    Searches <- MCSearches
    Screens <- MCScreens
    Snapshots <- MCSnapshots
INVARIANTS
    CursorInRange
PROPERTIES
    SelectionShown
    SidebarFollows
