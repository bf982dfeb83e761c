CONSTANTS
    Calls = {c1}
    Remote = remote
    Writes = {}
    Views = {v1, raw}
    RawViews = {raw}
    Texts = {}
    Keys = {"form", "list", "filter", "browse", "remote"}
    MaxRevision = 4
    MaxForm = 4
    Nothing = Nothing
SPECIFICATION FairSpec
PROPERTIES
    FormWaitsForItsSetup
    FilterFitsView
    CatchesUp
    FormIsReleased
