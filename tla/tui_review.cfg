CONSTANTS
    Calls = {c1, c2}
    Remote = remote
    Writes = {w1, w2}
    Views = {v1}
    RawViews = {}
    Texts = {t1}
    Keys = {"write", "remote"}
    MaxRevision = 5
    MaxForm = 0
    Nothing = Nothing
SPECIFICATION Spec
SYMMETRY Symmetric
INVARIANTS
    TypeOK
    ReviewIsCurrent
    DraftsSurvive
PROPERTY ApprovesWhatWasReviewed
