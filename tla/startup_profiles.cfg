CONSTANTS
    Contents <- SomeContents
    Saved <- SavedLists
    Explicit <- FlagProfiles
    Secrets = {Nothing, "secret"}
    Published <- Compose
    Project = Project
    Seeded = Seeded
    Shop = Shop
    Static1 = Static1
    Flagged = Flagged
    MySQL = "mysql"
    Loopback = "127.0.0.1"
    AnyAddress = {"0.0.0.0", "::", ""}
    MaxPort = 65535
    DefaultPort = 3306
    Unreadable = Unreadable
    Empty = Empty
    Nothing = Nothing
SPECIFICATION Spec
INVARIANTS
    CandidatesFollowEnv
    CandidatesNeverClash
