CONSTANTS
    Entries = {e1, e2}
    Keys = {k1}
    VideoKeys = {k1}
    Clients = {c1}
    Files = {0}
    NeighborsDoPrivateKeys = TRUE
    CollapsedForwarding = TRUE
    SyncClose = TRUE
    Private = Private
    NoKey = NoKey
    Null = Null
SPECIFICATION FairSpec
INVARIANTS NoAssertFails
PROPERTIES ReleaseHappens
