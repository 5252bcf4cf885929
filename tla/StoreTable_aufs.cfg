CONSTANTS
    Entries = {e1, e2}
    Keys = {k1}
    VideoKeys = {}
    Clients = {c1, c2}
    Files = {1}
    NeighborsDoPrivateKeys = TRUE
    CollapsedForwarding = FALSE
    SyncClose = FALSE
    Private = Private
    NoKey = NoKey
    Null = Null
SYMMETRY Symmetry
SPECIFICATION Spec
INVARIANTS TypeOK NoAssertFails PublicKeyUnique LocksExact ReleasedNotFindable NothingLeaks SwapLogMatches FileOwnership 
PROPERTIES RequestKeepsCached
