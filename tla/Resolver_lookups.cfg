CONSTANTS
    Lookups = {l1, l2}
    Asked <- ShortNames
    SearchPath <- Path
    Ids = {1, 2}
    nns = 1
    ndots = 1
    MAX_ATTEMPT = 3
    QueryTimeout = 2
    MaxSends = 2
    MaxTruncated = 2
    None = None
SPECIFICATION FairSpec
INVARIANTS QueriesConsistent CalledBackOnce NxMeansNone
PROPERTIES EveryLookupAnswered
