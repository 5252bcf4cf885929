CONSTANTS
    r1 = r1
    r2 = r2
    p1 = p1
    p2 = p2
    Configurations <- Shared
    Requests = {r1, r2}
    Parents = {p1}
    Siblings = {p2}
    Direct = Direct
    None = None
    max_conn = 1
    PEER_TCP_MAGIC_COUNT = 2
    MaxTries = 3
    MaxOriginTries = 2
    MaxIdle = 1
SPECIFICATION FairSpec
INVARIANTS  AllowedServers
PROPERTIES ForwardingEnds
