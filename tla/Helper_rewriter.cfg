CONSTANTS
    Servers = {s1, s2}
    Requests = {r1, r2, r3, r4}
    None = None
    n_to_start = 1
    MaxAsking <- Asking
SPECIFICATION FairSpec
INVARIANTS   SomeoneKicks
 
