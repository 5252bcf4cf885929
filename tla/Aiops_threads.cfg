CONSTANTS
    Threads = {t1, t2}
    Requests = {r1, r2, r3}
    NoRequest = NoRequest
    RIDICULOUS_LENGTH = 2
SPECIFICATION FairSpec
INVARIANTS QueuesConsistent WakeUpComing SomeoneAwake
PROPERTIES ImplementsAsyncIo
