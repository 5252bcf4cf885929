CONSTANTS
    Threads = {t1, t2}
    Requests = {r1, r2, r3}
    NoRequest = NoRequest
    RIDICULOUS_LENGTH = 2
    Sios = {s1, s2}
    Fds = {f1}
    NoFd = NoFd
    NoSio = NoSio
    MaxWrites = 1
    MAGIC2 = 1
SPECIFICATION AufsSpec
INVARIANTS DescriptorsExact CancelHarmless ReadsOwnFile ReaderServed
SYMMETRY Symmetry
