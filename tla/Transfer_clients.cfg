SPECIFICATION FairSpec
CONSTANTS
    Clients = {c1, c2}
    First = c1
    SM_PAGE_SIZE = 2
    readAheadGap = 1
    maxInMemObjSize = 1
    maxObjectSize = 4
    store_maxobjsize <- Unlimited
    ObjectSizes = {3, 5}
    content_length <- Unlimited
    CopySize = 2
    AsyncCreate = TRUE
    InOrder = TRUE
INVARIANTS TransferConsistent NextByteKept  FileIsWhole
PROPERTIES ClientServed
