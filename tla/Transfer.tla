------------------------------ MODULE Transfer ------------------------------
(* One object on its way through the cache: the server side appends bytes to *)
(* the memory object, the swap-out writes them page by page to a file and    *)
(* frees them, clients at different offsets copy them from memory or from    *)
(* the file, and the server is no longer read from while the slowest reader  *)
(* is too far behind (store_client.c, store_swapout.c, store_swapin.c,       *)
(* stmem.c, and the appending half of store.c and forward.c).                *)
(*                                                                           *)
(* Offsets count small units; the reply header is one unit, and so is the    *)
(* swap header in front of a file.  Byte i of the object is told from the    *)
(* others only by i.  The handlers call one another, so they are operators   *)
(* from the state of the entry to the next, and env is what squid does not   *)
(* decide: whether too many files are open, whether the disk fails, and      *)
(* which clients ask for more from inside their callback.  The reply's       *)
(* headers have been accepted (ENTRY_FWD_HDR_WAIT is clear).                 *)
EXTENDS Integers, FiniteSets, SequencesExt

CONSTANTS
    Clients,            \* client requests
    First,              \* the one the entry was created for
    SM_PAGE_SIZE,
    readAheadGap,
    maxInMemObjSize,
    maxObjectSize,
    store_maxobjsize,   \* -1, or the size swapping out waits for
    ObjectSizes,        \* bound: how long the object can be
    content_length,     \* of the reply, -1 if it does not say
    CopySize,           \* a client's buffer (STORE_CLIENT_BUF_SZ)
    AsyncCreate,        \* files are created and opened by threads (aufs)
    InOrder             \* a file is not opened before its creation is reported

ASSUME TransferAssumption ==
    /\ First \in Clients /\ IsFiniteSet(Clients)
    /\ SM_PAGE_SIZE \in Nat \ {0} /\ CopySize \in Nat \ {0, 1}
    /\ ObjectSizes \subseteq Nat \ {0}
    /\ {readAheadGap, maxInMemObjSize, maxObjectSize} \subseteq Nat
    /\ {store_maxobjsize, content_length} \subseteq Nat \cup {-1}
    /\ {AsyncCreate, InOrder} \subseteq BOOLEAN

VARIABLES
    e,                  \* the StoreEntry, its MemObject and its file
    sc                  \* each store_client

vars == <<e, sc>>

\* inmem_lo and inmem_hi; queue: swapout.queue_offset; node: where the page of
\* swapout.memnode starts; sio: swapout.sio is set; opening and closing: the
\* file is being created, and is to be closed after; file: bytes of the object
\* in it; hdr: swap_hdr_sz is known; bad: an assertion failed; left: a client
\* went away while the server was held back.
NewEntry ==
    [store |-> "PENDING", swap |-> "NONE", aborted |-> FALSE,
     release |-> FALSE, inMemory |-> FALSE, defer |-> FALSE, gone |-> FALSE,
     lo |-> 0, hi |-> 0, object_sz |-> -1, hdr |-> FALSE,
     queue |-> 0, node |-> -1, sio |-> FALSE, opening |-> FALSE,
     closing |-> FALSE, file |-> 0, bad |-> FALSE, left |-> FALSE]
Entries ==
    [store : {"PENDING", "OK"}, swap : {"NONE", "WRITING", "DONE"},
     aborted : BOOLEAN, release : BOOLEAN, inMemory : BOOLEAN,
     defer : BOOLEAN, gone : BOOLEAN, lo : Nat, hi : Nat,
     object_sz : Nat \cup {-1}, hdr : BOOLEAN, queue : Nat,
     node : Nat \cup {-1}, sio : BOOLEAN, opening : BOOLEAN,
     closing : BOOLEAN, file : Nat, bad : BOOLEAN, left : BOOLEAN]

\* off: copy_offset (and seen_offset: squid's clients keep them equal); got:
\* the offset it will ask for next; swapin: its file; io: disk_io_pending, the
\* file's size when the read was queued; st: waiting while its callback is set.
NewClient ==
    [type |-> "mem", st |-> "ready", off |-> 0, got |-> 0, event |-> FALSE,
     swapin |-> "none", io |-> -1, failed |-> FALSE]
Out == [NewClient EXCEPT !.st = "out"]
StoreClients ==
    [type : {"mem", "disk"}, st : {"out", "ready", "waiting", "end", "cut"},
     off : Nat, got : Nat, event : BOOLEAN, swapin : {"none", "opening", "open"},
     io : Nat \cup {-1}, failed : BOOLEAN]

\* what the operators below work on
State == [e |-> e, sc |-> sc]
WithEntry(s, x) == [e |-> x, sc |-> s.sc]
WithClient(s, c, x) == [e |-> s.e, sc |-> [s.sc EXCEPT ![c] = x]]
Registered(s) == {c \in Clients : s.sc[c].st # "out"}
\* called: the clients a handler may call back.  Nothing is written once the
\* file is complete.
Environments(called) ==
    [tooMany : BOOLEAN, fail : {FALSE, e.swap # "DONE"}, again : SUBSET called]
Reading == {c \in Clients : sc[c].st \in {"ready", "waiting"}}

Asserted(s, p) == WithEntry(s, [s.e EXCEPT !.bad = @ \/ ~p])
storeReleaseRequest(s) == WithEntry(s, [s.e EXCEPT !.release = TRUE])
-----------------------------------------------------------------------------
(* Memory: stmem.c, and what may be freed (store_swapout.c).                 *)

\* Every page but the last is full, so pages start at multiples of their size.
PageOf(offset) == (offset \div SM_PAGE_SIZE) * SM_PAGE_SIZE

\* The last page is always kept.
stmemFreeDataUpto(s, target) ==
    IF s.e.hi = 0 THEN s.e.lo
    ELSE Max({s.e.lo, Min({PageOf(target), PageOf(s.e.hi - 1)})})

\* Mutant: disk clients never hold memory back.
LowestMemClient(s) ==
    Min({s.sc[c].off : c \in {d \in Registered(s) : s.sc[d].type = "mem"}}
        \cup {s.e.hi + 1})

\* Disk clients do not hold memory back while the file is written.
storeLowestMemReaderOffset(s) ==
    LET holding == {c \in Registered(s) : ~(s.e.sio /\ s.sc[c].type # "mem")}
        highest == Max({s.sc[c].off : c \in Registered(s)} \cup {-1})
        lowest  == Min({s.sc[c].off : c \in holding} \cup {s.e.hi + 1})
    IN  IF highest < lowest /\ highest >= 0 THEN highest ELSE lowest

\* Mutant: what is queued counts as written.
BytesQueued(s) == s.e.queue

storeSwapOutObjectBytesOnDisk(s) == IF s.e.sio THEN s.e.file ELSE s.e.queue

storeSwapOutAble(s) ==
    /\ s.e.hi <= maxObjectSize
    /\ ~s.e.release
    /\ \/ s.e.sio
       \/ s.e.queue # 0 /\ s.e.queue = s.e.hi
       \/ s.e.lo = 0

Freed(s, upto) == WithEntry(s, [s.e EXCEPT !.lo = stmemFreeDataUpto(s, upto)])
storeResumeRead(s) == WithEntry(s, [s.e EXCEPT !.defer = FALSE, !.left = FALSE])

\* Mutant: the page written last may be freed.
FreeMemoryWritten(s, able) ==
    LET wish == storeLowestMemReaderOffset(s)
        upto == IF able THEN Min({storeSwapOutObjectBytesOnDisk(s), wish})
                ELSE wish
    IN  IF upto <= s.e.lo THEN s
        ELSE storeResumeRead(Freed(s, upto))

ResumeIfNear(s) == IF s.e.defer /\ s.e.hi - s.e.lo <= readAheadGap
                   THEN storeResumeRead(s) ELSE s
FreeUpto(s, upto) ==
    IF upto <= s.e.lo THEN s ELSE ResumeIfNear(Freed(s, upto))

\* The page written last stays, storeSwapOut goes on from it.
FreeMemory(s, able) ==
    LET free  == \/ ~able \/ s.e.hi > maxInMemObjSize
                 \/ content_length > maxInMemObjSize
        wish  == IF free THEN storeLowestMemReaderOffset(s) ELSE s.e.lo
        limit == storeSwapOutObjectBytesOnDisk(s) - 1
    IN  FreeUpto(s, IF able /\ wish # 0 /\ limit < wish THEN limit ELSE wish)

\* storeSwapOutMaintainMemObject of an entry that has no file open for writing
MaintainClosed(s) ==
    IF s.e.inMemory THEN s
    ELSE IF storeSwapOutAble(s) THEN FreeMemory(s, TRUE)
    ELSE FreeMemory(storeReleaseRequest(s), FALSE)

\* the file is complete, or has failed those who read it
Closed(x, err) == [x EXCEPT !.swap = IF err THEN "NONE" ELSE "DONE",
                            !.release = @ \/ err, !.sio = FALSE,
                            !.opening = FALSE, !.closing = FALSE]
FileLost(x, err) == [x EXCEPT !.failed = @ \/ (err /\ x.type = "disk")]
storeSwapOutFileClosed(s, err) ==
    LET t == Asserted(s, s.e.swap = "WRITING")
    IN  MaintainClosed([e |-> Closed(t.e, err),
                        sc |-> [c \in Clients |-> FileLost(t.sc[c], err)]])

\* The file is closed at once unless writes wait for its creation.
CloseLater(s) == WithEntry(s, [s.e EXCEPT !.sio = FALSE, !.closing = TRUE])
storeSwapOutFileClose(s) ==
    IF ~s.e.sio THEN s
    ELSE IF s.e.opening THEN CloseLater(s)
    ELSE storeSwapOutFileClosed(s, FALSE)

storeSwapOutMaintainMemObject(s) ==
    IF s.e.inMemory THEN s
    ELSE IF storeSwapOutAble(s) THEN FreeMemory(s, TRUE)
    ELSE FreeMemory(storeSwapOutFileClose(storeReleaseRequest(s)), FALSE)
-----------------------------------------------------------------------------
(* Swapping out (store_swapout.c).                                           *)

FileOpened(x) == [x EXCEPT !.swap = "WRITING", !.sio = TRUE, !.hdr = TRUE,
                           !.opening = AsyncCreate]
storeSwapOutStart(s, env) == IF env.fail THEN s ELSE WithEntry(s, FileOpened(s.e))

\* The page after the last one, which must not have been freed, is queued, and
\* written at once if the file is there.  It has to be the next of the file.
NextPage(s) == IF s.e.node = -1 THEN s.e.lo ELSE s.e.node + SM_PAGE_SIZE
PageQueued(x, start, len) == [x EXCEPT !.node = start, !.queue = @ + len]
PageWritten(x, len) == [x EXCEPT !.file = @ + len]
WritePage(s, env) ==
    LET start == NextPage(s)
        len   == Min({SM_PAGE_SIZE, s.e.hi - start})
        kept  == s.e.node = -1 \/ s.e.node >= s.e.lo
        u == Asserted(s, kept /\ len > 0 /\ start = s.e.queue)
        t == WithEntry(u, PageQueued(u.e, start, len))
    IN  IF s.e.opening THEN t
        ELSE IF env.fail THEN storeSwapOutFileClosed(t, TRUE)
        ELSE WithEntry(t, PageWritten(t.e, len))

\* A pending object's last page may still grow.
Enough(s) == IF s.e.store = "PENDING" THEN SM_PAGE_SIZE ELSE 1
WriteNext(s, env) ==
    IF s.e.swap = "WRITING" /\ s.e.hi - s.e.queue >= Enough(s)
    THEN WritePage(s, env) ELSE s
WritePages(s, env) ==
    LET n == s.e.hi \div SM_PAGE_SIZE + 1
        after[i \in 0..n] ==
            IF i = 0 THEN s ELSE WriteNext(after[i - 1], env)
    IN  after[n]

\* Every page is queued by the time the object is complete.
CloseIfComplete(s) ==
    IF s.e.sio /\ s.e.store = "OK"
    THEN storeSwapOutFileClose(Asserted(s, s.e.hi = s.e.queue))
    ELSE s
WriteIfOpen(s, env) ==
    IF s.e.sio THEN CloseIfComplete(WritePages(s, env)) ELSE s

\* storeCheckCachable, of an entry that may be swapped out
StartOrRelease(s, env) ==
    LET t == Asserted(s, ~s.e.sio /\ s.e.lo = 0)
    IN  IF env.tooMany
        THEN storeSwapOutMaintainMemObject(storeReleaseRequest(t))
        ELSE storeSwapOutStart(t, env)

\* storeSwapOut, once memory has been freed
SwapOutRest(s, env) ==
    LET size == s.e.hi - s.e.queue
    IN  IF size = 0
        THEN IF s.e.store = "OK" THEN storeSwapOutFileClose(s) ELSE s
        ELSE IF /\ s.e.store = "PENDING"
                /\ size < SM_PAGE_SIZE \/ (env.tooMany /\ ~s.e.defer)
        THEN s
        ELSE WriteIfOpen(IF s.e.swap = "NONE" THEN StartOrRelease(s, env)
                         ELSE s, env)

storeSwapOut(s, env) ==
    LET t == Asserted(s, s.e.hi >= s.e.queue)
    IN  IF s.e.aborted
        THEN storeSwapOutFileClose(Asserted(s, s.e.release))
        ELSE IF s.e.store = "PENDING" /\ s.e.hi - s.e.queue < store_maxobjsize
        THEN t
        ELSE IF s.e.inMemory \/ storeSwapOutAble(t)
        THEN SwapOutRest(storeSwapOutMaintainMemObject(t), env)
        ELSE storeSwapOutMaintainMemObject(t)
-----------------------------------------------------------------------------
(* Clients (store_client.c).                                                 *)

storeClientType(s) ==
    IF s.e.lo > 0 THEN "disk"
    ELSE IF s.e.aborted THEN "mem"
    ELSE IF s.e.store = "OK" THEN IF s.e.hi > 0 THEN "mem" ELSE "disk"
    ELSE IF Registered(s) = {} \/ s.e.swap = "NONE" THEN "mem"
    ELSE "disk"

\* The first callback is for the reply's header, and is content if the header
\* is known already (storeClientCopyHeadersCB); the rest is asked for again.
Told(x, st, got) == [x EXCEPT !.st = st, !.got = got]
storeClientCallback(s, c, sz) ==
    LET first == s.sc[c].off = 0
        st    == IF sz > 0 \/ (sz = 0 /\ first /\ s.e.hi > 0) THEN "ready"
                 ELSE IF sz = 0 /\ ~first THEN "end" ELSE "cut"
        got   == IF st # "ready" THEN s.sc[c].got
                 ELSE IF first THEN 1 ELSE s.sc[c].off + sz
    IN  WithClient(s, c, Told(s.sc[c], st, got))

\* storeClientCopy, up to its call of storeClientCopy2
Asking(x) == [x EXCEPT !.st = "waiting", !.off = x.got]
Ask(s, c, env) ==
    LET t == WithClient(s, c, Asking(s.sc[c]))
    IN  IF s.e.defer THEN storeSwapOut(t, env) ELSE t

\* A callback made by storeClientCopy3.  A client that asks for more in it
\* finds store_copying set, and waits for the event.
Event(x, queued) == [x EXCEPT !.event = queued]
CopyCallback(s, c, sz, env) ==
    LET t == storeClientCallback(s, c, sz)
    IN  IF c \in env.again /\ t.sc[c].st = "ready"
        THEN LET u == Ask(t, c, env) IN WithClient(u, c, Event(u.sc[c], TRUE))
        ELSE t

storeClientNoMoreToSend(s, c) ==
    /\ s.e.store = "OK"
    /\ s.e.object_sz >= 0
    /\ s.sc[c].off >= s.e.object_sz

InFile(x, size) == [x EXCEPT !.io = size]
storeClientFileRead(s, c) ==
    LET t == Asserted(s, /\ s.sc[c].type = "disk" /\ s.sc[c].io = -1
                         /\ s.e.hdr /\ s.e.swap = "WRITING" =>
                                storeSwapOutObjectBytesOnDisk(s) > s.sc[c].off)
    IN  WithClient(t, c, InFile(t.sc[c], t.e.file))

\* What the client wants is in memory, or has to come from its file.
FromMemoryOrDisk(s, c, env) ==
    LET off == s.sc[c].off
        t == IF s.e.release THEN storeSwapOutMaintainMemObject(s) ELSE s
    IN  IF off >= s.e.lo /\ off < s.e.hi
        THEN CopyCallback(t, c, Min({CopySize, s.e.hi - off}), env)
        ELSE storeClientFileRead(s, c)

\* A disk client opens its file before it is given anything.
NeedsFile(s, c) == s.sc[c].type = "disk" /\ s.sc[c].swapin = "none"
CanSwapIn(s, env) == ~env.tooMany /\ s.e.swap # "NONE"
SwapIn(x, state) == [x EXCEPT !.swapin = state]
storeSwapInStart(s, c) ==
    LET t == Asserted(s, ~s.e.inMemory)
    IN  WithClient(t, c, SwapIn(t.sc[c], IF AsyncCreate THEN "opening" ELSE "open"))

\* Mutant: nobody polls the server again.
WaitQuietly(s) == s

WaitForMore(s) ==
    IF s.e.defer /\ storeLowestMemReaderOffset(s) = s.e.hi
    THEN storeResumeRead(s) ELSE s

storeClientCopy3(s, c, env) ==
    IF storeClientNoMoreToSend(s, c) THEN CopyCallback(s, c, 0, env)
    ELSE IF s.e.store = "PENDING" /\ s.sc[c].off >= s.e.hi THEN WaitForMore(s)
    ELSE IF NeedsFile(s, c) /\ ~CanSwapIn(s, env)
    THEN CopyCallback(s, c, -1, env)
    ELSE FromMemoryOrDisk(IF NeedsFile(s, c) THEN storeSwapInStart(s, c) ELSE s,
                          c, env)

storeClientCopy2(s, c, env) ==
    IF s.sc[c].event THEN s ELSE storeClientCopy3(s, c, env)

storeClientCopy(s, c, env) == storeClientCopy2(Ask(s, c, env), c, env)

Invoke(s, c, env) == IF s.sc[c].st = "waiting" /\ s.sc[c].io = -1
                     THEN storeClientCopy2(s, c, env) ELSE s
InvokeHandlers(s, env) ==
    LET list == SetToSeq(Clients)
        after[i \in 0..Cardinality(Clients)] ==
            IF i = 0 THEN s ELSE Invoke(after[i - 1], list[i], env)
    IN  after[Cardinality(Clients)]

\* storeAbort, and storeRequestFailed of an object that has begun
Aborted(x) == [x EXCEPT !.release = TRUE, !.aborted = TRUE, !.inMemory = FALSE,
                        !.store = "OK", !.defer = FALSE, !.left = FALSE,
                        !.object_sz = x.hi]
storeAbort(s, env) ==
    storeSwapOutFileClose(InvokeHandlers(WithEntry(s, Aborted(s.e)), env))

\* storeUnlockObject, once nothing holds the entry
Unlocked(s) ==
    LET held == \/ Registered(s) # {} \/ s.e.store = "PENDING"
                \/ s.e.swap = "WRITING"
    IN  IF held THEN s
        ELSE IF s.e.release \/ (s.e.lo > 0 /\ s.e.swap # "DONE")
        THEN WithEntry(s, [NewEntry EXCEPT !.gone = TRUE, !.bad = s.e.bad])
        ELSE IF s.e.hi > 0 /\ s.e.lo = 0
        THEN WithEntry(s, [s.e EXCEPT !.inMemory = TRUE])
        ELSE WithEntry(s, [NewEntry EXCEPT !.store = "OK", !.swap = "DONE",
                                           !.file = s.e.file, !.bad = s.e.bad])

AbortIfLast(s, env, quick) ==
    IF quick /\ Registered(s) = {} /\ s.e.store = "PENDING"
    THEN storeAbort(s, env) ELSE s
storeClientUnregister(s, c, env, quick) ==
    LET t == WithClient(WithEntry(s, [s.e EXCEPT !.left = s.e.defer]), c, Out)
        u == IF t.e.store = "OK" /\ t.e.swap # "DONE"
             THEN storeSwapOut(t, env) ELSE t
    IN  Unlocked(AbortIfLast(storeSwapOutMaintainMemObject(u), env, quick))
-----------------------------------------------------------------------------
Outcome(S) == \E s \in S : e' = s.e /\ sc' = s.sc
Live == ~e.gone

\* A client finds the entry by its key, which it loses when it is released.
storeClientRegister(c) ==
    /\ Live /\ ~e.release /\ sc[c].st = "out"
    /\ sc' = [sc EXCEPT ![c] = [NewClient EXCEPT !.type = storeClientType(State)]]
    /\ UNCHANGED e

Copy(c) ==
    /\ sc[c].st = "ready"
    /\ Outcome({storeClientCopy(State, c, env) : env \in Environments({c})})

storeClientCopyEvent(c) ==
    LET s == WithClient(State, c, Event(sc[c], FALSE))
    IN  /\ sc[c].event
        /\ Outcome({IF sc[c].st # "waiting" THEN s
                    ELSE storeClientCopy2(s, c, env) : env \in Environments({c})})

\* The client closes: it was told that there is no more, or it gave up.
Unregister(c) ==
    /\ sc[c].st # "out"
    /\ Outcome({storeClientUnregister(State, c, env, quick) :
                    env \in Environments({}), quick \in {FALSE, Registered(State) = {c}}})

\* the client's file is opened, or cannot be (storeSwapInFileClosed)
OpenDone(c) ==
    LET s == WithClient(storeReleaseRequest(State), c,
                        [sc[c] EXCEPT !.swapin = "none", !.failed = TRUE, !.io = -1])
        t == IF sc[c].st = "waiting" THEN storeClientCallback(s, c, -1) ELSE s
    IN  /\ sc[c].swapin = "opening"
        /\ \/ /\ ~(InOrder /\ e.opening)
              /\ Outcome({WithClient(State, c, SwapIn(sc[c], "open"))})
           \/ Outcome({t})

\* A read returns what was in the file when a thread did it, or an error.
ReadLengths(c) ==
    {Min({CopySize, Max({0, n - sc[c].off})}) : n \in sc[c].io..e.file}
ReadFailed(s, c) ==
    LET t == storeClientCallback(s, c, -1)
    IN  WithClient(t, c, [t.sc[c] EXCEPT !.failed = TRUE])
storeClientReadBody(c) ==
    LET s == WithClient(State, c, InFile(sc[c], -1))
    IN  /\ e.hdr /\ sc[c].io >= 0 /\ sc[c].swapin = "open"
        /\ Outcome({storeClientCallback(s, c, n) : n \in ReadLengths(c)}
                   \cup {ReadFailed(s, c)})

\* The file's first bytes: the header, which leaves less room for the object,
\* and then the object from its beginning, whatever offset was asked for.
storeClientReadHeader(c) ==
    LET s    == WithClient(State, c, InFile(sc[c], -1))
        t    == WithEntry(s, [e EXCEPT !.hdr = TRUE, !.object_sz = e.file])
        body == Min({CopySize - 1, e.file})
        u    == IF sc[c].off < body
                THEN storeClientCallback(Asserted(t, sc[c].off = 0), c, body)
                ELSE storeClientFileRead(t, c)
    IN  /\ ~e.hdr /\ sc[c].io >= 0 /\ sc[c].swapin = "open"
        /\ Outcome({u, ReadFailed(s, c)})

\* fwdCheckDeferRead, of a descriptor that is not deferred yet
TooFarAhead ==
    \/ /\ e.release
       /\ e.hi - e.lo > SM_PAGE_SIZE + maxInMemObjSize + readAheadGap
    \/ e.hi - storeLowestMemReaderOffset(State) > readAheadGap

Readable == Live /\ e.store = "PENDING" /\ ~e.defer
DeferRead ==
    /\ Readable /\ TooFarAhead
    /\ e' = [e EXCEPT !.defer = TRUE]
    /\ UNCHANGED sc

storeAppend(n) ==
    LET s == WithEntry(State, [e EXCEPT !.hi = @ + n])
    IN  /\ Readable /\ ~TooFarAhead
        /\ \E size \in ObjectSizes : e.hi + n <= size
        /\ Outcome({storeSwapOut(InvokeHandlers(s, env), env) :
                        env \in Environments(Reading)})

storeComplete ==
    LET s == WithEntry(State, [e EXCEPT !.store = "OK", !.object_sz = e.hi])
    IN  /\ Readable /\ ~TooFarAhead /\ e.hi \in ObjectSizes
        /\ Outcome({Unlocked(InvokeHandlers(storeSwapOut(s, env), env)) :
                        env \in Environments(Reading)})

\* The server's connection breaks, or times out.
storeRequestFailed ==
    /\ Live /\ e.store = "PENDING" /\ e.hi > 0
    /\ Outcome({Unlocked(storeAbort(State, env)) : env \in Environments(Reading)})

\* Mutant: the file is closed before what was queued is written.
CreateDoneUnwritten ==
    /\ e.opening
    /\ Outcome({IF e.closing THEN Unlocked(storeSwapOutFileClosed(State, FALSE))
                ELSE WithEntry(State, [e EXCEPT !.opening = FALSE, !.file = e.queue]),
                Unlocked(storeSwapOutFileClosed(State, TRUE))})

\* The file is there: what was queued is written, and it is closed if it was
\* to be.  Or it could not be created or written.
CreateDone ==
    LET s == WithEntry(State, [e EXCEPT !.opening = FALSE, !.file = e.queue])
    IN  /\ e.opening
        /\ Outcome({IF e.closing THEN Unlocked(storeSwapOutFileClosed(s, FALSE))
                    ELSE s,
                    Unlocked(storeSwapOutFileClosed(State, TRUE))})

\* The next request for the object finds nothing and fetches it again.
storeCreateEntry ==
    /\ e.gone
    /\ e' = [NewEntry EXCEPT !.bad = e.bad]
    /\ sc' = [sc EXCEPT ![First] = NewClient]

Init == /\ e = NewEntry
        /\ sc = [c \in Clients |-> IF c = First THEN NewClient ELSE Out]

Next == \/ \E c \in Clients :
              \/ storeClientRegister(c) \/ Copy(c) \/ storeClientCopyEvent(c)
              \/ Unregister(c) \/ OpenDone(c)
              \/ storeClientReadBody(c) \/ storeClientReadHeader(c)
        \/ DeferRead \/ storeComplete \/ storeRequestFailed
        \/ \E n \in 1..CopySize : storeAppend(n)
        \/ CreateDone \/ storeCreateEntry

Spec == Init /\ [][Next]_vars

\* squid's loop reads every descriptor that is ready, runs its events and
\* collects what the threads did; a client asks for more, or leaves, when it
\* has sent what it got.  Each line is weak fairness, with what enables the
\* step on its left.
Served == e'.hi # e.hi \/ e'.store # e.store \/ e'.defer # e.defer
Created == ~e'.opening
Changed(c) == sc'[c] # sc[c]
EventRun(c) == ~sc'[c].event
FairSpec ==
    /\ Spec
    /\ []<>~Readable \/ []<><<Served>>_vars
    /\ []<>~e.opening \/ []<><<Created>>_vars
    /\ \A c \in Clients :
          /\ []<>(sc[c].st \in {"out", "waiting"}) \/ []<><<Changed(c)>>_vars
          /\ []<>~sc[c].event \/ []<><<EventRun(c)>>_vars
          /\ []<>(sc[c].swapin # "opening") \/ []<><<Changed(c)>>_vars
          /\ []<>(sc[c].io = -1) \/ []<><<Changed(c)>>_vars
-----------------------------------------------------------------------------
\* Offsets are in order, and every part of the state is of its type.
TypeOK ==
    /\ e \in Entries
    /\ sc \in [Clients -> StoreClients]
    /\ e.lo <= e.hi

\* No assertion of storeSwapOut, storeClientCopy3, storeClientFileRead,
\* storeSwapInStart or storeSwapOutFileClosed fails; the page storeSwapOut goes
\* on from is never freed, the pages reach the file in order, and the data
\* that follows a swap header goes only to a client that asked for byte 0.
NoAssertFails == ~e.bad

\* The state of the object and of its clients is one the code expects.
TransferConsistent == TypeOK /\ NoAssertFails

\* The next byte of a client that has begun to be served is never lost: it is
\* in memory or will be, or it was given to the file the client reads from
\* (storeSwapOutMaintainMemObject against storeClientCopy3), unless the disk
\* failed.
NextByteKept ==
    \A c \in Reading :
        sc[c].got > 0 /\ ~sc[c].failed =>
            \/ sc[c].got >= e.lo
            \/ sc[c].type = "disk" /\ sc[c].got < e.queue

\* A client is told that there is no more only when it has the whole object,
\* wherever its bytes came from, and one that was given something is cut off
\* only by an error of the disk: too many open files, or a file that was never
\* made, are met before that.
EndIsWhole ==
    \A c \in Clients :
        /\ sc[c].st = "end" /\ ~sc[c].failed => sc[c].got = e.object_sz
        /\ sc[c].st = "cut" /\ sc[c].got > 0 => sc[c].failed

\* A file that counts as swapped out, and is not to be released, holds the
\* whole of a complete object, though its last page was not full and its pages
\* were queued before it was created.
FileIsWhole ==
    e.swap = "DONE" /\ ~e.release =>
        e.store = "OK" /\ (e.object_sz >= 0 => e.file = e.object_sz)

\* The server is not read from, and every client waits for more from it.
Stalled ==
    /\ e.defer
    /\ Registered(State) # {}
    /\ \A c \in Registered(State) :
           sc[c].st = "waiting" /\ sc[c].off >= e.hi /\ ~sc[c].event

\* "If the read is backed off and all clients have seen all the data in
\* memory, re-poll the fd" (storeClientCopy3).  Not so when the slowest of them
\* leaves: storeClientUnregister polls again only if that frees enough memory.
RepolledWhenAllSeen == ~Stalled

\* Unless the server is left unread in that way, by a client that went away,
\* one that waits is called back (storeClientCopy3, fwdCheckDeferRead,
\* storeSwapOutMaintainMemObject), provided that newcomers, who start from the
\* beginning and hold the server back, do not arrive for ever.
Newcomers == \E c \in Clients : storeClientRegister(c)
ClientServed ==
    <>[][~Newcomers]_vars =>
        \A c \in Clients :
            sc[c].st = "waiting" ~> (sc[c].st # "waiting" \/ (Stalled /\ e.left))
=============================================================================
