--------------------------- MODULE TransferProofs ---------------------------
(* What Transfer promises for objects, pages and buffers of every size and   *)
(* any number of clients.  The entry is looked at by itself (EntryOkay), and *)
(* each client beside the entry (ClientOkay), never two clients together.    *)
EXTENDS Transfer, QueueLemmas, TLAPS

\* a page starts there
Aligned(n) == PageOf(n) = n
\* the object is in its file only
DiskOnly(x) == x.hi = 0 /\ x.swap = "DONE"

\* Whole pages are queued, but for the last one of a complete object, and the
\* page queued last is in memory unless nothing will be queued any more.
Offsets(x) ==
    /\ x.lo = 0 \/ x.lo < x.hi
    /\ x.queue <= x.hi
    /\ Aligned(x.queue) \/ (x.store = "OK" /\ x.queue = x.hi)
    /\ x.node = IF x.queue = 0 THEN -1 ELSE PageOf(x.queue - 1)
    /\ x.lo = 0 \/ x.lo <= x.node \/ (x.release /\ ~x.sio)

\* the file while it is created, written and closed
Writing(x) ==
    /\ x.swap = "WRITING" <=> x.sio \/ x.closing
    /\ x.opening => x.swap = "WRITING" /\ AsyncCreate
    /\ x.closing => x.opening /\ ~x.sio
    /\ x.closing => x.release \/ (x.store = "OK" /\ x.queue = x.hi)
    /\ x.swap = "WRITING" => x.hi > 0
    /\ x.sio /\ x.opening => x.lo = 0

\* what is in the file
InTheFile(x) ==
    /\ x.swap # "NONE" => x.hdr \/ DiskOnly(x)
    /\ x.swap = "NONE" /\ ~x.release => x.queue = 0 /\ x.lo = 0 /\ x.file = 0
    /\ ~DiskOnly(x) => x.file <= x.queue
    /\ x.swap # "NONE" /\ x.hi > 0 /\ ~x.opening =>
          x.file = x.queue \/ (x.inMemory /\ x.release)
    /\ x.opening /\ ~x.inMemory => x.file = 0
    /\ x.swap = "DONE" /\ ~x.release => x.store = "OK" /\ x.queue = x.hi

\* the object's length, and where all of it is
WholeObject(x) ==
    /\ x.store = "PENDING" => x.object_sz = -1
    /\ x.store = "OK" /\ ~DiskOnly(x) => x.object_sz = x.hi
    /\ x.store = "OK" /\ x.hi = 0 /\ ~x.release => x.swap = "DONE"
    /\ x.aborted => x.release
    /\ x.inMemory => x.store = "OK" /\ x.hi > 0 /\ x.lo = 0
    /\ DiskOnly(x) => /\ x.store = "OK" /\ x.file > 0
                      /\ x.object_sz = IF x.hdr THEN x.file ELSE -1

EntryOkay(x) == /\ x \in Entries /\ ~x.bad
                /\ Offsets(x) /\ Writing(x) /\ InTheFile(x) /\ WholeObject(x)

\* Memory is not freed before a client of memory has it, and for a client of
\* the file only up to what is queued.
Place(x, y) ==
    /\ y.off <= y.got
    /\ y.st = "waiting" => y.off = y.got
    /\ y.got <= x.hi \/ (DiskOnly(x) /\ x.hdr /\ y.got <= x.object_sz)
    /\ y.type = "mem" => y.off >= x.lo
    /\ y.type = "disk" => y.off >= x.lo \/ x.lo < x.queue

\* where a client's bytes come from
Source(x, y) ==
    /\ DiskOnly(x) => y.type = "disk"
    /\ x.inMemory => y.type = "mem"
    /\ y.type = "disk" => \/ x.hdr /\ (x.hi > 0 \/ DiskOnly(x))
                          \/ DiskOnly(x) /\ y.got = 0
    /\ y.type = "disk" /\ x.swap = "NONE" => y.failed /\ x.release
    /\ y.swapin # "none" => y.type = "disk"
    /\ y.type = "disk" /\ y.got > 0 /\ ~y.failed => y.swapin # "none"
    /\ y.io >= 0 => y.type = "disk" /\ y.st = "waiting" /\ ~y.event
    /\ ~x.gone

\* A read finds something: the file was there when it was queued.
Ends(x, y) ==
    /\ y.st = "cut" /\ y.got > 0 => y.failed
    /\ InOrder =>
        /\ x.opening => y.swapin # "open"
        /\ x.opening /\ y.type = "disk" /\ y.got > 0 /\ ~y.failed => y.got >= x.lo
        /\ y.io >= 0 /\ y.off > 0 /\ ~y.failed => y.io > y.off
        /\ y.st = "end" /\ ~y.failed => x.store = "OK" /\ y.got = x.object_sz

ClientOkay(x, y) == /\ y \in StoreClients
                    /\ IF y.st = "out" THEN y = Out
                       ELSE Place(x, y) /\ Source(x, y) /\ Ends(x, y)

Okay(s) == /\ EntryOkay(s.e)
           /\ s.sc \in [Clients -> StoreClients]
           /\ \A c \in Clients : ClientOkay(s.e, s.sc[c])

TransferInv == Okay(State)

\* Two entries agree on the object, on the file's state and on its contents.
SameObject(x, y) == /\ y.store = x.store /\ y.aborted = x.aborted
                    /\ y.inMemory = x.inMemory /\ y.gone = x.gone
                    /\ y.hi = x.hi /\ y.object_sz = x.object_sz /\ y.bad = x.bad
SameSwap(x, y) == /\ y.swap = x.swap /\ y.release = x.release /\ y.hdr = x.hdr
                  /\ y.sio = x.sio /\ y.opening = x.opening /\ y.closing = x.closing
SameFile(x, y) == y.queue = x.queue /\ y.node = x.node /\ y.file = x.file

\* what swapping out leaves alone: the object, that it is released and, but for
\* a lost file, the clients
Frame(s, t) == /\ SameObject(s.e, t.e)
               /\ s.e.release => t.e.release
               /\ \A c \in Clients :
                     t.sc[c] = s.sc[c] \/ t.sc[c] = FileLost(s.sc[c], TRUE)
-----------------------------------------------------------------------------
(* Pages: a page starts at or before what is in it, and less than a page     *)
(* before; pages do not overlap.                                             *)
LEMMA PageStart ==
  ASSUME NEW n \in Nat
  PROVE  /\ PageOf(n) \in Nat /\ PageOf(n) <= n /\ n < PageOf(n) + SM_PAGE_SIZE
         /\ Aligned(PageOf(n))
  <1> DEFINE P == SM_PAGE_SIZE
             k == n \div P
  <1>1. P \in Nat \ {0}
    BY TransferAssumption
  <1>2. k \in Nat /\ k * P <= n /\ n < k * P + P
    BY <1>1
  <1>3. (k * P) \div P = k
    <2>1. k * P \in Nat /\ k * P < k * P + P
      BY <1>1, <1>2
    <2> HIDE DEF k, P
    <2> QED
      BY <1>1, <1>2, <2>1
  <1> QED
    BY <1>1, <1>2, <1>3 DEF PageOf, Aligned

LEMMA PageOrder ==
  ASSUME NEW m \in Nat, NEW n \in Nat, m <= n
  PROVE  PageOf(m) <= PageOf(n)
  <1> DEFINE P == SM_PAGE_SIZE
             j == m \div P
             k == n \div P
  <1>1. P \in Nat \ {0}
    BY TransferAssumption
  <1>2. /\ k \in Nat /\ k * P <= n /\ n < k * P + P
        /\ j \in Nat /\ j * P <= m /\ m < j * P + P
        /\ k * P \in Nat /\ j * P \in Nat
    BY <1>1
  <1>3. j <= k
    <2> HIDE DEF j, k, P
    <2>1. k < j => k * P + P <= j * P
      BY <1>1, <1>2
    <2> QED
      BY <1>1, <1>2, <2>1
  <1>4. j * P <= k * P
    <2> HIDE DEF j, k, P
    <2> QED
      BY <1>1, <1>2, <1>3
  <1> QED
    BY <1>4 DEF PageOf

LEMMA NextPageAligned ==
  ASSUME NEW n \in Nat, Aligned(n)
  PROVE  /\ Aligned(n + SM_PAGE_SIZE)
         /\ \A m \in Nat : n <= m /\ m < n + SM_PAGE_SIZE => PageOf(m) = n
         /\ n > 0 => PageOf(n - 1) = n - SM_PAGE_SIZE
  <1> DEFINE P == SM_PAGE_SIZE
             k == n \div P
  <1>1. P \in Nat \ {0}
    BY TransferAssumption
  <1>2. k \in Nat /\ n = k * P
    BY <1>1 DEF Aligned, PageOf
  <1>3. ASSUME NEW m \in Nat, NEW j \in Nat, j * P <= m, m < j * P + P
        PROVE  PageOf(m) = j * P
    <2>1. m \div P = j
      <3> HIDE DEF k, P
      <3> QED
        BY <1>1, <1>3
    <2> QED
      BY <2>1 DEF PageOf
  <1> HIDE DEF k
  <1>4. Aligned(n + P)
    <2>1. (k + 1) * P = n + P /\ n + P \in Nat
      BY <1>1, <1>2
    <2>2. PageOf(n + P) = (k + 1) * P
      BY <2>1, <1>1, <1>2, <1>3
    <2> QED
      BY <2>1, <2>2 DEF Aligned
  <1>5. \A m \in Nat : n <= m /\ m < n + P => PageOf(m) = n
    BY <1>2, <1>3
  <1>6. ASSUME n > 0 PROVE PageOf(n - 1) = n - P
    <2>1. k # 0
      BY <1>1, <1>2, <1>6
    <2>2. k - 1 \in Nat /\ (k - 1) * P = n - P
      BY <1>1, <1>2, <2>1
    <2>3. n - 1 \in Nat /\ n - P <= n - 1 /\ n - 1 < (n - P) + P
      BY <1>1, <1>6
    <2> QED
      BY <2>2, <2>3, <1>3
  <1> QED
    BY <1>4, <1>5, <1>6
-----------------------------------------------------------------------------
(* The smaller and the greater of two numbers.                               *)
LEMMA OfTwo ==
  ASSUME NEW a \in Int, NEW b \in Int
  PROVE  /\ Min({a, b}) = IF a <= b THEN a ELSE b
         /\ Max({a, b}) = IF a <= b THEN b ELSE a
  <1>1. Min({a, b}) = CHOOSE x \in {a, b} : \A y \in {a, b} : x <= y
    BY DEF Min
  <1>2. Max({a, b}) = CHOOSE x \in {a, b} : \A y \in {a, b} : x >= y
    BY DEF Max
  <1> QED
    BY <1>1, <1>2

(* The least of a set of naturals is in it.                                  *)
LEMMA LeastOf ==
  ASSUME NEW T \in SUBSET Nat, T # {}
  PROVE  Min(T) \in T /\ \A n \in T : Min(T) <= n
  <1>1. \E n \in T : \A m \in T : n <= m
    BY LeastNatural
  <1>2. Min(T) = CHOOSE x \in T : \A y \in T : x <= y
    BY DEF Min
  <1> QED
    BY <1>1, <1>2

(* The greatest of a bounded set is in it.                                   *)
LEMMA GreatestOf ==
  ASSUME NEW T \in SUBSET Nat, NEW b \in Nat, \A n \in T : n <= b
  PROVE  Max(T \cup {-1}) \in T \cup {-1}
  <1> DEFINE U == {u \in Nat : \A n \in T : n < u}
             G == T \cup {-1}
  <1>1. b + 1 \in U
    OBVIOUS
  <1>2. PICK u \in U : \A m \in U : u <= m
    BY <1>1, LeastNatural
  <1>3. u - 1 \in G
    <2>1. CASE u = 0
      BY <2>1
    <2>2. CASE u # 0 /\ u - 1 \notin T
      <3>1. \A n \in T : n < u - 1
        BY <2>2, <1>2
      <3>2. u - 1 \in U
        BY <3>1, <2>2, <1>2
      <3> QED
        BY <3>2, <1>2
    <2> QED
      BY <2>1, <2>2
  <1>4. \A n \in G : u - 1 >= n
    BY <1>2
  <1>5. Max(G) = CHOOSE x \in G : \A y \in G : x >= y
    BY DEF Max
  <1> QED
    BY <1>3, <1>4, <1>5
-----------------------------------------------------------------------------
(* What each change of the entry changes.                                    *)
LEMMA AssertedSame ==
  ASSUME NEW s, s.e \in Entries, NEW p, p
  PROVE  Asserted(s, p).e = s.e /\ Asserted(s, p).sc = s.sc
  <1> DEFINE y == [s.e EXCEPT !.bad = @ \/ ~p]
             t == Asserted(s, p)
  <1>1. t = [e |-> y, sc |-> s.sc]
    BY DEF Asserted, WithEntry
  <1>2. y = s.e
    BY DEF Entries
  <1> HIDE DEF y, t
  <1>3. t.e = s.e /\ t.sc = s.sc
    BY <1>1, <1>2
  <1> QED
    BY <1>3 DEF t

LEMMA ReleasedEntry ==
  ASSUME NEW s, s.e \in Entries
  PROVE  LET y == storeReleaseRequest(s).e
         IN  /\ y \in Entries /\ SameObject(s.e, y) /\ SameFile(s.e, y)
             /\ y.lo = s.e.lo /\ y.release /\ y.swap = s.e.swap /\ y.hdr = s.e.hdr
             /\ y.sio = s.e.sio /\ y.opening = s.e.opening /\ y.closing = s.e.closing
             /\ storeReleaseRequest(s).sc = s.sc
  BY DEF storeReleaseRequest, WithEntry, Entries, SameObject, SameFile

LEMMA ResumedEntry ==
  ASSUME NEW s, s.e \in Entries
  PROVE  LET y == storeResumeRead(s).e
         IN  /\ y \in Entries /\ SameObject(s.e, y) /\ SameFile(s.e, y)
             /\ SameSwap(s.e, y) /\ y.lo = s.e.lo /\ storeResumeRead(s).sc = s.sc
  BY DEF storeResumeRead, WithEntry, Entries, SameObject, SameFile, SameSwap

LEMMA FreedEntry ==
  ASSUME NEW s, s.e \in Entries, NEW upto, stmemFreeDataUpto(s, upto) \in Nat
  PROVE  LET y == Freed(s, upto).e
         IN  /\ y \in Entries /\ SameObject(s.e, y) /\ SameFile(s.e, y)
             /\ SameSwap(s.e, y) /\ y.lo = stmemFreeDataUpto(s, upto)
             /\ Freed(s, upto).sc = s.sc
  BY DEF Freed, WithEntry, Entries, SameObject, SameFile, SameSwap

LEMMA ClosedEntry ==
  ASSUME NEW x \in Entries, NEW err \in BOOLEAN
  PROVE  LET y == Closed(x, err)
         IN  /\ y \in Entries /\ SameObject(x, y) /\ SameFile(x, y)
             /\ y.lo = x.lo /\ y.swap = IF err THEN "NONE" ELSE "DONE"
             /\ (y.release <=> x.release \/ err) /\ y.hdr = x.hdr
             /\ ~y.sio /\ ~y.opening /\ ~y.closing
  <1> DEFINE w == IF err THEN "NONE" ELSE "DONE"
             r == x.release \/ err
  <1>1. w \in {"NONE", "WRITING", "DONE"} /\ r \in BOOLEAN
    BY DEF Entries
  <1>2. Closed(x, err) = [x EXCEPT !.swap = w, !.release = r, !.sio = FALSE,
                                   !.opening = FALSE, !.closing = FALSE]
    BY DEF Closed
  <1> HIDE DEF w, r
  <1>3. Closed(x, err) \in Entries
    BY <1>1, <1>2 DEF Entries
  <1>4. SameObject(x, Closed(x, err)) /\ SameFile(x, Closed(x, err))
    BY <1>2 DEF Entries, SameObject, SameFile
  <1>5. /\ Closed(x, err).lo = x.lo /\ Closed(x, err).swap = w
        /\ Closed(x, err).release = r /\ Closed(x, err).hdr = x.hdr
    BY <1>2 DEF Entries
  <1>6. ~Closed(x, err).sio /\ ~Closed(x, err).opening /\ ~Closed(x, err).closing
    BY <1>2 DEF Entries
  <1> QED
    BY <1>3, <1>4, <1>5, <1>6 DEF w, r

LEMMA FailedEntry ==
  ASSUME NEW x \in Entries
  PROVE  LET y == Closed(x, TRUE)
         IN  /\ y \in Entries /\ SameObject(x, y) /\ SameFile(x, y)
             /\ y.lo = x.lo /\ y.swap = "NONE" /\ y.release /\ y.hdr = x.hdr
             /\ ~y.sio /\ ~y.opening /\ ~y.closing
  <1> DEFINE y == Closed(x, TRUE)
  <1>1. y = [x EXCEPT !.swap = "NONE", !.release = TRUE, !.sio = FALSE,
                      !.opening = FALSE, !.closing = FALSE]
    BY DEF Closed
  <1> HIDE DEF y
  <1>2. y \in Entries
    BY <1>1 DEF Entries
  <1>3. SameObject(x, y) /\ SameFile(x, y)
    BY <1>1 DEF Entries, SameObject, SameFile
  <1>4. y.lo = x.lo /\ y.swap = "NONE" /\ y.release /\ y.hdr = x.hdr
    BY <1>1 DEF Entries
  <1>5. ~y.sio /\ ~y.opening /\ ~y.closing
    BY <1>1 DEF Entries
  <1> QED
    BY <1>2, <1>3, <1>4, <1>5 DEF y

LEMMA CloseLaterEntry ==
  ASSUME NEW s, s.e \in Entries
  PROVE  LET y == CloseLater(s).e
         IN  /\ y \in Entries /\ SameObject(s.e, y) /\ SameFile(s.e, y)
             /\ y.lo = s.e.lo /\ y.swap = s.e.swap /\ y.release = s.e.release
             /\ y.hdr = s.e.hdr /\ y.opening = s.e.opening /\ ~y.sio /\ y.closing
             /\ CloseLater(s).sc = s.sc
  BY DEF CloseLater, WithEntry, Entries, SameObject, SameFile

LEMMA OpenedEntry ==
  ASSUME NEW x \in Entries
  PROVE  LET y == FileOpened(x)
         IN  /\ y \in Entries /\ SameObject(x, y) /\ SameFile(x, y)
             /\ y.lo = x.lo /\ y.swap = "WRITING" /\ y.release = x.release
             /\ y.hdr /\ y.opening = AsyncCreate /\ y.sio /\ y.closing = x.closing
  <1>1. AsyncCreate \in BOOLEAN
    BY TransferAssumption
  <1> DEFINE y == FileOpened(x)
  <1>2. y \in Entries
    BY <1>1 DEF FileOpened, Entries
  <1>3. SameObject(x, y) /\ SameFile(x, y)
    BY DEF FileOpened, Entries, SameObject, SameFile
  <1>4. y.lo = x.lo /\ y.swap = "WRITING" /\ y.release = x.release
    BY DEF FileOpened, Entries
  <1>5. y.hdr /\ y.opening = AsyncCreate /\ y.sio /\ y.closing = x.closing
    BY DEF FileOpened, Entries
  <1> QED
    BY <1>2, <1>3, <1>4, <1>5

LEMMA QueuedEntry ==
  ASSUME NEW x \in Entries, NEW start \in Nat, NEW len \in Nat
  PROVE  LET y == PageQueued(x, start, len)
         IN  /\ y \in Entries /\ SameObject(x, y) /\ SameSwap(x, y) /\ y.lo = x.lo
             /\ y.node = start /\ y.queue = x.queue + len /\ y.file = x.file
  <1> DEFINE q == x.queue + len
             y == PageQueued(x, start, len)
  <1>1. q \in Nat
    BY DEF Entries
  <1>2. y = [x EXCEPT !.node = start, !.queue = q]
    BY DEF PageQueued
  <1> HIDE DEF q, y
  <1>3. y \in Entries /\ SameObject(x, y)
    BY <1>1, <1>2 DEF Entries, SameObject
  <1>4. SameSwap(x, y) /\ y.lo = x.lo
    BY <1>2 DEF Entries, SameSwap
  <1>5. y.node = start /\ y.queue = q /\ y.file = x.file
    BY <1>2 DEF Entries
  <1> QED
    BY <1>3, <1>4, <1>5 DEF q, y

LEMMA WrittenEntry ==
  ASSUME NEW x \in Entries, NEW len \in Nat
  PROVE  LET y == PageWritten(x, len)
         IN  /\ y \in Entries /\ SameObject(x, y) /\ SameSwap(x, y) /\ y.lo = x.lo
             /\ y.node = x.node /\ y.queue = x.queue /\ y.file = x.file + len
  BY DEF PageWritten, Entries, SameObject, SameSwap
-----------------------------------------------------------------------------
(* What each change of a client changes.                                     *)
LEMMA LostClient ==
  ASSUME NEW y \in StoreClients, NEW err \in BOOLEAN
  PROVE  LET z == FileLost(y, err)
         IN  /\ z \in StoreClients
             /\ z.type = y.type /\ z.st = y.st /\ z.off = y.off /\ z.got = y.got
             /\ z.event = y.event /\ z.swapin = y.swapin /\ z.io = y.io
             /\ z.failed <=> y.failed \/ (err /\ y.type = "disk")
  <1> DEFINE f == y.failed \/ (err /\ y.type = "disk")
             z == FileLost(y, err)
  <1>1. f \in BOOLEAN
    BY DEF StoreClients
  <1>2. z = [y EXCEPT !.failed = f]
    BY DEF FileLost
  <1> HIDE DEF f, z
  <1>3. z \in StoreClients
    BY <1>1, <1>2 DEF StoreClients
  <1>4. z.type = y.type /\ z.st = y.st /\ z.off = y.off /\ z.got = y.got
    BY <1>2 DEF StoreClients
  <1>5. z.event = y.event /\ z.swapin = y.swapin /\ z.io = y.io /\ z.failed = f
    BY <1>2 DEF StoreClients
  <1> QED
    BY <1>3, <1>4, <1>5 DEF f, z

(* A client of memory, or one that is out, does not lose a file, and nobody  *)
(* loses it twice.                                                           *)
LEMMA LostNothing ==
  ASSUME NEW y \in StoreClients, NEW err \in BOOLEAN
  PROVE  /\ ~err \/ y.type = "mem" \/ y.failed => FileLost(y, err) = y
         /\ FileLost(Out, err) = Out
         /\ FileLost(FileLost(y, TRUE), TRUE) = FileLost(y, TRUE)
  <1>1. ASSUME NEW z \in StoreClients, ~err \/ z.type = "mem" \/ z.failed
        PROVE  FileLost(z, err) = z
    <2> DEFINE f == z.failed \/ (err /\ z.type = "disk")
    <2>1. f = z.failed
      BY <1>1 DEF StoreClients
    <2> HIDE DEF f
    <2>2. [z EXCEPT !.failed = f] = z
      BY <2>1 DEF StoreClients
    <2> QED
      BY <2>2 DEF FileLost, f
  <1>2. Out \in StoreClients /\ Out.type = "mem"
    BY DEF Out, NewClient, StoreClients
  <1>3. ASSUME NEW z \in StoreClients, z.type = "mem" \/ z.failed
        PROVE  FileLost(z, TRUE) = z
    <2> DEFINE f == z.failed \/ (TRUE /\ z.type = "disk")
    <2>1. f = z.failed
      BY <1>3 DEF StoreClients
    <2> HIDE DEF f
    <2>2. [z EXCEPT !.failed = f] = z
      BY <2>1 DEF StoreClients
    <2> QED
      BY <2>2 DEF FileLost, f
  <1>4. FileLost(y, TRUE) \in StoreClients
        /\ (FileLost(y, TRUE).type = "mem" \/ FileLost(y, TRUE).failed)
    BY LostClient DEF StoreClients
  <1> QED
    BY <1>1, <1>2, <1>3, <1>4

(* The invariant of an entry and of its clients depends on what SameObject,  *)
(* SameSwap and SameFile name.                                               *)
LEMMA SameOkay ==
  ASSUME NEW s, NEW t, Okay(s), t.e \in Entries, SameObject(s.e, t.e), SameSwap(s.e, t.e),
         SameFile(s.e, t.e), t.e.lo = s.e.lo, t.sc = s.sc
  PROVE  Okay(t) /\ Frame(s, t)
  <1> DEFINE x == s.e
             y == t.e
  <1>1. EntryOkay(x) /\ \A c \in Clients : ClientOkay(x, s.sc[c])
    BY DEF Okay
  <1>2. EntryOkay(y)
    BY <1>1 DEF EntryOkay, Offsets, Writing, InTheFile, WholeObject, DiskOnly,
                SameObject, SameSwap, SameFile
  <1>3. ASSUME NEW c \in Clients PROVE ClientOkay(y, s.sc[c])
    BY <1>1, <1>3 DEF ClientOkay, Place, Source, Ends, DiskOnly, SameObject, SameSwap, SameFile
  <1> QED
    BY <1>2, <1>3 DEF Okay, Frame, SameSwap

LEMMA FrameTrans ==
  ASSUME NEW r, NEW s, NEW t, r.sc \in [Clients -> StoreClients], Frame(r, s), Frame(s, t)
  PROVE  Frame(r, t)
  <1>1. SameObject(r.e, t.e)
    BY DEF Frame, SameObject
  <1>2. ASSUME NEW c \in Clients
        PROVE  t.sc[c] = r.sc[c] \/ t.sc[c] = FileLost(r.sc[c], TRUE)
    BY <1>2, LostNothing DEF Frame
  <1> QED
    BY <1>1, <1>2 DEF Frame

LEMMA FrameSame ==
  ASSUME NEW s
  PROVE  Frame(s, s)
  BY DEF Frame, SameObject
-----------------------------------------------------------------------------
(* The lowest reader's offset is not beyond any client that holds memory.    *)
LEMMA LowestHolds ==
  ASSUME NEW s, Okay(s)
  PROVE  /\ storeLowestMemReaderOffset(s) \in Nat
         /\ \A c \in Clients :
               s.sc[c].st # "out" /\ (s.sc[c].type = "mem" \/ ~s.e.sio) =>
                   storeLowestMemReaderOffset(s) <= s.sc[c].off
  <1> DEFINE holding == {c \in Registered(s) : ~(s.e.sio /\ s.sc[c].type # "mem")}
             A == {s.sc[c].off : c \in Registered(s)}
             L == {s.sc[c].off : c \in holding} \cup {s.e.hi + 1}
             highest == Max(A \cup {-1})
             lowest == Min(L)
             bound == IF s.e.hi > s.e.object_sz THEN s.e.hi ELSE s.e.object_sz
  <1>1. s.e \in Entries /\ \A c \in Clients : s.sc[c] \in StoreClients
    BY DEF Okay, EntryOkay
  <1>2. bound \in Nat /\ s.e.hi + 1 \in Nat
    BY <1>1 DEF Entries
  <1>3. ASSUME NEW c \in Registered(s)
        PROVE  s.sc[c].off \in Nat /\ s.sc[c].off <= bound
    <2>1. c \in Clients /\ s.sc[c].st # "out"
      BY <1>3 DEF Registered
    <2>2. Place(s.e, s.sc[c])
      BY <2>1 DEF Okay, ClientOkay
    <2>3. s.sc[c].off \in Nat /\ s.sc[c].got \in Nat
      BY <2>1, <1>1 DEF StoreClients
    <2>4. s.e.hi \in Nat /\ s.e.object_sz \in Int
      BY <1>1 DEF Entries
    <2> QED
      BY <2>2, <2>3, <2>4 DEF Place
  <1>4. A \subseteq Nat /\ \A n \in A : n <= bound
    BY <1>3
  <1>5. L \subseteq Nat /\ L # {}
    BY <1>2, <1>3
  <1>6. highest \in A \cup {-1}
    <2> HIDE DEF A, bound
    <2> QED
      BY <1>2, <1>4, GreatestOf
  <1>7. lowest \in L /\ \A n \in L : lowest <= n
    <2> HIDE DEF L
    <2> QED
      BY <1>5, LeastOf
  <1>8. storeLowestMemReaderOffset(s) =
           IF highest < lowest /\ highest >= 0 THEN highest ELSE lowest
    BY DEF storeLowestMemReaderOffset
  <1>9. /\ storeLowestMemReaderOffset(s) \in Nat
        /\ storeLowestMemReaderOffset(s) <= lowest
    <2>1. highest \in Int /\ lowest \in Nat
      BY <1>4, <1>5, <1>6, <1>7
    <2> HIDE DEF highest, lowest
    <2> QED
      BY <2>1, <1>8
  <1>10. ASSUME NEW c \in Clients, s.sc[c].st # "out", s.sc[c].type = "mem" \/ ~s.e.sio
         PROVE  lowest <= s.sc[c].off
    <2>1. c \in holding
      BY <1>10 DEF Registered
    <2>2. s.sc[c].off \in L
      BY <2>1
    <2> HIDE DEF L, lowest
    <2> QED
      BY <2>2, <1>7
  <1>11. ASSUME NEW c \in Clients, s.sc[c].st # "out", s.sc[c].type = "mem" \/ ~s.e.sio
         PROVE  storeLowestMemReaderOffset(s) <= s.sc[c].off
    <2>1. lowest <= s.sc[c].off
      BY <1>10, <1>11
    <2>2. lowest \in Nat /\ s.sc[c].off \in Nat
      BY <1>1, <1>5, <1>7, <1>11 DEF StoreClients
    <2> HIDE DEF lowest
    <2> QED
      BY <2>1, <2>2, <1>9
  <1> QED
    BY <1>9, <1>11

(* Freeing moves inmem_lo forward to a page boundary, neither beyond what    *)
(* was asked nor to the end of the object.                                   *)
LEMMA FreeBound ==
  ASSUME NEW s, s.e \in Entries, NEW upto \in Int, s.e.lo < upto
  PROVE  LET new == stmemFreeDataUpto(s, upto)
         IN  /\ new \in Nat /\ s.e.lo <= new
             /\ \/ new = s.e.lo
                \/ s.e.hi > 0 /\ new <= PageOf(upto) /\ new <= upto /\ new < s.e.hi
  <1> DEFINE a == PageOf(upto)
             b == PageOf(s.e.hi - 1)
             m == Min({a, b})
             new == stmemFreeDataUpto(s, upto)
  <1>1. s.e.lo \in Nat /\ s.e.hi \in Nat /\ upto \in Nat
    BY DEF Entries
  <1>2. CASE s.e.hi = 0
    BY <1>1, <1>2 DEF stmemFreeDataUpto
  <1>3. CASE s.e.hi > 0
    <2>1. a \in Nat /\ a <= upto
      BY <1>1, PageStart
    <2>2. s.e.hi - 1 \in Nat
      BY <1>1, <1>3
    <2>3. b \in Nat /\ b <= s.e.hi - 1
      BY <2>2, PageStart
    <2>4. m = IF a <= b THEN a ELSE b
      BY <2>1, <2>3, OfTwo
    <2>5. new = Max({s.e.lo, m})
      BY <1>1, <1>3 DEF stmemFreeDataUpto
    <2> HIDE DEF a, b, m, new
    <2>8. m \in Int
      BY <2>1, <2>3, <2>4
    <2>6. new = IF s.e.lo <= m THEN m ELSE s.e.lo
      <3>1. s.e.lo \in Int
        BY <1>1
      <3>2. Max({s.e.lo, m}) = IF s.e.lo <= m THEN m ELSE s.e.lo
        BY <2>8, <3>1, OfTwo
      <3> QED
        BY <2>5, <3>2
    <2>7. /\ new \in Nat /\ s.e.lo <= new
          /\ new = s.e.lo \/ (new <= a /\ new <= upto /\ new < s.e.hi)
      BY <1>1, <2>1, <2>3, <2>4, <2>6
    <2> QED
      BY <2>7, <1>3 DEF new, a
  <1> QED
    BY <1>1, <1>2, <1>3

(* The page queued last starts before the end of the queue.                  *)
LEMMA NodeBefore ==
  ASSUME NEW x, EntryOkay(x)
  PROVE  x.node \in Int /\ x.node < x.queue
  <1>1. x.queue \in Nat
    BY DEF EntryOkay, Entries
  <1>2. CASE x.queue = 0
    BY <1>2 DEF EntryOkay, Offsets
  <1>3. CASE x.queue # 0
    <2>1. x.queue - 1 \in Nat
      BY <1>1, <1>3
    <2>2. PageOf(x.queue - 1) \in Nat /\ PageOf(x.queue - 1) <= x.queue - 1
      BY <2>1, PageStart
    <2>3. x.node = PageOf(x.queue - 1)
      BY <1>3 DEF EntryOkay, Offsets
    <2> QED
      BY <2>2, <2>3, <1>1
  <1> QED
    BY <1>2, <1>3

\* no client has lost its place in memory
Held(s, t) == \A c \in Clients : s.sc[c].st # "out" =>
                  t.e.lo = s.e.lo \/ t.e.lo <= s.sc[c].off

\* so much may be freed
MayFree(s, upto) ==
    /\ upto \in Int
    /\ \A c \in Clients : s.sc[c].st # "out" /\ (s.sc[c].type = "mem" \/ ~s.e.sio) =>
                              upto <= s.sc[c].off
    /\ s.e.sio \/ ~s.e.release => upto < s.e.queue \/ upto <= 0
    /\ s.e.sio /\ s.e.opening => upto <= 0
    /\ ~s.e.inMemory

LEMMA FreedOkay ==
  ASSUME NEW s, Okay(s), NEW upto, MayFree(s, upto), s.e.lo < upto
  PROVE  LET t == Freed(s, upto)
         IN  /\ Okay(t) /\ Frame(s, t) /\ SameSwap(s.e, t.e) /\ SameFile(s.e, t.e)
             /\ ~s.e.sio => Held(s, t)
  <1> DEFINE t == Freed(s, upto)
             x == s.e
             y == t.e
  <1>1. EntryOkay(x) /\ x \in Entries
    BY DEF Okay, EntryOkay
  <1>2. upto \in Int /\ x.lo \in Nat /\ x.hi \in Nat /\ x.queue \in Nat
    BY <1>1 DEF MayFree, Entries
  <1>3. /\ y \in Entries /\ SameObject(x, y) /\ SameFile(x, y)
        /\ SameSwap(x, y) /\ y.lo = stmemFreeDataUpto(s, upto)
        /\ t.sc = s.sc
    BY <1>1, <1>2, FreeBound, FreedEntry
  <1>4. /\ y.lo \in Nat /\ x.lo <= y.lo
        /\ y.lo = x.lo \/ (x.hi > 0 /\ y.lo <= PageOf(upto) /\ y.lo <= upto /\ y.lo < x.hi)
    BY <1>1, <1>2, <1>3, FreeBound
  <1>5. x.sio \/ ~x.release => y.lo = x.lo \/ y.lo <= x.node
    <2> SUFFICES ASSUME x.sio \/ ~x.release, y.lo # x.lo PROVE y.lo <= x.node
      OBVIOUS
    <2>1. upto \in Nat /\ x.queue - 1 \in Nat /\ upto <= x.queue - 1
      BY <1>2 DEF MayFree
    <2>2. PageOf(upto) <= PageOf(x.queue - 1)
      BY <2>1, PageOrder
    <2>3. x.node = PageOf(x.queue - 1)
      BY <2>1, <1>1 DEF EntryOkay, Offsets
    <2>4. PageOf(upto) \in Nat /\ PageOf(x.queue - 1) \in Nat
      BY <2>1, PageStart
    <2> QED
      BY <2>2, <2>3, <2>4, <1>4
  <1>6. x.node \in Int /\ x.node < x.queue
    BY <1>1, NodeBefore
  <1>7. x.sio /\ x.opening => y.lo = x.lo
    BY <1>2, <1>4 DEF MayFree
  <1>8. EntryOkay(y)
    <2>1. Offsets(y)
      BY <1>1, <1>2, <1>3, <1>4, <1>5, <1>6
      DEF EntryOkay, Offsets, SameObject, SameSwap, SameFile
    <2>2. Writing(y)
      BY <1>1, <1>3, <1>7 DEF EntryOkay, Writing, SameObject, SameSwap, SameFile
    <2>3. InTheFile(y)
      <3>1. x.swap = "NONE" /\ ~x.release => y.lo = x.lo
        <4> SUFFICES ASSUME x.swap = "NONE", ~x.release PROVE y.lo = x.lo
          OBVIOUS
        <4>1. x.queue = 0
          BY <1>1 DEF EntryOkay, InTheFile
        <4> QED
          BY <4>1, <1>2, <1>4 DEF MayFree
      <3> QED
        BY <3>1, <1>1, <1>3
        DEF EntryOkay, InTheFile, DiskOnly, SameObject, SameSwap, SameFile
    <2>4. WholeObject(y)
      BY <1>1, <1>3 DEF EntryOkay, WholeObject, DiskOnly, SameObject, SameSwap, SameFile, MayFree
    <2> QED
      BY <2>1, <2>2, <2>3, <2>4, <1>1, <1>3 DEF EntryOkay, SameObject
  <1>9. ASSUME NEW c \in Clients PROVE ClientOkay(y, s.sc[c])
    <2> DEFINE z == s.sc[c]
    <2>1. ClientOkay(x, z) /\ z \in StoreClients
      BY DEF Okay, ClientOkay
    <2> SUFFICES ASSUME z.st # "out" PROVE Place(y, z) /\ Source(y, z) /\ Ends(y, z)
      BY <2>1 DEF ClientOkay
    <2>2. Place(x, z) /\ Source(x, z) /\ Ends(x, z)
      BY <2>1 DEF ClientOkay
    <2>3. z.off \in Nat /\ z.got \in Nat
      BY <2>1 DEF StoreClients
    <2>4. z.type = "mem" \/ ~x.sio => upto <= z.off
      BY DEF MayFree
    <2>5. z.off <= z.got
      BY <2>2 DEF Place
    <2>6. z.type \in {"mem", "disk"}
      BY <2>1 DEF StoreClients
    <2> HIDE DEF z
    <2>7. Place(y, z)
      BY <2>2, <2>3, <2>4, <2>6, <1>2, <1>3, <1>4, <1>5, <1>6
      DEF Place, DiskOnly, SameObject, SameSwap, SameFile
    <2>8. Source(y, z)
      BY <2>2, <1>3 DEF Source, DiskOnly, SameObject, SameSwap, SameFile
    <2>9. x.opening /\ z.got >= x.lo => z.got >= y.lo
      BY <2>3, <2>4, <2>5, <1>2, <1>4, <1>7
    <2>10. Ends(y, z)
      BY <2>2, <2>9, <1>3 DEF Ends, SameObject, SameSwap, SameFile
    <2> QED
      BY <2>7, <2>8, <2>10
  <1>10. Okay(t)
    BY <1>3, <1>8, <1>9 DEF Okay
  <1>11. Frame(s, t)
    BY <1>3 DEF Frame, SameSwap
  <1>12. ASSUME ~x.sio PROVE Held(s, t)
    <2> SUFFICES ASSUME NEW c \in Clients, s.sc[c].st # "out"
                 PROVE  y.lo = x.lo \/ y.lo <= s.sc[c].off
      BY DEF Held
    <2>1. upto <= s.sc[c].off /\ s.sc[c].off \in Nat
      BY <1>12 DEF MayFree, Okay, ClientOkay, StoreClients
    <2> QED
      BY <2>1, <1>2, <1>4
  <1> QED
    BY <1>3, <1>10, <1>11, <1>12

(* Freeing, with the server polled again, keeps the invariant.               *)
LEMMA FreeUptoOkay ==
  ASSUME NEW s, Okay(s), NEW upto, upto \in Int, MayFree(s, upto) \/ upto <= s.e.lo
  PROVE  LET t == FreeUpto(s, upto)
         IN  /\ Okay(t) /\ Frame(s, t) /\ SameSwap(s.e, t.e) /\ SameFile(s.e, t.e)
             /\ ~s.e.sio => Held(s, t)
  <1>0. s.e.lo \in Nat
    BY DEF Okay, EntryOkay, Entries
  <1>1. CASE upto <= s.e.lo
    <2>1. FreeUpto(s, upto) = s
      BY <1>1 DEF FreeUpto
    <2>2. SameSwap(s.e, s.e) /\ SameFile(s.e, s.e) /\ Held(s, s)
      BY DEF SameSwap, SameFile, Held
    <2> QED
      BY <2>1, <2>2, FrameSame
  <1>2. CASE ~(upto <= s.e.lo)
    <2> DEFINE t == Freed(s, upto)
               u == storeResumeRead(t)
    <2>1. FreeUpto(s, upto) = t \/ FreeUpto(s, upto) = u
      BY <1>2 DEF FreeUpto, ResumeIfNear
    <2>2. /\ Okay(t) /\ Frame(s, t) /\ SameSwap(s.e, t.e) /\ SameFile(s.e, t.e)
          /\ ~s.e.sio => Held(s, t)
      BY <1>0, <1>2, FreedOkay
    <2> HIDE DEF t
    <2>3. /\ u.e \in Entries /\ SameObject(t.e, u.e) /\ SameFile(t.e, u.e)
          /\ SameSwap(t.e, u.e) /\ u.e.lo = t.e.lo /\ u.sc = t.sc
      BY <2>2, ResumedEntry DEF Okay, EntryOkay
    <2> HIDE DEF u
    <2>4. Okay(u) /\ Frame(t, u)
      BY <2>2, <2>3, SameOkay
    <2>5. Frame(s, u)
      BY <2>2, <2>4, FrameTrans DEF Okay
    <2>6. SameSwap(s.e, u.e) /\ SameFile(s.e, u.e) /\ (~s.e.sio => Held(s, u))
      BY <2>2, <2>3 DEF SameSwap, SameFile, Held
    <2> QED
      BY <2>1, <2>2, <2>4, <2>5, <2>6
  <1> QED
    BY <1>1, <1>2

(* FreeMemory frees no more than it may.                                     *)
LEMMA FreeMemoryOkay ==
  ASSUME NEW s, Okay(s), NEW able \in BOOLEAN, ~s.e.inMemory,
         IF able THEN ~s.e.release ELSE s.e.release /\ ~s.e.sio
  PROVE  LET t == FreeMemory(s, able)
         IN  /\ Okay(t) /\ Frame(s, t) /\ SameSwap(s.e, t.e) /\ SameFile(s.e, t.e)
             /\ ~s.e.sio => Held(s, t)
  <1> DEFINE free  == \/ ~able \/ s.e.hi > maxInMemObjSize
                      \/ content_length > maxInMemObjSize
             low   == storeLowestMemReaderOffset(s)
             wish  == IF free THEN low ELSE s.e.lo
             limit == storeSwapOutObjectBytesOnDisk(s) - 1
             upto  == IF able /\ wish # 0 /\ limit < wish THEN limit ELSE wish
  <1>1. FreeMemory(s, able) = FreeUpto(s, upto)
    BY DEF FreeMemory
  <1>2. EntryOkay(s.e) /\ s.e \in Entries
    BY DEF Okay, EntryOkay
  <1>3. /\ s.e.lo \in Nat /\ s.e.queue \in Nat /\ s.e.file \in Nat
    BY <1>2 DEF Entries
  <1>4. /\ low \in Nat
        /\ \A c \in Clients : s.sc[c].st # "out" /\ (s.sc[c].type = "mem" \/ ~s.e.sio) =>
                                  low <= s.sc[c].off
    BY LowestHolds
  <1>5. \A c \in Clients : s.sc[c].off \in Nat
    BY DEF Okay, ClientOkay, StoreClients
  <1>6. limit \in Int /\ limit < s.e.queue
    <2>1. s.e.sio => s.e.file <= s.e.queue
      BY <1>2 DEF EntryOkay, Writing, InTheFile, DiskOnly
    <2> QED
      BY <2>1, <1>3 DEF storeSwapOutObjectBytesOnDisk
  <1>7. s.e.sio /\ s.e.opening => limit = -1
    BY <1>2, <1>3 DEF EntryOkay, InTheFile, storeSwapOutObjectBytesOnDisk
  <1> HIDE DEF free, low, limit
  <1>8. wish \in Nat /\ (wish = low \/ wish = s.e.lo)
    BY <1>3, <1>4
  <1>9. wish = low \/ upto <= s.e.lo
    BY <1>3, <1>4, <1>6, <1>8
  <1> HIDE DEF wish
  <1>10. upto \in Int /\ upto <= wish
    BY <1>6, <1>8
  <1>11. ASSUME wish = low PROVE MayFree(s, upto)
    <2>1. \A c \in Clients : s.sc[c].st # "out" /\ (s.sc[c].type = "mem" \/ ~s.e.sio) =>
                                 upto <= s.sc[c].off
      BY <1>4, <1>5, <1>10, <1>11
    <2>2. able => upto <= limit \/ upto <= 0
      BY <1>6, <1>8
    <2>3. s.e.sio => able
      OBVIOUS
    <2> HIDE DEF upto
    <2> QED
      BY <2>1, <2>2, <2>3, <1>3, <1>6, <1>7, <1>10 DEF MayFree
  <1> HIDE DEF upto
  <1> QED
    BY <1>1, <1>9, <1>10, <1>11, FreeUptoOkay

LEMMA ReleaseOkay ==
  ASSUME NEW s, Okay(s)
  PROVE  LET t == storeReleaseRequest(s)
         IN  Okay(t) /\ Frame(s, t) /\ t.e.release /\ t.e.swap = s.e.swap
             /\ t.e.sio = s.e.sio /\ t.e.opening = s.e.opening
             /\ t.e.lo = s.e.lo /\ SameFile(s.e, t.e)
  <1> DEFINE t == storeReleaseRequest(s)
             x == s.e
             y == t.e
  <1>1. EntryOkay(x) /\ x \in Entries
    BY DEF Okay, EntryOkay
  <1>2. /\ y \in Entries /\ SameObject(x, y) /\ SameFile(x, y)
        /\ y.lo = x.lo /\ y.release /\ y.swap = x.swap /\ y.hdr = x.hdr
        /\ y.sio = x.sio /\ y.opening = x.opening /\ y.closing = x.closing
        /\ t.sc = s.sc
    BY <1>1, ReleasedEntry
  <1> HIDE DEF t
  <1>3. EntryOkay(y)
    BY <1>1, <1>2 DEF EntryOkay, Offsets, Writing, InTheFile, WholeObject, DiskOnly,
                      SameObject, SameFile
  <1>4. ASSUME NEW c \in Clients PROVE ClientOkay(y, s.sc[c])
    <2>1. ClientOkay(x, s.sc[c])
      BY DEF Okay
    <2> QED
      BY <2>1, <1>2 DEF ClientOkay, Place, Source, Ends, DiskOnly, SameObject, SameFile
  <1>5. Okay(t) /\ Frame(s, t)
    BY <1>2, <1>3, <1>4 DEF Okay, Frame
  <1> QED
    BY <1>2, <1>5 DEF t

(* storeSwapOutMaintainMemObject, when no file is open for writing.          *)
LEMMA MaintainClosedOkay ==
  ASSUME NEW s, Okay(s), ~s.e.sio
  PROVE  LET t == MaintainClosed(s)
         IN  Okay(t) /\ Frame(s, t) /\ SameFile(s.e, t.e) /\ t.e.swap = s.e.swap /\ ~t.e.sio
  <1>1. CASE s.e.inMemory
    BY <1>1, FrameSame DEF MaintainClosed, SameFile
  <1>2. CASE ~s.e.inMemory /\ storeSwapOutAble(s)
    <2>1. ~s.e.release
      BY <1>2 DEF storeSwapOutAble
    <2> DEFINE t == FreeMemory(s, TRUE)
    <2>2. MaintainClosed(s) = t
      BY <1>2 DEF MaintainClosed
    <2>3. Okay(t) /\ Frame(s, t) /\ SameSwap(s.e, t.e) /\ SameFile(s.e, t.e)
      BY <1>2, <2>1, FreeMemoryOkay
    <2> HIDE DEF t
    <2> QED
      BY <2>2, <2>3 DEF SameSwap
  <1>3. CASE ~s.e.inMemory /\ ~storeSwapOutAble(s)
    <2> DEFINE r == storeReleaseRequest(s)
               t == FreeMemory(r, FALSE)
    <2>1. MaintainClosed(s) = t
      BY <1>3 DEF MaintainClosed
    <2>2. Okay(r) /\ Frame(s, r) /\ r.e.release /\ r.e.swap = s.e.swap /\ ~r.e.sio
          /\ SameFile(s.e, r.e)
      BY ReleaseOkay
    <2>3. ~r.e.inMemory
      BY <2>2, <1>3 DEF Frame, SameObject
    <2> HIDE DEF r
    <2>4. Okay(t) /\ Frame(r, t) /\ SameSwap(r.e, t.e) /\ SameFile(r.e, t.e)
      BY <2>2, <2>3, FreeMemoryOkay
    <2> HIDE DEF t
    <2>5. Frame(s, t)
      BY <2>2, <2>4, FrameTrans DEF Okay
    <2> QED
      BY <2>1, <2>2, <2>4, <2>5 DEF SameSwap, SameFile
  <1> QED
    BY <1>1, <1>2, <1>3
-----------------------------------------------------------------------------
\* an entry whose file has just been closed, and those who read it
ClosedState(s, err) == [e |-> Closed(s.e, err),
                        sc |-> [c \in Clients |-> FileLost(s.sc[c], err)]]

(* After the file is closed, what may be freed is.                           *)
LEMMA FileClosedOkay ==
  ASSUME NEW s, NEW err \in BOOLEAN, s.e \in Entries, s.e.swap = "WRITING",
         Okay(ClosedState(s, err))
  PROVE  LET t == storeSwapOutFileClosed(s, err)
         IN  /\ Okay(t) /\ Frame(ClosedState(s, err), t) /\ SameFile(s.e, t.e)
             /\ t.e.swap = (IF err THEN "NONE" ELSE "DONE") /\ ~t.e.sio
  <1> DEFINE p == s.e.swap = "WRITING"
             u == Asserted(s, p)
             k == ClosedState(s, err)
             t == MaintainClosed(k)
  <1>1. u.e = s.e /\ u.sc = s.sc
    BY AssertedSame
  <1> HIDE DEF u
  <1>2. storeSwapOutFileClosed(s, err) = t
    <2>1. storeSwapOutFileClosed(s, err) =
             MaintainClosed([e |-> Closed(u.e, err),
                             sc |-> [c \in Clients |-> FileLost(u.sc[c], err)]])
      BY DEF storeSwapOutFileClosed, u
    <2> QED
      BY <2>1, <1>1 DEF ClosedState
  <1>3. k.e = Closed(s.e, err)
    BY DEF ClosedState
  <1>4. SameFile(s.e, k.e) /\ ~k.e.sio /\ k.e.swap = IF err THEN "NONE" ELSE "DONE"
    BY <1>3, ClosedEntry
  <1>5. Okay(k)
    OBVIOUS
  <1> HIDE DEF k
  <1>6. Okay(t) /\ Frame(k, t) /\ SameFile(k.e, t.e) /\ t.e.swap = k.e.swap /\ ~t.e.sio
    BY <1>4, <1>5, MaintainClosedOkay
  <1> HIDE DEF t
  <1>7. SameFile(s.e, t.e)
    BY <1>4, <1>6 DEF SameFile
  <1> QED
    BY <1>2, <1>4, <1>6, <1>7 DEF k

(* The clients of a file that is closed.                                     *)
LEMMA ClosedClients ==
  ASSUME NEW s, NEW err \in BOOLEAN, s.sc \in [Clients -> StoreClients]
  PROVE  LET t == ClosedState(s, err)
         IN  /\ t.e = Closed(s.e, err)
             /\ t.sc \in [Clients -> StoreClients]
             /\ \A c \in Clients : /\ t.sc[c] = FileLost(s.sc[c], err)
                                   /\ t.sc[c] = s.sc[c] \/ t.sc[c] = FileLost(s.sc[c], TRUE)
  <1>1. \A c \in Clients : FileLost(s.sc[c], err) \in StoreClients
    BY LostClient
  <1>2. \A c \in Clients : FileLost(s.sc[c], err) = s.sc[c]
                           \/ FileLost(s.sc[c], err) = FileLost(s.sc[c], TRUE)
    <2>1. CASE err = TRUE
      BY <2>1
    <2>2. CASE err = FALSE
      BY <2>2, LostNothing
    <2> QED
      BY <2>1, <2>2
  <1> QED
    BY <1>1, <1>2 DEF ClosedState

(* An open file is closed once everything is written, or on an error.        *)
LEMMA ClosedStateOkay ==
  ASSUME NEW s, Okay(s), NEW err \in BOOLEAN, s.e.swap = "WRITING",
         \/ err
         \/ /\ s.e.release \/ (s.e.store = "OK" /\ s.e.queue = s.e.hi)
            /\ ~s.e.opening
  PROVE  Okay(ClosedState(s, err)) /\ Frame(s, ClosedState(s, err))
  <1> DEFINE t == ClosedState(s, err)
             x == s.e
             y == t.e
  <1>1. EntryOkay(x) /\ x \in Entries /\ s.sc \in [Clients -> StoreClients]
    BY DEF Okay, EntryOkay
  <1>2. /\ y = Closed(x, err)
        /\ t.sc \in [Clients -> StoreClients]
        /\ \A c \in Clients : /\ t.sc[c] = FileLost(s.sc[c], err)
                              /\ t.sc[c] = s.sc[c] \/ t.sc[c] = FileLost(s.sc[c], TRUE)
    BY <1>1, ClosedClients
  <1>3. /\ y \in Entries /\ SameObject(x, y) /\ SameFile(x, y)
        /\ y.lo = x.lo /\ y.swap = (IF err THEN "NONE" ELSE "DONE")
        /\ (y.release <=> x.release \/ err) /\ y.hdr = x.hdr
        /\ ~y.sio /\ ~y.opening /\ ~y.closing
    BY <1>1, <1>2, ClosedEntry
  <1> HIDE DEF t
  <1>8. x.hi > 0 /\ ~DiskOnly(x) /\ x.hi \in Nat /\ y.hi = x.hi
    BY <1>1, <1>3 DEF EntryOkay, Writing, DiskOnly, Entries, SameObject
  <1>4. EntryOkay(y)
    <2>1. Offsets(y)
      BY <1>1, <1>3 DEF EntryOkay, Offsets, SameObject, SameFile
    <2>2. Writing(y)
      BY <1>1, <1>3 DEF EntryOkay, Writing, SameObject, SameFile
    <2>3. InTheFile(y)
      BY <1>1, <1>3 DEF EntryOkay, Writing, InTheFile, DiskOnly, SameObject, SameFile
    <2>4. WholeObject(y)
      BY <1>1, <1>3, <1>8 DEF EntryOkay, WholeObject, DiskOnly, SameObject, SameFile
    <2> QED
      BY <2>1, <2>2, <2>3, <2>4, <1>1, <1>3 DEF EntryOkay, SameObject
  <1>5. ASSUME NEW c \in Clients PROVE ClientOkay(y, t.sc[c])
    <2> DEFINE z == s.sc[c]
               w == t.sc[c]
    <2>1. ClientOkay(x, z) /\ z \in StoreClients
      BY <1>1 DEF Okay
    <2>2. /\ w \in StoreClients
          /\ w.type = z.type /\ w.st = z.st /\ w.off = z.off /\ w.got = z.got
          /\ w.event = z.event /\ w.swapin = z.swapin /\ w.io = z.io
          /\ w.failed <=> z.failed \/ (err /\ z.type = "disk")
      <3>1. w = FileLost(z, err)
        BY <1>2
      <3> HIDE DEF z, w
      <3> QED
        BY <2>1, <3>1, LostClient
    <2>3. CASE z.st = "out"
      <3>1. z = Out
        BY <2>1, <2>3 DEF ClientOkay
      <3>2. FileLost(z, err) = Out
        BY <3>1, <2>1, LostNothing
      <3>3. w = Out
        BY <3>2, <1>2
      <3> HIDE DEF z, w
      <3>4. ClientOkay(y, w)
        BY <3>1, <3>3, <2>2, <2>3 DEF ClientOkay
      <3> QED
        BY <3>4 DEF w
    <2>4. CASE z.st # "out"
      <3>1. Place(x, z) /\ Source(x, z) /\ Ends(x, z)
        BY <2>1, <2>4 DEF ClientOkay
      <3>2. ~DiskOnly(y)
        BY <1>8 DEF DiskOnly
      <3> HIDE DEF z, w
      <3>3. Place(y, w)
        BY <2>2, <3>1, <3>2, <1>3, <1>8 DEF Place, SameObject, SameFile
      <3>4. Source(y, w)
        BY <2>2, <3>1, <3>2, <1>3, <1>8 DEF Source, SameObject, SameFile
      <3>5. Ends(y, w)
        BY <2>2, <3>1, <1>3 DEF Ends, SameObject, SameFile
      <3> QED
        BY <3>3, <3>4, <3>5, <2>2, <2>4 DEF ClientOkay, w, z
    <2> QED
      BY <2>3, <2>4
  <1>6. Okay(t)
    BY <1>2, <1>4, <1>5 DEF Okay
  <1>7. Frame(s, t)
    BY <1>2, <1>3 DEF Frame
  <1> QED
    BY <1>6, <1>7 DEF t

(* storeSwapOutFileClose is called when there is no more to write.           *)
LEMMA FileCloseOkay ==
  ASSUME NEW s, Okay(s), s.e.sio => s.e.release \/ (s.e.store = "OK" /\ s.e.queue = s.e.hi)
  PROVE  LET t == storeSwapOutFileClose(s)
         IN  Okay(t) /\ Frame(s, t) /\ ~t.e.sio /\ SameFile(s.e, t.e)
             /\ (t.e.opening => t.e.lo = s.e.lo)
  <1> DEFINE x == s.e
             t == storeSwapOutFileClose(s)
  <1>1. EntryOkay(x) /\ x \in Entries
    BY DEF Okay, EntryOkay
  <1>2. CASE ~x.sio
    BY <1>2, FrameSame DEF storeSwapOutFileClose, SameFile
  <1>3. CASE x.sio /\ x.opening
    <2> DEFINE u == CloseLater(s)
               y == u.e
    <2>1. t = u
      BY <1>3 DEF storeSwapOutFileClose
    <2>2. /\ y \in Entries /\ SameObject(x, y) /\ SameFile(x, y)
          /\ y.lo = x.lo /\ y.swap = x.swap /\ y.release = x.release
          /\ y.hdr = x.hdr /\ y.opening = x.opening /\ ~y.sio /\ y.closing
          /\ u.sc = s.sc
      BY <1>1, CloseLaterEntry
    <2> HIDE DEF u
    <2>3. EntryOkay(y)
      <3>1. Offsets(y)
        BY <2>2, <1>1 DEF EntryOkay, Offsets, SameObject, SameFile
      <3>2. Writing(y)
        BY <2>2, <1>1, <1>3 DEF EntryOkay, Writing, SameObject, SameFile
      <3>3. InTheFile(y) /\ WholeObject(y)
        BY <2>2, <1>1 DEF EntryOkay, InTheFile, WholeObject, DiskOnly, SameObject, SameFile
      <3> QED
        BY <3>1, <3>2, <3>3, <2>2, <1>1 DEF EntryOkay, SameObject
    <2>4. ASSUME NEW c \in Clients PROVE ClientOkay(y, s.sc[c])
      <3>1. ClientOkay(x, s.sc[c])
        BY DEF Okay
      <3> QED
        BY <3>1, <2>2 DEF ClientOkay, Place, Source, Ends, DiskOnly, SameObject, SameFile
    <2>5. Okay(u) /\ Frame(s, u)
      BY <2>2, <2>3, <2>4 DEF Okay, Frame
    <2> HIDE DEF t
    <2>6. Okay(t) /\ Frame(s, t) /\ ~t.e.sio /\ SameFile(s.e, t.e) /\ t.e.lo = s.e.lo
      BY <2>1, <2>2, <2>5
    <2> QED
      BY <2>6, <1>3 DEF t
  <1>4. CASE x.sio /\ ~x.opening
    <2> DEFINE k == ClosedState(s, FALSE)
               u == storeSwapOutFileClosed(s, FALSE)
    <2>1. t = u
      BY <1>4 DEF storeSwapOutFileClose
    <2>2. x.swap = "WRITING"
      BY <1>1, <1>4 DEF EntryOkay, Writing
    <2>3. Okay(k) /\ Frame(s, k)
      BY <2>2, <1>4, ClosedStateOkay
    <2>4. Okay(u) /\ Frame(k, u) /\ SameFile(x, u.e) /\ ~u.e.sio /\ u.e.swap = "DONE"
      BY <2>2, <2>3, <1>1, FileClosedOkay
    <2> HIDE DEF k, u, t
    <2>5. Frame(s, u)
      BY <2>3, <2>4, FrameTrans DEF Okay
    <2>6. ~u.e.opening
      BY <2>4 DEF Okay, EntryOkay, Writing
    <2>7. Okay(t) /\ Frame(s, t) /\ ~t.e.sio /\ SameFile(s.e, t.e) /\ ~t.e.opening
      BY <2>1, <2>4, <2>5, <2>6
    <2> QED
      BY <2>7, <1>4 DEF t
  <1> QED
    BY <1>2, <1>3, <1>4

(* storeSwapOutMaintainMemObject keeps the invariant, and only closes a file *)
(* that is not wanted.                                                       *)
LEMMA MaintainOkay ==
  ASSUME NEW s, Okay(s)
  PROVE  LET t == storeSwapOutMaintainMemObject(s)
         IN  /\ Okay(t) /\ Frame(s, t) /\ SameFile(s.e, t.e)
             /\ s.e.inMemory \/ storeSwapOutAble(s) => SameSwap(s.e, t.e)
             /\ s.e.release /\ t.e.opening => Held(s, t)
  <1> DEFINE t == storeSwapOutMaintainMemObject(s)
  <1>1. CASE s.e.inMemory
    BY <1>1, FrameSame DEF storeSwapOutMaintainMemObject, SameFile, SameSwap, Held
  <1>2. CASE ~s.e.inMemory /\ storeSwapOutAble(s)
    <2>1. ~s.e.release
      BY <1>2 DEF storeSwapOutAble
    <2> DEFINE u == FreeMemory(s, TRUE)
    <2>2. t = u
      BY <1>2 DEF storeSwapOutMaintainMemObject
    <2>3. Okay(u) /\ Frame(s, u) /\ SameSwap(s.e, u.e) /\ SameFile(s.e, u.e)
      BY <1>2, <2>1, FreeMemoryOkay
    <2> HIDE DEF u, t
    <2>4. Okay(t) /\ Frame(s, t) /\ SameSwap(s.e, t.e) /\ SameFile(s.e, t.e)
      BY <2>2, <2>3
    <2> QED
      BY <2>1, <2>4 DEF t
  <1>3. CASE ~s.e.inMemory /\ ~storeSwapOutAble(s)
    <2> DEFINE r == storeReleaseRequest(s)
               k == storeSwapOutFileClose(r)
               u == FreeMemory(k, FALSE)
    <2>1. t = u
      BY <1>3 DEF storeSwapOutMaintainMemObject
    <2>2. Okay(r) /\ Frame(s, r) /\ r.e.release /\ SameFile(s.e, r.e) /\ r.e.lo = s.e.lo
      BY ReleaseOkay
    <2> HIDE DEF r
    <2>3. Okay(k) /\ Frame(r, k) /\ ~k.e.sio /\ SameFile(r.e, k.e)
          /\ (k.e.opening => k.e.lo = r.e.lo)
      BY <2>2, FileCloseOkay
    <2>4. k.e.release /\ ~k.e.inMemory
      BY <2>2, <2>3, <1>3 DEF Frame, SameObject
    <2> HIDE DEF k
    <2>5. Okay(u) /\ Frame(k, u) /\ SameFile(k.e, u.e) /\ SameSwap(k.e, u.e) /\ Held(k, u)
      BY <2>3, <2>4, FreeMemoryOkay
    <2> HIDE DEF u, t
    <2>9. Frame(s, k)
      BY <2>2, <2>3, FrameTrans DEF Okay
    <2>6. Frame(s, u)
      BY <2>5, <2>9, FrameTrans DEF Okay
    <2>10. ASSUME u.e.opening PROVE Held(s, u)
      <3> SUFFICES ASSUME NEW c \in Clients, s.sc[c].st # "out"
                   PROVE  u.e.lo = s.e.lo \/ u.e.lo <= s.sc[c].off
        BY DEF Held
      <3>1. k.e.lo = s.e.lo
        BY <2>2, <2>3, <2>5, <2>10 DEF SameSwap
      <3>2. s.sc[c] \in StoreClients
        BY DEF Okay, ClientOkay
      <3>3. k.sc[c].st = s.sc[c].st /\ k.sc[c].off = s.sc[c].off
        BY <3>2, <2>9, LostClient DEF Frame
      <3> QED
        BY <3>1, <3>3, <2>5 DEF Held
    <2>7. SameFile(s.e, u.e)
      BY <2>2, <2>3, <2>5 DEF SameFile
    <2>8. Okay(t) /\ Frame(s, t) /\ SameFile(s.e, t.e) /\ (t.e.opening => Held(s, t))
      BY <2>1, <2>5, <2>6, <2>7, <2>10
    <2> QED
      BY <2>8, <1>3 DEF t
  <1> QED
    BY <1>1, <1>2, <1>3
-----------------------------------------------------------------------------
\* what squid does not decide
Envs == [tooMany : BOOLEAN, fail : BOOLEAN, again : SUBSET Clients]

LEMMA EnvironmentsOkay ==
  ASSUME NEW called, called \subseteq Clients, NEW env \in Environments(called)
  PROVE  env \in Envs /\ env.fail \in BOOLEAN /\ env.again \subseteq Clients
  BY DEF Environments, Envs

(* The file is created: all of the object is in memory, and nobody reads it  *)
(* from a file.                                                              *)
LEMMA StartOkay ==
  ASSUME NEW s, Okay(s), NEW env \in Envs, s.e.swap = "NONE", s.e.lo = 0, s.e.hi > 0,
         ~s.e.release \/ s.e.inMemory
  PROVE  LET t == storeSwapOutStart(s, env) IN Okay(t) /\ Frame(s, t)
  <1> DEFINE x == s.e
             y == FileOpened(x)
             u == WithEntry(s, y)
  <1>1. CASE env.fail
    BY <1>1, FrameSame DEF storeSwapOutStart
  <1>2. CASE ~env.fail
    <2>1. storeSwapOutStart(s, env) = u /\ u.e = y /\ u.sc = s.sc
      BY <1>2 DEF storeSwapOutStart, WithEntry
    <2>2. EntryOkay(x) /\ x \in Entries
      BY DEF Okay, EntryOkay
    <2>3. /\ y \in Entries /\ SameObject(x, y) /\ SameFile(x, y)
          /\ y.lo = x.lo /\ y.swap = "WRITING" /\ y.release = x.release
          /\ y.hdr /\ y.opening = AsyncCreate /\ y.sio /\ y.closing = x.closing
      BY <2>2, OpenedEntry
    <2> HIDE DEF y
    <2>4. EntryOkay(y)
      <3>1. Offsets(y)
        BY <2>2, <2>3 DEF EntryOkay, Offsets, SameObject, SameFile
      <3>2. Writing(y)
        BY <2>2, <2>3, TransferAssumption DEF EntryOkay, Writing, SameObject, SameFile
      <3>3. InTheFile(y)
        BY <2>2, <2>3 DEF EntryOkay, InTheFile, DiskOnly, SameObject, SameFile
      <3>4. WholeObject(y)
        BY <2>2, <2>3 DEF EntryOkay, WholeObject, DiskOnly, SameObject, SameFile
      <3> QED
        BY <3>1, <3>2, <3>3, <3>4, <2>2, <2>3 DEF EntryOkay, SameObject
    <2>5. ASSUME NEW c \in Clients PROVE ClientOkay(y, s.sc[c])
      <3> DEFINE z == s.sc[c]
      <3>1. ClientOkay(x, z) /\ z \in StoreClients
        BY DEF Okay, ClientOkay
      <3> SUFFICES ASSUME z.st # "out" PROVE Place(y, z) /\ Source(y, z) /\ Ends(y, z)
        BY <3>1 DEF ClientOkay
      <3>2. Place(x, z) /\ Source(x, z) /\ Ends(x, z)
        BY <3>1 DEF ClientOkay
      <3>3. z.type = "mem" /\ z.swapin = "none"
        BY <3>1, <3>2 DEF Source, StoreClients
      <3>4. ~DiskOnly(x) /\ ~DiskOnly(y)
        BY <2>3 DEF DiskOnly
      <3> HIDE DEF z
      <3> QED
        BY <3>2, <3>3, <3>4, <2>3 DEF Place, Source, Ends, SameObject, SameFile
    <2>6. Okay(u) /\ Frame(s, u)
      BY <2>1, <2>3, <2>4, <2>5 DEF Okay, Frame
    <2> HIDE DEF u
    <2> QED
      BY <2>1, <2>6
  <1> QED
    BY <1>1, <1>2

(* How much of a file was written does not matter once it has failed.        *)
LEMMA LostFileOkay ==
  ASSUME NEW s, NEW t, Okay(s), s.e.swap = "NONE", s.e.release, s.e.hi > 0,
         t.e \in Entries, SameObject(s.e, t.e), SameSwap(s.e, t.e), t.e.lo = s.e.lo,
         t.e.queue = s.e.queue, t.e.node = s.e.node, t.e.file <= t.e.queue, t.sc = s.sc
  PROVE  Okay(t)
  <1>1. EntryOkay(s.e) /\ \A c \in Clients : ClientOkay(s.e, s.sc[c])
    BY DEF Okay
  <1>2. EntryOkay(t.e)
    BY <1>1 DEF EntryOkay, Offsets, Writing, InTheFile, WholeObject, DiskOnly,
                SameObject, SameSwap
  <1>3. ASSUME NEW c \in Clients PROVE ClientOkay(t.e, s.sc[c])
    BY <1>1, <1>3 DEF ClientOkay, Place, Source, Ends, DiskOnly, SameObject, SameSwap
  <1> QED
    BY <1>2, <1>3 DEF Okay

(* The page that is written next: it starts where the last one ended.        *)
LEMMA NextPageOkay ==
  ASSUME NEW s, Okay(s), s.e.sio, s.e.hi - s.e.queue >= Enough(s)
  PROVE  LET start == NextPage(s)
             len == Min({SM_PAGE_SIZE, s.e.hi - start})
         IN  /\ start = s.e.queue /\ start \in Nat
             /\ s.e.node = -1 \/ s.e.node >= s.e.lo
             /\ len \in Nat /\ len > 0 /\ start + len <= s.e.hi
             /\ len = SM_PAGE_SIZE \/ start + len = s.e.hi
             /\ Aligned(start + len) \/ (s.e.store = "OK" /\ start + len = s.e.hi)
             /\ PageOf(start + len - 1) = start
  <1> DEFINE x == s.e
             P == SM_PAGE_SIZE
             start == NextPage(s)
             len == Min({P, x.hi - start})
  <1>1. EntryOkay(x) /\ x \in Entries /\ Offsets(x)
    BY DEF Okay, EntryOkay
  <1>2. P \in Nat \ {0} /\ x.hi \in Nat /\ x.queue \in Nat /\ x.lo \in Nat
        /\ x.node \in Int /\ x.store \in {"PENDING", "OK"}
    BY <1>1, TransferAssumption DEF Entries
  <1>3. x.hi - x.queue >= 1 /\ (x.store = "PENDING" => x.hi - x.queue >= P)
    BY <1>2 DEF Enough
  <1>4. Aligned(x.queue)
    BY <1>1, <1>2, <1>3 DEF Offsets
  <1>5. start = x.queue /\ (x.node = -1 \/ x.node >= x.lo)
    <2>1. CASE x.queue = 0
      BY <2>1, <1>1, <1>2 DEF Offsets, NextPage
    <2>2. CASE x.queue > 0
      <3>1. PageOf(x.queue - 1) = x.queue - P
        BY <2>2, <1>2, <1>4, NextPageAligned
      <3>2. x.node = x.queue - P
        BY <2>2, <3>1, <1>1 DEF Offsets
      <3>3. x.queue - 1 \in Nat
        BY <2>2, <1>2
      <3>4. PageOf(x.queue - 1) \in Nat
        BY <3>3, PageStart
      <3>5. x.node \in Nat
        BY <3>1, <3>2, <3>4
      <3> QED
        BY <3>2, <3>5, <1>1, <1>2 DEF Offsets, NextPage
    <2> QED
      BY <2>1, <2>2, <1>2
  <1> HIDE DEF start
  <1>6. len = IF P <= x.hi - start THEN P ELSE x.hi - start
    <2>1. P \in Int /\ x.hi - start \in Int
      BY <1>2, <1>5
    <2> QED
      BY <2>1, OfTwo
  <1> HIDE DEF len, P
  <1>7. /\ len \in Nat /\ len > 0 /\ start + len <= x.hi /\ start \in Nat
        /\ len = P \/ start + len = x.hi
        /\ x.store = "PENDING" => len = P
        /\ len <= P
    BY <1>2, <1>3, <1>5, <1>6
  <1>8. Aligned(start + P)
    BY <1>2, <1>4, <1>5, NextPageAligned DEF P
  <1>9. PageOf(start + len - 1) = start
    <2>1. start + len - 1 \in Nat /\ start <= start + len - 1 /\ start + len - 1 < start + P
      BY <1>2, <1>7
    <2> QED
      BY <2>1, <1>2, <1>4, <1>5, NextPageAligned DEF P
  <1>10. Aligned(start + len) \/ (x.store = "OK" /\ start + len = x.hi)
    BY <1>2, <1>7, <1>8
  <1> QED
    BY <1>5, <1>7, <1>9, <1>10 DEF start, len, P

\* what one turn of storeSwapOut's loop leaves
Turn(s, t) == /\ Okay(t) /\ Frame(s, t)
              /\ t.e.swap = "WRITING" => t.e.sio
              /\ \/ t.e.swap # "WRITING"
                 \/ t.e.queue = s.e.queue + SM_PAGE_SIZE
                 \/ t.e.queue = t.e.hi

(* One more page is queued, and written unless the file is not there yet.    *)
LEMMA WritePageOkay ==
  ASSUME NEW s, Okay(s), NEW env \in Envs, s.e.sio, s.e.hi - s.e.queue >= Enough(s)
  PROVE  Turn(s, WritePage(s, env))
  <1> DEFINE x == s.e
             start == NextPage(s)
             len == Min({SM_PAGE_SIZE, x.hi - start})
             p == (x.node = -1 \/ x.node >= x.lo) /\ len > 0 /\ start = x.queue
             u == Asserted(s, p)
             q == PageQueued(u.e, start, len)
             t == WithEntry(u, q)
             y == PageWritten(q, len)
             w == WithEntry(t, y)
  <1>1. EntryOkay(x) /\ x \in Entries /\ x.swap = "WRITING" /\ x.hi > 0 /\ x.hi \in Nat
    BY DEF Okay, EntryOkay, Writing, Entries
  <1>2. /\ start = x.queue /\ start \in Nat
        /\ x.node = -1 \/ x.node >= x.lo
        /\ len \in Nat /\ len > 0 /\ start + len <= x.hi
        /\ len = SM_PAGE_SIZE \/ start + len = x.hi
        /\ Aligned(start + len) \/ (x.store = "OK" /\ start + len = x.hi)
        /\ PageOf(start + len - 1) = start
    BY NextPageOkay
  <1> HIDE DEF start, len
  <1>3. p
    BY <1>2
  <1>4. u.e = x /\ u.sc = s.sc
    BY <1>1, <1>3, AssertedSame
  <1>5. t.e = q /\ t.sc = s.sc /\ w.e = y /\ w.sc = s.sc
    BY <1>4 DEF WithEntry
  <1>6. /\ q \in Entries /\ SameObject(x, q) /\ SameSwap(x, q) /\ q.lo = x.lo
        /\ q.node = start /\ q.queue = x.queue + len /\ q.file = x.file
    <2> HIDE DEF u
    <2>1. q = PageQueued(x, start, len)
      BY <1>4
    <2> DEFINE r == PageQueued(x, start, len)
    <2>4. x \in Entries /\ start \in Nat /\ len \in Nat
      BY <1>1, <1>2
    <2>2. /\ r \in Entries /\ SameObject(x, r) /\ SameSwap(x, r) /\ r.lo = x.lo
          /\ r.node = start /\ r.queue = x.queue + len /\ r.file = x.file
      BY <2>4, QueuedEntry
    <2> HIDE DEF q, r
    <2>3. q = r
      BY <2>1 DEF r
    <2> QED
      BY <2>2, <2>3
  <1>7. WritePage(s, env) = IF x.opening THEN t
                            ELSE IF env.fail THEN storeSwapOutFileClosed(t, TRUE)
                            ELSE w
    <2>1. t.e = q
      BY DEF WithEntry
    <2>2. w = WithEntry(t, PageWritten(t.e, len))
      BY <2>1
    <2> HIDE DEF w
    <2> QED
      BY <2>2 DEF WritePage, start, len
  <1> HIDE DEF u, q, t, w, p
  <1>8. /\ y \in Entries /\ SameObject(q, y) /\ SameSwap(q, y) /\ y.lo = q.lo
        /\ y.node = q.node /\ y.queue = q.queue /\ y.file = q.file + len
    BY <1>2, <1>6, WrittenEntry
  <1> HIDE DEF y
  <1>9. x.queue \in Nat /\ x.lo \in Nat /\ x.file \in Nat /\ x.node \in Int
    BY <1>1 DEF Entries
  <1>10. ASSUME NEW v, v \in Entries, SameObject(x, v), SameSwap(x, v), v.lo = x.lo,
                v.node = start, v.queue = x.queue + len,
                v.file = IF x.opening THEN x.file ELSE x.file + len
         PROVE  EntryOkay(v)
    <2>1. Offsets(v)
      <3>1. x.lo = 0 \/ x.lo <= start
        BY <1>1, <1>2, <1>9, NodeBefore DEF EntryOkay, Offsets
      <3>2. v.queue # 0 /\ v.queue - 1 = start + len - 1
        BY <1>2, <1>9, <1>10
      <3> QED
        BY <3>1, <3>2, <1>1, <1>2, <1>9, <1>10
        DEF EntryOkay, Offsets, SameObject, SameSwap
    <2>2. Writing(v)
      BY <1>1, <1>10 DEF EntryOkay, Writing, SameObject, SameSwap
    <2>3. InTheFile(v)
      <3>1. x.file <= x.queue
        BY <1>1 DEF EntryOkay, InTheFile, DiskOnly
      <3>2. v.file <= v.queue /\ (x.file = x.queue /\ ~x.opening => v.file = v.queue)
        BY <3>1, <1>2, <1>9, <1>10
      <3> QED
        BY <3>2, <1>1, <1>10 DEF EntryOkay, InTheFile, DiskOnly, SameObject, SameSwap
    <2>4. WholeObject(v)
      BY <1>1, <1>10 DEF EntryOkay, WholeObject, DiskOnly, SameObject, SameSwap
    <2> QED
      BY <2>1, <2>2, <2>3, <2>4, <1>1, <1>10 DEF EntryOkay, SameObject
  <1>11. ASSUME NEW v, v \in Entries, SameObject(x, v), SameSwap(x, v), v.lo = x.lo,
                v.queue = x.queue + len, NEW c \in Clients
         PROVE  ClientOkay(v, s.sc[c])
    <2> DEFINE z == s.sc[c]
    <2>1. ClientOkay(x, z) /\ z \in StoreClients
      BY DEF Okay, ClientOkay
    <2> SUFFICES ASSUME z.st # "out" PROVE Place(v, z) /\ Source(v, z) /\ Ends(v, z)
      BY <2>1 DEF ClientOkay
    <2>2. Place(x, z) /\ Source(x, z) /\ Ends(x, z)
      BY <2>1 DEF ClientOkay
    <2>3. x.lo < x.queue => v.lo < v.queue
      BY <1>2, <1>9, <1>11
    <2> HIDE DEF z
    <2>4. Place(v, z)
      BY <2>2, <2>3, <1>11 DEF Place, DiskOnly, SameObject, SameSwap
    <2>5. Source(v, z) /\ Ends(v, z)
      BY <2>2, <1>11 DEF Source, Ends, DiskOnly, SameObject, SameSwap
    <2> QED
      BY <2>4, <2>5
  <1>12. CASE x.opening
    <2>1. Okay(t)
      BY <1>5, <1>6, <1>10, <1>11, <1>12 DEF Okay
    <2>2. Frame(s, t)
      BY <1>5, <1>6 DEF Frame, SameSwap
    <2>3. t.e.sio
      BY <1>5, <1>6 DEF SameSwap
    <2>4. t.e.queue = x.queue + SM_PAGE_SIZE \/ t.e.queue = t.e.hi
      BY <1>2, <1>5, <1>6 DEF SameObject
    <2> QED
      BY <2>1, <2>2, <2>3, <2>4, <1>7, <1>12 DEF Turn
  <1>13. SameObject(x, y) /\ SameSwap(x, y) /\ y.lo = x.lo /\ y.node = start
         /\ y.queue = x.queue + len /\ y.file = x.file + len
    BY <1>6, <1>8 DEF SameObject, SameSwap
  <1>14. ~x.opening => Okay(w)
    BY <1>5, <1>8, <1>13, <1>10, <1>11 DEF Okay
  <1>15. CASE ~x.opening /\ ~env.fail
    <2>1. Okay(w)
      BY <1>14, <1>15
    <2>2. Frame(s, w)
      BY <1>5, <1>13 DEF Frame, SameSwap
    <2>3. w.e.sio
      BY <1>5, <1>13 DEF SameSwap
    <2>4. w.e.queue = x.queue + SM_PAGE_SIZE \/ w.e.queue = w.e.hi
      BY <1>2, <1>5, <1>13 DEF SameObject
    <2> QED
      BY <2>1, <2>2, <2>3, <2>4, <1>7, <1>15 DEF Turn
  <1>16. CASE ~x.opening /\ env.fail
    <2> DEFINE k == ClosedState(w, TRUE)
               l == ClosedState(t, TRUE)
               r == storeSwapOutFileClosed(t, TRUE)
    <2>1. Okay(k)
      <3>1. w.e.swap = "WRITING"
        BY <1>1, <1>5, <1>13 DEF SameSwap
      <3> QED
        BY <3>1, <1>14, <1>16, ClosedStateOkay
    <2>2. t.sc \in [Clients -> StoreClients]
      BY <1>5 DEF Okay
    <2>3. /\ l.e = Closed(q, TRUE) /\ k.e = Closed(y, TRUE) /\ k.sc = l.sc
          /\ \A c \in Clients : l.sc[c] = s.sc[c] \/ l.sc[c] = FileLost(s.sc[c], TRUE)
      <3>1. l.e = Closed(q, TRUE) /\ k.e = Closed(y, TRUE) /\ k.sc = l.sc
        BY <1>5 DEF ClosedState
      <3> QED
        BY <3>1, <2>2, <1>5, ClosedClients
    <2> HIDE DEF k, l, r
    <2>4. /\ l.e \in Entries /\ SameObject(q, l.e) /\ SameFile(q, l.e)
          /\ l.e.lo = q.lo /\ l.e.swap = "NONE" /\ l.e.release /\ l.e.hdr = q.hdr
          /\ ~l.e.sio /\ ~l.e.opening /\ ~l.e.closing
      BY <2>3, <1>6, FailedEntry
    <2>5. /\ k.e \in Entries /\ SameObject(y, k.e) /\ SameFile(y, k.e)
          /\ k.e.lo = y.lo /\ k.e.swap = "NONE" /\ k.e.release /\ k.e.hdr = y.hdr
          /\ ~k.e.sio /\ ~k.e.opening /\ ~k.e.closing
      BY <2>3, <1>8, FailedEntry
    <2>6. SameObject(k.e, l.e)
      BY <2>4, <2>5, <1>8 DEF SameObject
    <2>7. SameSwap(k.e, l.e)
      <3>1. l.e.hdr = k.e.hdr
        BY <2>4, <2>5, <1>8 DEF SameSwap
      <3>2. l.e.release = k.e.release /\ l.e.sio = k.e.sio
            /\ l.e.opening = k.e.opening /\ l.e.closing = k.e.closing
        BY <2>4, <2>5 DEF Entries
      <3> QED
        BY <3>1, <3>2, <2>4, <2>5 DEF SameSwap
    <2>8. l.e.queue = k.e.queue /\ l.e.node = k.e.node /\ l.e.lo = k.e.lo
      BY <2>4, <2>5, <1>8 DEF SameFile
    <2>9. l.e.file <= l.e.queue
      <3>1. x.file <= x.queue
        BY <1>1 DEF EntryOkay, InTheFile, DiskOnly
      <3> QED
        BY <3>1, <2>4, <1>2, <1>6, <1>9 DEF SameFile
    <2>10. k.e.hi > 0
      BY <2>5, <1>1, <1>13 DEF SameObject
    <2>11. Okay(l)
      BY <2>1, <2>3, <2>4, <2>5, <2>6, <2>7, <2>8, <2>9, <2>10, LostFileOkay
    <2>12. Okay(r) /\ Frame(l, r) /\ r.e.swap = "NONE"
      <3>1. t.e \in Entries /\ t.e.swap = "WRITING"
        BY <1>1, <1>5, <1>6 DEF SameSwap
      <3> QED
        BY <3>1, <2>11, FileClosedOkay DEF l, r
    <2>13. Frame(s, l)
      <3>1. SameObject(x, l.e)
        BY <2>4, <1>6 DEF SameObject
      <3> QED
        BY <3>1, <2>3, <2>4 DEF Frame
    <2>14. Frame(s, r)
      BY <2>12, <2>13, FrameTrans DEF Okay
    <2>15. WritePage(s, env) = r
      BY <1>7, <1>16 DEF r
    <2> QED
      BY <2>12, <2>14, <2>15 DEF Turn
  <1> QED
    BY <1>12, <1>15, <1>16

\* f holds the states of the loop's first k turns
PageWalk(f, s, env, k) == f = [i \in 0..k |-> IF i = 0 THEN s ELSE WriteNext(f[i - 1], env)]

LEMMA PageWalkExists ==
  ASSUME NEW s, NEW env
  PROVE  \A k \in Nat : \E f : PageWalk(f, s, env, k)
  <1> DEFINE T == {k \in Nat : ~\E f : PageWalk(f, s, env, k)}
             Step(r, i) == IF i = 0 THEN s ELSE WriteNext(r, env)
  <1> SUFFICES ASSUME T # {} PROVE FALSE
    OBVIOUS
  <1>1. PICK m \in T : \A n \in T : m <= n
    BY LeastNatural
  <1>2. m # 0
    <2>1. PageWalk([i \in 0..0 |-> s], s, env, 0)
      BY DEF PageWalk
    <2> QED
      BY <2>1
  <1>3. m - 1 \in Nat /\ m - 1 \notin T
    BY <1>1, <1>2
  <1>4. PICK f : PageWalk(f, s, env, m - 1)
    BY <1>3
  <1> DEFINE g == [i \in 0..m |-> IF i = m THEN Step(f[m - 1], m) ELSE f[i]]
  <1>5. \A i \in 0..(m - 1) : f[i] = Step(f[i - 1], i)
    BY <1>3, <1>4 DEF PageWalk
  <1> HIDE DEF Step
  <1>6. \A i \in 0..m : g[i] = Step(g[i - 1], i)
    <2> SUFFICES ASSUME NEW i \in 0..m PROVE g[i] = Step(g[i - 1], i)
      OBVIOUS
    <2>1. CASE i = m
      BY <2>1, <1>2, <1>3
    <2>2. CASE i # m /\ i # 0
      BY <2>2, <1>3, <1>5
    <2>3. CASE i = 0
      BY <2>3, <1>2, <1>3, <1>5 DEF Step
    <2> QED
      BY <2>1, <2>2, <2>3
  <1>7. PageWalk(g, s, env, m)
    BY <1>6 DEF PageWalk, Step
  <1> QED
    BY <1>7

(* The loop writes page after page, and all of a complete object.            *)
LEMMA WritePagesOkay ==
  ASSUME NEW s, Okay(s), NEW env \in Envs, s.e.sio
  PROVE  LET t == WritePages(s, env)
         IN  /\ Okay(t) /\ Frame(s, t)
             /\ t.e.sio /\ t.e.store = "OK" => t.e.hi = t.e.queue
  <1> DEFINE P == SM_PAGE_SIZE
             n == s.e.hi \div P + 1
             f == CHOOSE g : PageWalk(g, s, env, n)
             Fine(i) == /\ Okay(f[i]) /\ Frame(s, f[i])
                        /\ f[i].e.swap = "WRITING" => f[i].e.sio
                        /\ f[i].e.swap = "WRITING" /\ f[i].e.store = "OK" =>
                              f[i].e.queue = f[i].e.hi \/ f[i].e.queue >= i * P
             T == {i \in Nat : i <= n /\ ~Fine(i)}
  <1>1. P \in Nat \ {0} /\ s.e.hi \in Nat
    BY TransferAssumption DEF Okay, EntryOkay, Entries
  <1>2. n \in Nat /\ s.e.hi < n * P
    <2>1. s.e.hi \div P \in Nat /\ s.e.hi < (s.e.hi \div P) * P + P
      BY <1>1
    <2> DEFINE k == s.e.hi \div P
    <2> HIDE DEF k, P
    <2>2. (k + 1) * P = k * P + P
      BY <2>1, <1>1 DEF k
    <2> QED
      BY <2>1, <2>2 DEF k
  <1>3. PageWalk(f, s, env, n)
    <2> HIDE DEF n
    <2> QED
      BY <1>2, PageWalkExists
  <1>4. WritePages(s, env) = f[n]
    BY DEF WritePages, PageWalk
  <1> HIDE DEF f, n, P
  <1>5. \A i \in 0..n : f[i] = IF i = 0 THEN s ELSE WriteNext(f[i - 1], env)
    BY <1>3 DEF PageWalk
  <1>6. Fine(0)
    <2>1. f[0] = s
      BY <1>2, <1>5
    <2>2. 0 * P = 0 /\ s.e.queue \in Nat
      BY <1>1 DEF Okay, EntryOkay, Entries
    <2> QED
      BY <2>1, <2>2, FrameSame
  <1>7. ASSUME NEW i \in Nat, i # 0, i <= n, Fine(i - 1) PROVE Fine(i)
    <2> DEFINE r == f[i - 1]
               t == WriteNext(r, env)
    <2>1. f[i] = t
      BY <1>2, <1>5, <1>7
    <2>2. Okay(r) /\ Frame(s, r) /\ (r.e.swap = "WRITING" => r.e.sio)
      BY <1>7
    <2>3. r.e.swap = "WRITING" /\ r.e.store = "OK" =>
             r.e.queue = r.e.hi \/ r.e.queue >= (i - 1) * P
      BY <1>7
    <2> HIDE DEF r
    <2>4. /\ r.e.queue \in Nat /\ r.e.hi \in Nat /\ r.e.queue <= r.e.hi
          /\ r.e.store \in {"PENDING", "OK"}
      BY <2>2 DEF Okay, EntryOkay, Entries, Offsets
    <2>5. i * P = (i - 1) * P + P /\ (i - 1) * P \in Nat
      BY <1>1, <1>7
    <2> DEFINE a == i * P
               b == (i - 1) * P
    <2> HIDE DEF a, b
    <2>6. CASE r.e.swap = "WRITING" /\ r.e.hi - r.e.queue >= Enough(r)
      <3>1. t = WritePage(r, env)
        BY <2>6 DEF WriteNext
      <3>2. Turn(r, t)
        BY <3>1, <2>2, <2>6, WritePageOkay
      <3> HIDE DEF t
      <3>3. Frame(s, t)
        BY <3>2, <2>2, FrameTrans DEF Turn, Okay
      <3>4. t.e.store = r.e.store /\ t.e.hi = r.e.hi
        BY <3>2 DEF Turn, Frame, SameObject
      <3>5. ASSUME t.e.swap = "WRITING", t.e.store = "OK"
            PROVE  t.e.queue = t.e.hi \/ t.e.queue >= a
        <4>1. CASE t.e.queue = r.e.queue + P
          <5>1. r.e.swap = "WRITING" /\ r.e.store = "OK"
            BY <2>6, <3>4, <3>5
          <5>2. r.e.hi - r.e.queue >= 1
            BY <2>6, <5>1 DEF Enough
          <5>3. r.e.queue >= b
            BY <5>1, <5>2, <2>3, <2>4 DEF b
          <5> QED
            BY <4>1, <5>3, <2>4, <2>5, <1>1 DEF a, b
        <4>2. CASE t.e.queue = t.e.hi
          BY <4>2
        <4> QED
          BY <4>1, <4>2, <3>2, <3>5 DEF Turn, P
      <3> QED
        BY <2>1, <3>2, <3>3, <3>5 DEF Turn, a
    <2>7. CASE ~(r.e.swap = "WRITING" /\ r.e.hi - r.e.queue >= Enough(r))
      <3>1. t = r
        BY <2>7 DEF WriteNext
      <3>2. r.e.swap = "WRITING" /\ r.e.store = "OK" => r.e.queue = r.e.hi
        BY <2>4, <2>7 DEF Enough
      <3> HIDE DEF t
      <3> QED
        BY <2>1, <2>2, <3>1, <3>2
    <2> QED
      BY <2>6, <2>7
  <1> HIDE DEF Fine
  <1>8. T = {}
    <2> SUFFICES ASSUME T # {} PROVE FALSE
      OBVIOUS
    <2>1. PICK i \in T : \A j \in T : i <= j
      BY LeastNatural
    <2>2. i \in Nat /\ i <= n /\ ~Fine(i) /\ i # 0
      BY <2>1, <1>6
    <2>3. i - 1 \in Nat /\ i - 1 <= n
      BY <2>2, <1>2
    <2>4. Fine(i - 1)
      BY <2>1, <2>2, <2>3
    <2> QED
      BY <2>2, <2>4, <1>7
  <1>9. Fine(n)
    BY <1>2, <1>8
  <1> DEFINE t == f[n]
  <1>10. /\ Okay(t) /\ Frame(s, t)
         /\ t.e.swap = "WRITING" /\ t.e.store = "OK" =>
               t.e.queue = t.e.hi \/ t.e.queue >= n * P
    BY <1>9 DEF Fine
  <1> HIDE DEF t
  <1>11. ASSUME t.e.sio, t.e.store = "OK" PROVE t.e.hi = t.e.queue
    <2>1. t.e.swap = "WRITING"
      BY <1>10, <1>11 DEF Okay, EntryOkay, Writing
    <2>2. t.e.hi = s.e.hi /\ t.e.queue \in Nat /\ t.e.queue <= t.e.hi
      BY <1>10 DEF Okay, EntryOkay, Entries, Offsets, Frame, SameObject
    <2>3. n * P \in Nat
      BY <1>1, <1>2
    <2> QED
      BY <2>1, <2>2, <2>3, <1>1, <1>2, <1>10, <1>11
  <1> QED
    BY <1>4, <1>10, <1>11 DEF t

(* The file is written, and closed when all of it is there.                  *)
LEMMA WriteIfOpenOkay ==
  ASSUME NEW s, Okay(s), NEW env \in Envs
  PROVE  LET t == WriteIfOpen(s, env) IN Okay(t) /\ Frame(s, t)
  <1> DEFINE t == WriteIfOpen(s, env)
             r == WritePages(s, env)
             p == r.e.hi = r.e.queue
             a == Asserted(r, p)
             k == storeSwapOutFileClose(a)
  <1>1. CASE ~s.e.sio
    BY <1>1, FrameSame DEF WriteIfOpen
  <1>2. CASE s.e.sio
    <2>1. /\ Okay(r) /\ Frame(s, r)
          /\ r.e.sio /\ r.e.store = "OK" => p
      BY <1>2, WritePagesOkay
    <2>2. t = IF r.e.sio /\ r.e.store = "OK" THEN k ELSE r
      BY <1>2 DEF WriteIfOpen, CloseIfComplete
    <2> HIDE DEF r
    <2>3. CASE r.e.sio /\ r.e.store = "OK"
      <3>1. p /\ r.e \in Entries
        BY <2>1, <2>3 DEF Okay, EntryOkay
      <3>2. a.e = r.e /\ a.sc = r.sc
        BY <3>1, AssertedSame
      <3>3. r.e.hi = r.e.queue
        BY <3>1
      <3> HIDE DEF p, a
      <3>4. Okay(a) /\ Frame(r, a)
        BY <2>1, <3>2 DEF Okay, Frame, SameObject
      <3>5. Okay(k) /\ Frame(a, k)
        BY <3>2, <3>3, <3>4, <2>3, FileCloseOkay
      <3> HIDE DEF k
      <3>6. Frame(s, k)
        BY <2>1, <3>4, <3>5, FrameTrans DEF Okay
      <3> HIDE DEF t
      <3>7. Okay(t) /\ Frame(s, t)
        BY <2>2, <2>3, <3>5, <3>6
      <3> QED
        BY <3>7 DEF t
    <2>4. CASE ~(r.e.sio /\ r.e.store = "OK")
      BY <2>1, <2>2, <2>4
    <2> QED
      BY <2>3, <2>4
  <1> QED
    BY <1>1, <1>2

(* storeCheckCachable answers yes or no, and the file is created or not.     *)
LEMMA StartOrReleaseOkay ==
  ASSUME NEW s, Okay(s), NEW env \in Envs, s.e.swap = "NONE", s.e.lo = 0, s.e.hi > 0,
         ~s.e.release \/ s.e.inMemory
  PROVE  LET t == StartOrRelease(s, env) IN Okay(t) /\ Frame(s, t)
  <1> DEFINE t == StartOrRelease(s, env)
             p == ~s.e.sio /\ s.e.lo = 0
             a == Asserted(s, p)
             r == storeReleaseRequest(a)
             m == storeSwapOutMaintainMemObject(r)
             o == storeSwapOutStart(a, env)
  <1>1. p /\ s.e \in Entries
    BY DEF Okay, EntryOkay, Writing
  <1>2. a.e = s.e /\ a.sc = s.sc
    BY <1>1, AssertedSame
  <1>3. t = IF env.tooMany THEN m ELSE o
    BY DEF StartOrRelease
  <1> HIDE DEF a
  <1>4. Okay(a) /\ Frame(s, a)
    BY <1>2 DEF Okay, Frame, SameObject
  <1>5. Okay(o) /\ Frame(a, o)
    BY <1>2, <1>4, StartOkay
  <1>6. Okay(r) /\ Frame(a, r)
    BY <1>4, ReleaseOkay
  <1> HIDE DEF r, o
  <1>7. Okay(m) /\ Frame(r, m)
    BY <1>6, MaintainOkay
  <1> HIDE DEF m, t
  <1>8. Frame(s, m) /\ Frame(s, o)
    BY <1>4, <1>5, <1>6, <1>7, FrameTrans DEF Okay
  <1>9. Okay(t) /\ Frame(s, t)
    BY <1>3, <1>5, <1>7, <1>8
  <1> QED
    BY <1>9 DEF t

(* storeSwapOut, once memory has been freed.                                 *)
LEMMA SwapOutRestOkay ==
  ASSUME NEW s, Okay(s), NEW env \in Envs, ~s.e.release \/ s.e.inMemory
  PROVE  LET t == SwapOutRest(s, env) IN Okay(t) /\ Frame(s, t)
  <1> DEFINE t == SwapOutRest(s, env)
             k == storeSwapOutFileClose(s)
             o == IF s.e.swap = "NONE" THEN StartOrRelease(s, env) ELSE s
             w == WriteIfOpen(o, env)
  <1>1. /\ EntryOkay(s.e) /\ s.e.hi \in Nat /\ s.e.queue \in Nat /\ s.e.queue <= s.e.hi
    BY DEF Okay, EntryOkay, Entries, Offsets
  <1>2. \/ t = s
        \/ s.e.hi = s.e.queue /\ s.e.store = "OK" /\ t = k
        \/ s.e.hi # s.e.queue /\ t = w
    BY <1>1 DEF SwapOutRest
  <1>3. CASE t = s
    BY <1>3, FrameSame
  <1>4. CASE s.e.hi = s.e.queue /\ s.e.store = "OK" /\ t = k
    BY <1>4, FileCloseOkay
  <1>5. CASE s.e.hi # s.e.queue /\ t = w
    <2>1. Okay(o) /\ Frame(s, o)
      <3>1. CASE s.e.swap = "NONE"
        <4>1. s.e.lo = 0
          BY <3>1, <1>1 DEF EntryOkay, InTheFile, WholeObject
        <4> QED
          BY <3>1, <4>1, <1>1, <1>5, StartOrReleaseOkay
      <3>2. CASE s.e.swap # "NONE"
        BY <3>2, FrameSame
      <3> QED
        BY <3>1, <3>2
    <2> HIDE DEF o
    <2>2. Okay(w) /\ Frame(o, w)
      BY <2>1, WriteIfOpenOkay
    <2> HIDE DEF w
    <2>3. Frame(s, w)
      BY <2>1, <2>2, FrameTrans DEF Okay
    <2> QED
      BY <2>2, <2>3, <1>5
  <1> QED
    BY <1>2, <1>3, <1>4, <1>5

(* storeSwapOut keeps the invariant; the object and, but for a file that is  *)
(* lost, the clients are as before.                                          *)
LEMMA SwapOutOkay ==
  ASSUME NEW s, Okay(s), NEW env \in Envs
  PROVE  LET t == storeSwapOut(s, env) IN Okay(t) /\ Frame(s, t)
  <1> DEFINE t == storeSwapOut(s, env)
             p == s.e.hi >= s.e.queue
             a == Asserted(s, p)
             q == s.e.release
             b == Asserted(s, q)
             k == storeSwapOutFileClose(b)
             m == storeSwapOutMaintainMemObject(a)
             r == SwapOutRest(m, env)
  <1>1. /\ EntryOkay(s.e) /\ s.e \in Entries /\ p
    BY DEF Okay, EntryOkay, Entries, Offsets
  <1>2. a.e = s.e /\ a.sc = s.sc
    BY <1>1, AssertedSame
  <1>3. \/ s.e.aborted /\ t = k
        \/ t = a
        \/ (s.e.inMemory \/ storeSwapOutAble(a)) /\ t = r
        \/ t = m
    BY DEF storeSwapOut
  <1> HIDE DEF a, p
  <1>4. Okay(a) /\ Frame(s, a)
    BY <1>2 DEF Okay, Frame, SameObject
  <1>5. /\ Okay(m) /\ Frame(a, m)
        /\ a.e.inMemory \/ storeSwapOutAble(a) => SameSwap(a.e, m.e)
    BY <1>4, MaintainOkay
  <1> HIDE DEF m
  <1>6. Frame(s, m)
    BY <1>4, <1>5, FrameTrans DEF Okay
  <1>7. CASE s.e.aborted /\ t = k
    <2>1. q
      BY <1>1, <1>7 DEF EntryOkay, WholeObject
    <2>2. b.e = s.e /\ b.sc = s.sc
      BY <1>1, <2>1, AssertedSame
    <2>3. s.e.release
      BY <2>1
    <2> HIDE DEF b, q
    <2>4. Okay(b) /\ Frame(s, b)
      BY <2>2 DEF Okay, Frame, SameObject
    <2>5. Okay(k) /\ Frame(b, k)
      BY <2>2, <2>3, <2>4, FileCloseOkay
    <2> HIDE DEF k
    <2>6. Frame(s, k)
      BY <2>4, <2>5, FrameTrans DEF Okay
    <2> QED
      BY <2>5, <2>6, <1>7
  <1>8. CASE t = a
    BY <1>4, <1>8
  <1>9. CASE t = m
    BY <1>5, <1>6, <1>9
  <1>10. CASE (s.e.inMemory \/ storeSwapOutAble(a)) /\ t = r
    <2>1. SameSwap(a.e, m.e)
      BY <1>2, <1>5, <1>10
    <2>2. ~m.e.release \/ m.e.inMemory
      <3>1. CASE s.e.inMemory
        BY <3>1, <1>6 DEF Frame, SameObject
      <3>2. CASE storeSwapOutAble(a)
        BY <3>2, <2>1 DEF storeSwapOutAble, SameSwap
      <3> QED
        BY <3>1, <3>2, <1>10
    <2>3. Okay(r) /\ Frame(m, r)
      BY <2>2, <1>5, SwapOutRestOkay
    <2> HIDE DEF r
    <2>4. Frame(s, r)
      BY <2>3, <1>6, FrameTrans DEF Okay
    <2> QED
      BY <2>3, <2>4, <1>10
  <1> QED
    BY <1>3, <1>7, <1>8, <1>9, <1>10
-----------------------------------------------------------------------------
LEMMA ToldClient ==
  ASSUME NEW y \in StoreClients, NEW st \in {"ready", "end", "cut"}, NEW got \in Nat
  PROVE  LET z == Told(y, st, got)
         IN  /\ z \in StoreClients
             /\ z.type = y.type /\ z.st = st /\ z.off = y.off /\ z.got = got
             /\ z.event = y.event /\ z.swapin = y.swapin /\ z.io = y.io
             /\ z.failed = y.failed
  BY DEF Told, StoreClients

LEMMA AskingClient ==
  ASSUME NEW y \in StoreClients
  PROVE  LET z == Asking(y)
         IN  /\ z \in StoreClients
             /\ z.type = y.type /\ z.st = "waiting" /\ z.off = y.got /\ z.got = y.got
             /\ z.event = y.event /\ z.swapin = y.swapin /\ z.io = y.io
             /\ z.failed = y.failed
  BY DEF Asking, StoreClients

LEMMA EventClient ==
  ASSUME NEW y \in StoreClients, NEW queued \in BOOLEAN
  PROVE  LET z == Event(y, queued)
         IN  /\ z \in StoreClients
             /\ z.type = y.type /\ z.st = y.st /\ z.off = y.off /\ z.got = y.got
             /\ z.event = queued /\ z.swapin = y.swapin /\ z.io = y.io
             /\ z.failed = y.failed
  BY DEF Event, StoreClients

LEMMA InFileClient ==
  ASSUME NEW y \in StoreClients, NEW size \in Nat \cup {-1}
  PROVE  LET z == InFile(y, size)
         IN  /\ z \in StoreClients
             /\ z.type = y.type /\ z.st = y.st /\ z.off = y.off /\ z.got = y.got
             /\ z.event = y.event /\ z.swapin = y.swapin /\ z.io = size
             /\ z.failed = y.failed
  BY DEF InFile, StoreClients

LEMMA SwapInClient ==
  ASSUME NEW y \in StoreClients, NEW state \in {"none", "opening", "open"}
  PROVE  LET z == SwapIn(y, state)
         IN  /\ z \in StoreClients
             /\ z.type = y.type /\ z.st = y.st /\ z.off = y.off /\ z.got = y.got
             /\ z.event = y.event /\ z.swapin = state /\ z.io = y.io
             /\ z.failed = y.failed
  BY DEF SwapIn, StoreClients

(* A client may change by itself.                                            *)
LEMMA WithClientOkay ==
  ASSUME NEW s, Okay(s), NEW c \in Clients, NEW z, ClientOkay(s.e, z)
  PROVE  LET t == WithClient(s, c, z)
         IN  /\ Okay(t) /\ t.e = s.e /\ t.sc[c] = z
             /\ \A d \in Clients \ {c} : t.sc[d] = s.sc[d]
  <1>1. s.sc \in [Clients -> StoreClients] /\ z \in StoreClients
    BY DEF Okay, ClientOkay
  <1> QED
    BY <1>1 DEF Okay, WithClient

\* the client whose callback is set, and whom nothing else will answer
Waits(y) == y.st = "waiting" /\ y.io = -1

(* A client that waits is told something.                                    *)
LEMMA ToldOkay ==
  ASSUME NEW x, EntryOkay(x), NEW y, ClientOkay(x, y), Waits(y),
         NEW st \in {"ready", "end", "cut"}, NEW got \in Nat,
         st # "ready" => got = y.got,
         st = "cut" => y.failed \/ got = 0,
         st = "end" /\ InOrder /\ ~y.failed => x.store = "OK" /\ got = x.object_sz,
         st = "ready" => /\ got >= y.off
                         /\ got <= x.hi \/ (DiskOnly(x) /\ x.hdr /\ got <= x.object_sz)
                         /\ y.type = "disk" => x.hdr /\ (y.failed \/ y.swapin # "none")
                         /\ InOrder /\ x.opening /\ y.type = "disk" => got >= x.lo
  PROVE  ClientOkay(x, Told(y, st, got))
  <1> DEFINE z == Told(y, st, got)
  <1>1. y \in StoreClients /\ y.st # "out"
    BY DEF ClientOkay, Waits
  <1>2. /\ z \in StoreClients
        /\ z.type = y.type /\ z.st = st /\ z.off = y.off /\ z.got = got
        /\ z.event = y.event /\ z.swapin = y.swapin /\ z.io = y.io
        /\ z.failed = y.failed
    BY <1>1, ToldClient
  <1> HIDE DEF z
  <1>3. Place(x, y) /\ Source(x, y) /\ Ends(x, y)
    BY <1>1 DEF ClientOkay
  <1>4. z.io = -1 /\ y.off \in Nat /\ y.got \in Nat
    BY <1>1, <1>2 DEF Waits, StoreClients
  <1>5. Place(x, z)
    BY <1>2, <1>3, <1>4 DEF Place
  <1>6. Source(x, z)
    <2>1. y.type = "disk" => \/ x.hdr /\ (x.hi > 0 \/ DiskOnly(x))
                             \/ DiskOnly(x) /\ got = 0
      BY <1>3 DEF Source
    <2> QED
      BY <2>1, <1>2, <1>3, <1>4 DEF Source
  <1>7. Ends(x, z)
    BY <1>2, <1>3, <1>4 DEF Ends
  <1> QED
    BY <1>2, <1>5, <1>6, <1>7 DEF ClientOkay, z

\* what serving clients leaves alone: the object, and that it is released
Keeps(s, t) == SameObject(s.e, t.e) /\ (s.e.release => t.e.release)

LEMMA KeepsTrans ==
  ASSUME NEW r, NEW s, NEW t, Keeps(r, s), Keeps(s, t)
  PROVE  Keeps(r, t)
  BY DEF Keeps, SameObject

LEMMA KeepsSame ==
  ASSUME NEW s, NEW t, t.e = s.e
  PROVE  Keeps(s, t)
  BY DEF Keeps, SameObject

(* A lost file changes nothing else of a client.                             *)
LEMMA FrameClient ==
  ASSUME NEW s, NEW t, Okay(s), Frame(s, t), NEW c \in Clients
  PROVE  /\ t.sc[c].type = s.sc[c].type /\ t.sc[c].st = s.sc[c].st
         /\ t.sc[c].off = s.sc[c].off /\ t.sc[c].got = s.sc[c].got
         /\ t.sc[c].event = s.sc[c].event /\ t.sc[c].swapin = s.sc[c].swapin
         /\ t.sc[c].io = s.sc[c].io /\ (s.sc[c].failed => t.sc[c].failed)
  <1>1. s.sc[c] \in StoreClients
    BY DEF Okay, ClientOkay
  <1>2. CASE t.sc[c] = s.sc[c]
    BY <1>2
  <1>3. CASE t.sc[c] = FileLost(s.sc[c], TRUE)
    <2> DEFINE y == s.sc[c]
               z == FileLost(y, TRUE)
    <2>1. /\ z.type = y.type /\ z.st = y.st /\ z.off = y.off /\ z.got = y.got
          /\ z.event = y.event /\ z.swapin = y.swapin /\ z.io = y.io
      BY <1>1, LostClient
    <2>2. y.failed => z.failed
      BY <1>1, LostClient
    <2>3. t.sc[c] = z
      BY <1>3
    <2> HIDE DEF z
    <2> QED
      BY <2>1, <2>2, <2>3
  <1> QED
    BY <1>2, <1>3 DEF Frame

(* A client asks for more, which may swap out what held the server back.     *)
LEMMA AskOkay ==
  ASSUME NEW s, Okay(s), NEW c \in Clients, NEW env \in Envs, s.sc[c].st = "ready"
  PROVE  LET t == Ask(s, c, env)
         IN  /\ Okay(t) /\ Keeps(s, t) /\ Waits(t.sc[c])
             /\ t.sc[c].event = s.sc[c].event
  <1> DEFINE y == s.sc[c]
             z == Asking(y)
             u == WithClient(s, c, z)
             w == storeSwapOut(u, env)
             t == Ask(s, c, env)
  <1>1. ClientOkay(s.e, y) /\ y \in StoreClients /\ y.st = "ready"
    BY DEF Okay, ClientOkay
  <1>2. /\ z \in StoreClients
        /\ z.type = y.type /\ z.st = "waiting" /\ z.off = y.got /\ z.got = y.got
        /\ z.event = y.event /\ z.swapin = y.swapin /\ z.io = y.io
        /\ z.failed = y.failed
    BY <1>1, AskingClient
  <1>3. t = IF s.e.defer THEN w ELSE u
    BY DEF Ask
  <1> HIDE DEF y, z
  <1>4. Place(s.e, y) /\ Source(s.e, y) /\ Ends(s.e, y) /\ y.io = -1
    <2>1. Place(s.e, y) /\ Source(s.e, y) /\ Ends(s.e, y)
      BY <1>1 DEF ClientOkay
    <2> QED
      BY <2>1, <1>1 DEF Source, StoreClients
  <1>5. Place(s.e, z)
    <2>1. s.e.lo \in Nat /\ y.off \in Nat /\ y.got \in Nat
      BY <1>1 DEF Okay, EntryOkay, Entries, StoreClients
    <2> QED
      BY <2>1, <1>2, <1>4 DEF Place
  <1>6. Source(s.e, z)
    BY <1>2, <1>4 DEF Source
  <1>7. Ends(s.e, z)
    BY <1>2, <1>4 DEF Ends
  <1>8. ClientOkay(s.e, z)
    BY <1>2, <1>5, <1>6, <1>7 DEF ClientOkay
  <1>9. Okay(u) /\ u.e = s.e /\ u.sc[c] = z
    BY <1>8, WithClientOkay
  <1> HIDE DEF u
  <1>10. Okay(w) /\ Frame(u, w)
    BY <1>9, SwapOutOkay
  <1> HIDE DEF w
  <1>11. Waits(z)
    BY <1>2, <1>4 DEF Waits
  <1>12. Waits(w.sc[c]) /\ w.sc[c].event = z.event
    BY <1>9, <1>10, <1>11, FrameClient DEF Waits
  <1>13. Keeps(s, w) /\ Keeps(s, u)
    BY <1>9, <1>10 DEF Keeps, Frame, SameObject
  <1> HIDE DEF t
  <1>14. Okay(t) /\ Keeps(s, t) /\ Waits(t.sc[c]) /\ t.sc[c].event = y.event
    BY <1>2, <1>3, <1>9, <1>10, <1>11, <1>12, <1>13
  <1> QED
    BY <1>14 DEF t, y

(* An event is queued for a client that waits, or has run.                   *)
LEMMA EventOkay ==
  ASSUME NEW s, Okay(s), NEW c \in Clients, NEW queued \in BOOLEAN,
         ~queued \/ Waits(s.sc[c]), s.sc[c].st # "out"
  PROVE  LET t == WithClient(s, c, Event(s.sc[c], queued))
         IN  /\ Okay(t) /\ t.e = s.e /\ t.sc[c].st = s.sc[c].st
             /\ t.sc[c].io = s.sc[c].io /\ t.sc[c].event = queued
  <1> DEFINE y == s.sc[c]
             z == Event(y, queued)
             t == WithClient(s, c, z)
  <1>1. ClientOkay(s.e, y) /\ y \in StoreClients
    BY DEF Okay, ClientOkay
  <1>2. /\ z \in StoreClients
        /\ z.type = y.type /\ z.st = y.st /\ z.off = y.off /\ z.got = y.got
        /\ z.event = queued /\ z.swapin = y.swapin /\ z.io = y.io
        /\ z.failed = y.failed
    BY <1>1, EventClient
  <1>3. ~queued \/ y.io < 0
    BY <1>1 DEF Waits
  <1>4. y.st # "out"
    OBVIOUS
  <1> HIDE DEF y, z
  <1>5. Place(s.e, y) /\ Source(s.e, y) /\ Ends(s.e, y)
    BY <1>1, <1>4 DEF ClientOkay
  <1>6. Place(s.e, z)
    BY <1>2, <1>5 DEF Place
  <1>7. Source(s.e, z)
    <2>1. z.io >= 0 => ~z.event
      BY <1>1, <1>2, <1>3 DEF StoreClients
    <2> QED
      BY <2>1, <1>2, <1>5 DEF Source
  <1>8. Ends(s.e, z)
    BY <1>2, <1>5 DEF Ends
  <1>9. ClientOkay(s.e, z)
    BY <1>2, <1>4, <1>6, <1>7, <1>8 DEF ClientOkay
  <1>10. Okay(t) /\ t.e = s.e /\ t.sc[c] = z
    BY <1>9, WithClientOkay
  <1> HIDE DEF t
  <1>11. /\ Okay(t) /\ t.e = s.e /\ t.sc[c].st = y.st
         /\ t.sc[c].io = y.io /\ t.sc[c].event = queued
    BY <1>2, <1>10
  <1> QED
    BY <1>11 DEF t, z, y

\* what a client that waits has after sz bytes more
Has(y, sz) == IF y.off = 0 THEN 1 ELSE y.off + sz

\* sz bytes may be given to the client, or none, or an error
MayGive(x, y, sz) ==
    /\ sz < 0 => y.failed \/ y.got = 0
    /\ sz = 0 /\ y.off # 0 /\ InOrder /\ ~y.failed => x.store = "OK" /\ y.off = x.object_sz
    /\ sz > 0 \/ (sz = 0 /\ y.off = 0 /\ x.hi > 0) =>
          /\ Has(y, sz) <= x.hi \/ (DiskOnly(x) /\ x.hdr /\ Has(y, sz) <= x.object_sz)
          /\ y.type = "disk" => x.hdr /\ (y.failed \/ y.swapin # "none")
          /\ InOrder /\ x.opening /\ y.type = "disk" => Has(y, sz) >= x.lo

(* The callback.                                                             *)
LEMMA CallbackOkay ==
  ASSUME NEW s, Okay(s), NEW c \in Clients, NEW sz \in Int, Waits(s.sc[c]),
         MayGive(s.e, s.sc[c], sz)
  PROVE  LET t == storeClientCallback(s, c, sz)
         IN  /\ Okay(t) /\ t.e = s.e /\ t.sc[c].st \in {"ready", "end", "cut"}
             /\ t.sc[c].failed = s.sc[c].failed /\ t.sc[c].event = s.sc[c].event
  <1> DEFINE y == s.sc[c]
             first == y.off = 0
             st    == IF sz > 0 \/ (sz = 0 /\ first /\ s.e.hi > 0) THEN "ready"
                      ELSE IF sz = 0 /\ ~first THEN "end" ELSE "cut"
             got   == IF st # "ready" THEN y.got
                      ELSE IF first THEN 1 ELSE y.off + sz
             z == Told(y, st, got)
             t == WithClient(s, c, z)
  <1>1. storeClientCallback(s, c, sz) = t
    BY DEF storeClientCallback
  <1>2. EntryOkay(s.e) /\ ClientOkay(s.e, y) /\ y \in StoreClients /\ Waits(y)
        /\ MayGive(s.e, y, sz)
    BY DEF Okay, ClientOkay
  <1>3. y.off = y.got /\ y.off \in Nat /\ y.got \in Nat /\ s.e.hi \in Nat
    BY <1>2 DEF ClientOkay, Waits, Place, StoreClients, EntryOkay, Entries
  <1> HIDE DEF y
  <1>4. /\ st \in {"ready", "end", "cut"} /\ got \in Nat
        /\ st # "ready" => got = y.got
        /\ st = "ready" => /\ sz > 0 \/ (sz = 0 /\ y.off = 0 /\ s.e.hi > 0)
                           /\ got = Has(y, sz) /\ got >= y.off
        /\ st = "end" => sz = 0 /\ y.off # 0
        /\ st = "cut" => sz < 0 \/ (sz = 0 /\ y.off = 0)
    BY <1>3 DEF Has
  <1> HIDE DEF st, got
  <1>5. ClientOkay(s.e, z)
    <2>1. st = "cut" => y.failed \/ got = 0
      BY <1>2, <1>3, <1>4 DEF MayGive
    <2>2. st = "end" /\ InOrder /\ ~y.failed => s.e.store = "OK" /\ got = s.e.object_sz
      BY <1>2, <1>3, <1>4 DEF MayGive
    <2>3. st = "ready" =>
            /\ got >= y.off
            /\ got <= s.e.hi \/ (DiskOnly(s.e) /\ s.e.hdr /\ got <= s.e.object_sz)
            /\ y.type = "disk" => s.e.hdr /\ (y.failed \/ y.swapin # "none")
            /\ InOrder /\ s.e.opening /\ y.type = "disk" => got >= s.e.lo
      BY <1>2, <1>4 DEF MayGive
    <2> QED
      BY <1>2, <1>4, <2>1, <2>2, <2>3, ToldOkay
  <1>6. z.st = st /\ z.failed = y.failed /\ z.event = y.event
    <2>1. y \in StoreClients /\ st \in {"ready", "end", "cut"} /\ got \in Nat
      BY <1>2, <1>4
    <2> QED
      BY <2>1, ToldClient
  <1> HIDE DEF z
  <1>7. Okay(t) /\ t.e = s.e /\ t.sc[c] = z
    BY <1>5, WithClientOkay
  <1> HIDE DEF t
  <1>8. /\ Okay(t) /\ t.e = s.e /\ t.sc[c].st \in {"ready", "end", "cut"}
        /\ t.sc[c].failed = y.failed /\ t.sc[c].event = y.event
    BY <1>4, <1>6, <1>7
  <1> QED
    BY <1>1, <1>8 DEF y

(* The callback of storeClientCopy3.                                         *)
LEMMA CopyCallbackOkay ==
  ASSUME NEW s, Okay(s), NEW c \in Clients, NEW env \in Envs, NEW sz \in Int,
         Waits(s.sc[c]), MayGive(s.e, s.sc[c], sz)
  PROVE  LET t == CopyCallback(s, c, sz, env) IN Okay(t) /\ Keeps(s, t)
  <1> DEFINE t == storeClientCallback(s, c, sz)
             u == Ask(t, c, env)
             w == WithClient(u, c, Event(u.sc[c], TRUE))
             r == CopyCallback(s, c, sz, env)
  <1>1. (r = w /\ t.sc[c].st = "ready") \/ r = t
    BY DEF CopyCallback
  <1>2. Okay(t) /\ t.e = s.e
    BY CallbackOkay
  <1> HIDE DEF t
  <1>3. Keeps(s, t)
    BY <1>2, KeepsSame
  <1>4. CASE r = w /\ t.sc[c].st = "ready"
    <2>1. Okay(u) /\ Keeps(t, u) /\ Waits(u.sc[c])
      BY <1>2, <1>4, AskOkay
    <2> HIDE DEF u
    <2>2. u.sc[c].st # "out"
      BY <2>1 DEF Waits
    <2>3. Okay(w) /\ w.e = u.e
      BY <2>1, <2>2, EventOkay
    <2> HIDE DEF w
    <2>4. Keeps(s, w)
      BY <1>3, <2>1, <2>3, KeepsSame, KeepsTrans
    <2> QED
      BY <1>4, <2>3, <2>4
  <1>5. CASE r = t
    BY <1>2, <1>3, <1>5
  <1> QED
    BY <1>1, <1>4, <1>5

(* A read is queued for bytes that are no longer in memory: they are in the  *)
(* file, or will be.                                                         *)
LEMMA FileReadOkay ==
  ASSUME NEW s, Okay(s), NEW c \in Clients, Waits(s.sc[c]), ~s.sc[c].event,
         s.sc[c].type = "disk",
         \/ s.sc[c].off < s.e.lo
         \/ DiskOnly(s.e) /\ (s.sc[c].off > 0 => s.sc[c].off < s.e.object_sz)
  PROVE  LET t == storeClientFileRead(s, c) IN Okay(t) /\ Keeps(s, t)
  <1> DEFINE x == s.e
             y == s.sc[c]
             p == /\ y.type = "disk" /\ y.io = -1
                  /\ x.hdr /\ x.swap = "WRITING" =>
                         storeSwapOutObjectBytesOnDisk(s) > y.off
             a == Asserted(s, p)
             z == InFile(y, x.file)
             t == WithClient(a, c, z)
  <1>1. EntryOkay(x) /\ x \in Entries /\ ClientOkay(x, y) /\ y \in StoreClients
    BY DEF Okay, EntryOkay, ClientOkay
  <1>2. /\ y.st = "waiting" /\ y.io = -1 /\ ~y.event /\ y.type = "disk"
        /\ y.off < x.lo \/ (DiskOnly(x) /\ (y.off > 0 => y.off < x.object_sz))
    BY DEF Waits
  <1>3. Place(x, y) /\ Source(x, y) /\ Ends(x, y)
    BY <1>1, <1>2 DEF ClientOkay
  <1>4. /\ x.lo \in Nat /\ x.hi \in Nat /\ x.queue \in Nat /\ x.file \in Nat
        /\ y.off \in Nat /\ y.got \in Nat /\ y.off = y.got
    BY <1>1, <1>2, <1>3 DEF Entries, StoreClients, Place
  <1> HIDE DEF y
  <1>5. ASSUME y.off < x.lo
        PROVE  /\ y.off < x.queue /\ ~DiskOnly(x) /\ x.hi > 0
               /\ x.swap # "NONE" /\ ~x.opening => x.file = x.queue
    <2>1. x.hi > 0 /\ y.off < x.queue
      BY <1>1, <1>2, <1>3, <1>4, <1>5 DEF EntryOkay, Offsets, Place
    <2>2. ~x.inMemory
      BY <1>2, <1>3 DEF Source
    <2> QED
      BY <2>1, <2>2, <1>1, <1>4 DEF EntryOkay, InTheFile, DiskOnly
  <1>6. p
    <2> SUFFICES ASSUME x.swap = "WRITING" PROVE storeSwapOutObjectBytesOnDisk(s) > y.off
      BY <1>2
    <2>1. y.off < x.lo
      BY <1>2 DEF DiskOnly
    <2>2. x.sio => ~x.opening
      BY <2>1, <1>1, <1>4 DEF EntryOkay, Writing
    <2> QED
      BY <2>1, <2>2, <1>4, <1>5 DEF storeSwapOutObjectBytesOnDisk
  <1>7. a.e = s.e /\ a.sc = s.sc
    BY <1>1, <1>6, AssertedSame
  <1>8. storeClientFileRead(s, c) = t
    <2>1. storeClientFileRead(s, c) = WithClient(a, c, InFile(a.sc[c], a.e.file))
      BY DEF storeClientFileRead, y
    <2> QED
      BY <2>1, <1>7 DEF y
  <1> HIDE DEF p, a
  <1>9. Okay(a) /\ a.e = x
    BY <1>7 DEF Okay
  <1>10. /\ z \in StoreClients
         /\ z.type = y.type /\ z.st = y.st /\ z.off = y.off /\ z.got = y.got
         /\ z.event = y.event /\ z.swapin = y.swapin /\ z.io = x.file
         /\ z.failed = y.failed
    <2>1. x.file \in Nat \cup {-1} /\ y \in StoreClients
      BY <1>1, <1>4
    <2> QED
      BY <2>1, InFileClient
  <1> HIDE DEF z
  <1>11. Place(x, z)
    BY <1>3, <1>10 DEF Place
  <1>12. Source(x, z)
    BY <1>2, <1>3, <1>10 DEF Source
  <1>13. Ends(x, z)
    <2> SUFFICES ASSUME InOrder, y.off > 0, ~y.failed PROVE x.file > y.off
      BY <1>3, <1>10 DEF Ends
    <2>1. CASE y.off < x.lo
      <3>1. ~x.opening
        BY <2>1, <1>2, <1>3, <1>4 DEF Ends
      <3>2. x.swap # "NONE"
        BY <1>2, <1>3 DEF Source
      <3> QED
        BY <2>1, <3>1, <3>2, <1>4, <1>5
    <2>2. CASE DiskOnly(x) /\ y.off < x.object_sz
      <3>1. x.object_sz = x.file \/ x.object_sz = -1
        BY <2>2, <1>1 DEF EntryOkay, WholeObject
      <3> QED
        BY <2>2, <3>1, <1>4
    <2> QED
      BY <2>1, <2>2, <1>2
  <1>14. ClientOkay(a.e, z)
    BY <1>2, <1>9, <1>10, <1>11, <1>12, <1>13 DEF ClientOkay
  <1>15. Okay(t) /\ t.e = a.e
    BY <1>9, <1>14, WithClientOkay
  <1> HIDE DEF t
  <1>16. Okay(t) /\ Keeps(s, t)
    BY <1>7, <1>15, KeepsSame
  <1> QED
    BY <1>8, <1>16

(* A client's file is opened.                                                *)
LEMMA SwapInStartOkay ==
  ASSUME NEW s, Okay(s), NEW c \in Clients, Waits(s.sc[c]), s.sc[c].type = "disk",
         s.sc[c].swapin = "none"
  PROVE  LET t == storeSwapInStart(s, c)
         IN  /\ Okay(t) /\ t.e = s.e /\ Waits(t.sc[c])
             /\ t.sc[c].swapin # "none" /\ t.sc[c].type = "disk"
             /\ t.sc[c].event = s.sc[c].event /\ t.sc[c].off = s.sc[c].off
  <1> DEFINE x == s.e
             y == s.sc[c]
             p == ~s.e.inMemory
             a == Asserted(s, p)
             w == IF AsyncCreate THEN "opening" ELSE "open"
             z == SwapIn(y, w)
             t == WithClient(a, c, z)
  <1>1. EntryOkay(x) /\ x \in Entries /\ ClientOkay(x, y) /\ y \in StoreClients
    BY DEF Okay, EntryOkay, ClientOkay
  <1>2. y.st = "waiting" /\ y.io = -1 /\ y.type = "disk" /\ y.swapin = "none"
    BY DEF Waits
  <1>3. Place(x, y) /\ Source(x, y) /\ Ends(x, y)
    BY <1>1, <1>2 DEF ClientOkay
  <1>4. p
    BY <1>2, <1>3 DEF Source
  <1>5. a.e = s.e /\ a.sc = s.sc
    BY <1>1, <1>4, AssertedSame
  <1>6. storeSwapInStart(s, c) = t
    <2>1. storeSwapInStart(s, c) = WithClient(a, c, SwapIn(a.sc[c], w))
      BY DEF storeSwapInStart
    <2> QED
      BY <2>1, <1>5
  <1> HIDE DEF p, a, y
  <1>7. Okay(a)
    BY <1>5 DEF Okay
  <1>8. /\ z \in StoreClients
        /\ z.type = y.type /\ z.st = y.st /\ z.off = y.off /\ z.got = y.got
        /\ z.event = y.event /\ z.swapin = w /\ z.io = y.io
        /\ z.failed = y.failed
    <2>1. w \in {"none", "opening", "open"}
      OBVIOUS
    <2> HIDE DEF w
    <2> QED
      BY <2>1, <1>1, SwapInClient
  <1> HIDE DEF z
  <1>9. Place(x, z)
    BY <1>3, <1>8 DEF Place
  <1>10. Source(x, z)
    BY <1>2, <1>3, <1>8 DEF Source
  <1>11. Ends(x, z)
    <2>1. x.opening => w # "open"
      BY <1>1 DEF EntryOkay, Writing
    <2> HIDE DEF w
    <2> QED
      BY <2>1, <1>3, <1>8 DEF Ends
  <1>12. ClientOkay(a.e, z)
    BY <1>2, <1>5, <1>8, <1>9, <1>10, <1>11 DEF ClientOkay
  <1>13. Okay(t) /\ t.e = a.e /\ t.sc[c] = z
    BY <1>7, <1>12, WithClientOkay
  <1>14. w # "none"
    OBVIOUS
  <1> HIDE DEF t, w
  <1>15. /\ Okay(t) /\ t.e = x /\ Waits(t.sc[c])
         /\ t.sc[c].swapin # "none" /\ t.sc[c].type = "disk"
         /\ t.sc[c].event = y.event /\ t.sc[c].off = y.off
    BY <1>2, <1>5, <1>8, <1>13, <1>14 DEF Waits
  <1> QED
    BY <1>6, <1>15 DEF y

(* The bytes come from memory, or are read from the file: all that is asked  *)
(* for beyond memory is in a file that is complete.                          *)
LEMMA MemoryOrDiskOkay ==
  ASSUME NEW s, Okay(s), NEW c \in Clients, NEW env \in Envs, Waits(s.sc[c]),
         ~s.sc[c].event, s.sc[c].type = "disk" => s.sc[c].swapin # "none",
         ~storeClientNoMoreToSend(s, c),
         ~(s.e.store = "PENDING" /\ s.sc[c].off >= s.e.hi)
  PROVE  LET t == FromMemoryOrDisk(s, c, env) IN Okay(t) /\ Keeps(s, t)
  <1> DEFINE x == s.e
             off == s.sc[c].off
             u == IF s.e.release THEN storeSwapOutMaintainMemObject(s) ELSE s
             sz == Min({CopySize, x.hi - off})
             r == CopyCallback(u, c, sz, env)
             f == storeClientFileRead(s, c)
             t == FromMemoryOrDisk(s, c, env)
  <1>1. EntryOkay(x) /\ x \in Entries /\ ClientOkay(x, s.sc[c]) /\ s.sc[c] \in StoreClients
    BY DEF Okay, EntryOkay, ClientOkay
  <1>2. Place(x, s.sc[c]) /\ Source(x, s.sc[c])
    BY <1>1 DEF ClientOkay, Waits
  <1>3. x.lo \in Nat /\ x.hi \in Nat /\ off \in Nat /\ CopySize \in Nat \ {0}
    BY <1>1, TransferAssumption DEF Entries, StoreClients
  <1>4. t = IF off >= x.lo /\ off < x.hi THEN r ELSE f
    BY DEF FromMemoryOrDisk
  <1>5. CASE off >= x.lo /\ off < x.hi
    <2>1. sz \in Nat /\ sz > 0 /\ off + sz <= x.hi
      BY <1>3, <1>5, OfTwo
    <2> HIDE DEF sz
    <2>2. /\ Okay(u) /\ Frame(s, u)
          /\ u.e.opening => u.e.lo = x.lo \/ u.e.lo <= off
      <3>1. CASE x.release
        <4> DEFINE m == storeSwapOutMaintainMemObject(s)
        <4>1. Okay(m) /\ Frame(s, m) /\ (x.release /\ m.e.opening => Held(s, m))
          BY MaintainOkay
        <4>2. u = m
          BY <3>1
        <4> HIDE DEF m, u
        <4>3. s.sc[c].st # "out"
          BY DEF Waits
        <4>4. Held(s, m) => m.e.lo = x.lo \/ m.e.lo <= off
          BY <4>3 DEF Held
        <4> QED
          BY <3>1, <4>1, <4>2, <4>4
      <3>2. CASE ~x.release
        BY <3>2, FrameSame
      <3> QED
        BY <3>1, <3>2
    <2> HIDE DEF u
    <2> DEFINE y == u.sc[c]
    <2>3. /\ y.type = s.sc[c].type /\ y.st = s.sc[c].st /\ y.off = off
          /\ y.swapin = s.sc[c].swapin /\ y.io = s.sc[c].io
      BY <2>2, FrameClient
    <2>4. Waits(y)
      BY <2>3 DEF Waits
    <2>5. u.e.hi = x.hi /\ u.e.lo \in Nat /\ ClientOkay(u.e, y)
      BY <2>2 DEF Okay, EntryOkay, Entries, Frame, SameObject
    <2>6. y.type = "disk" => u.e.hdr
      BY <2>4, <2>5, <1>3, <1>5 DEF ClientOkay, Source, Waits, DiskOnly
    <2>7. Has(y, sz) <= u.e.hi /\ Has(y, sz) >= off
      BY <2>1, <2>3, <2>5, <1>3, <1>5 DEF Has
    <2>8. u.e.opening => Has(y, sz) >= u.e.lo
      <3>1. Has(y, sz) \in Nat
        BY <2>1, <2>3, <1>3 DEF Has
      <3> QED
        BY <3>1, <2>2, <2>5, <2>7, <1>3, <1>5
    <2>9. y.type = "disk" => y.swapin # "none"
      BY <2>3
    <2> HIDE DEF y
    <2>10. MayGive(u.e, y, sz)
      BY <2>1, <2>6, <2>7, <2>8, <2>9 DEF MayGive
    <2>11. Okay(r) /\ Keeps(u, r)
      BY <2>1, <2>2, <2>4, <2>10, CopyCallbackOkay DEF y
    <2>12. Keeps(s, u)
      BY <2>2 DEF Keeps, Frame
    <2> HIDE DEF r
    <2>13. Keeps(s, r)
      BY <2>11, <2>12, KeepsTrans
    <2> HIDE DEF t
    <2>14. Okay(t) /\ Keeps(s, t)
      BY <1>4, <1>5, <2>11, <2>13
    <2> QED
      BY <2>14 DEF t
  <1>6. CASE ~(off >= x.lo /\ off < x.hi)
    <2>1. \/ off < x.lo
          \/ off >= x.hi /\ x.store = "OK" /\ ~(x.object_sz >= 0 /\ off >= x.object_sz)
      BY <1>1, <1>3, <1>6 DEF storeClientNoMoreToSend, Entries
    <2>2. CASE off < x.lo
      <3>1. s.sc[c].type = "disk"
        BY <2>2, <1>1, <1>2, <1>3 DEF Place, StoreClients
      <3> QED
        BY <2>2, <3>1, <1>4, <1>6, FileReadOkay
    <2>3. CASE off >= x.hi /\ x.store = "OK" /\ ~(x.object_sz >= 0 /\ off >= x.object_sz)
      <3>1. DiskOnly(x)
        BY <2>3, <1>1, <1>3 DEF EntryOkay, WholeObject
      <3>2. s.sc[c].type = "disk"
        BY <3>1, <1>2 DEF Source
      <3>3. off > 0 => x.hdr
        BY <3>1, <1>1, <1>2, <1>3 DEF Place, DiskOnly, StoreClients
      <3>4. off > 0 => off < x.object_sz
        BY <2>3, <3>1, <3>3, <1>1, <1>3 DEF EntryOkay, WholeObject, Entries
      <3> QED
        BY <3>1, <3>2, <3>4, <1>4, <1>6, FileReadOkay
    <2> QED
      BY <2>1, <2>2, <2>3
  <1> QED
    BY <1>5, <1>6

(* A client that waits is served, or waits for more.                         *)
LEMMA Copy3Okay ==
  ASSUME NEW s, Okay(s), NEW c \in Clients, NEW env \in Envs, Waits(s.sc[c]),
         ~s.sc[c].event
  PROVE  LET t == storeClientCopy3(s, c, env) IN Okay(t) /\ Keeps(s, t)
  <1> DEFINE x == s.e
             y == s.sc[c]
             none == CopyCallback(s, c, 0, env)
             error == CopyCallback(s, c, -1, env)
             wait == WaitForMore(s)
             o == storeSwapInStart(s, c)
             u == IF NeedsFile(s, c) THEN o ELSE s
             f == FromMemoryOrDisk(u, c, env)
             t == storeClientCopy3(s, c, env)
  <1>1. EntryOkay(x) /\ x \in Entries /\ ClientOkay(x, y) /\ y \in StoreClients
    BY DEF Okay, EntryOkay, ClientOkay
  <1>2. Place(x, y) /\ Source(x, y) /\ y.off = y.got
    BY <1>1 DEF ClientOkay, Waits, Place
  <1>3. x.hi \in Nat /\ x.object_sz \in Int /\ y.off \in Nat
    BY <1>1 DEF Entries, StoreClients
  <1>4. \/ storeClientNoMoreToSend(s, c) /\ t = none
        \/ t = wait
        \/ NeedsFile(s, c) /\ t = error
        \/ /\ ~storeClientNoMoreToSend(s, c)
           /\ ~(x.store = "PENDING" /\ y.off >= x.hi)
           /\ t = f
    BY DEF storeClientCopy3
  <1>5. CASE storeClientNoMoreToSend(s, c) /\ t = none
    <2>1. x.store = "OK" /\ x.object_sz >= 0 /\ y.off >= x.object_sz
      BY <1>5 DEF storeClientNoMoreToSend
    <2>2. y.off = x.object_sz /\ ~(y.off = 0 /\ x.hi > 0)
      BY <2>1, <1>1, <1>2, <1>3 DEF EntryOkay, WholeObject, DiskOnly, Place
    <2>3. MayGive(x, y, 0)
      BY <2>1, <2>2 DEF MayGive
    <2> HIDE DEF t
    <2>4. Okay(none) /\ Keeps(s, none)
      BY <2>3, CopyCallbackOkay
    <2> QED
      BY <2>4, <1>5 DEF t
  <1>6. CASE t = wait
    <2>1. wait = storeResumeRead(s) \/ wait = s
      BY DEF WaitForMore
    <2>2. Okay(storeResumeRead(s)) /\ Frame(s, storeResumeRead(s))
      <3> DEFINE w == storeResumeRead(s)
      <3>1. /\ w.e \in Entries /\ SameObject(x, w.e) /\ SameFile(x, w.e)
            /\ SameSwap(x, w.e) /\ w.e.lo = x.lo /\ w.sc = s.sc
        BY <1>1, ResumedEntry
      <3> HIDE DEF w
      <3>2. Okay(w) /\ Frame(s, w)
        BY <3>1, SameOkay
      <3> QED
        BY <3>2 DEF w
    <2> QED
      BY <2>1, <2>2, <1>6, FrameSame DEF Frame, Keeps
  <1>7. CASE NeedsFile(s, c) /\ t = error
    <2>1. y.failed \/ y.got = 0
      BY <1>1, <1>2, <1>3, <1>7 DEF NeedsFile, Source
    <2>2. MayGive(x, y, -1)
      BY <2>1 DEF MayGive
    <2> HIDE DEF t
    <2>3. Okay(error) /\ Keeps(s, error)
      BY <2>2, CopyCallbackOkay
    <2> QED
      BY <2>3, <1>7 DEF t
  <1>8. CASE /\ ~storeClientNoMoreToSend(s, c)
             /\ ~(x.store = "PENDING" /\ y.off >= x.hi)
             /\ t = f
    <2>1. /\ Okay(u) /\ u.e = x /\ Waits(u.sc[c]) /\ ~u.sc[c].event
          /\ u.sc[c].off = y.off
          /\ u.sc[c].type = "disk" => u.sc[c].swapin # "none"
      <3>1. CASE NeedsFile(s, c)
        <4>1. /\ Okay(o) /\ o.e = s.e /\ Waits(o.sc[c])
              /\ o.sc[c].swapin # "none" /\ o.sc[c].type = "disk"
              /\ o.sc[c].event = s.sc[c].event /\ o.sc[c].off = s.sc[c].off
          BY <3>1, SwapInStartOkay DEF NeedsFile
        <4>2. u = o
          BY <3>1
        <4> HIDE DEF o, u
        <4> QED
          BY <4>1, <4>2
      <3>2. CASE ~NeedsFile(s, c)
        BY <3>2 DEF NeedsFile
      <3> QED
        BY <3>1, <3>2
    <2> HIDE DEF u
    <2>2. ~storeClientNoMoreToSend(u, c)
      BY <2>1, <1>8 DEF storeClientNoMoreToSend
    <2>3. ~(u.e.store = "PENDING" /\ u.sc[c].off >= u.e.hi)
      BY <2>1, <1>8
    <2>4. Okay(f) /\ Keeps(u, f)
      BY <2>1, <2>2, <2>3, MemoryOrDiskOkay
    <2> HIDE DEF f
    <2>5. Keeps(s, f)
      BY <2>1, <2>4, KeepsSame, KeepsTrans
    <2> QED
      BY <2>4, <2>5, <1>8
  <1> QED
    BY <1>4, <1>5, <1>6, <1>7, <1>8

LEMMA Copy2Okay ==
  ASSUME NEW s, Okay(s), NEW c \in Clients, NEW env \in Envs, Waits(s.sc[c])
  PROVE  LET t == storeClientCopy2(s, c, env) IN Okay(t) /\ Keeps(s, t)
  <1>1. CASE s.sc[c].event
    BY <1>1, KeepsSame DEF storeClientCopy2
  <1>2. CASE ~s.sc[c].event
    <2>1. storeClientCopy2(s, c, env) = storeClientCopy3(s, c, env)
      BY <1>2 DEF storeClientCopy2
    <2> QED
      BY <1>2, <2>1, Copy3Okay
  <1> QED
    BY <1>1, <1>2

LEMMA CopyOkay ==
  ASSUME NEW s, Okay(s), NEW c \in Clients, NEW env \in Envs, s.sc[c].st = "ready"
  PROVE  LET t == storeClientCopy(s, c, env) IN Okay(t) /\ Keeps(s, t)
  <1> DEFINE u == Ask(s, c, env)
             t == storeClientCopy2(u, c, env)
  <1>1. storeClientCopy(s, c, env) = t
    BY DEF storeClientCopy
  <1>2. Okay(u) /\ Keeps(s, u) /\ Waits(u.sc[c])
    BY AskOkay
  <1> HIDE DEF u
  <1>3. Okay(t) /\ Keeps(u, t)
    BY <1>2, Copy2Okay
  <1> HIDE DEF t
  <1>4. Keeps(s, t)
    BY <1>2, <1>3, KeepsTrans
  <1> QED
    BY <1>1, <1>3, <1>4

LEMMA InvokeOkay ==
  ASSUME NEW s, Okay(s), NEW c \in Clients, NEW env \in Envs
  PROVE  LET t == Invoke(s, c, env) IN Okay(t) /\ Keeps(s, t)
  <1>1. CASE Waits(s.sc[c])
    <2>1. Invoke(s, c, env) = storeClientCopy2(s, c, env)
      BY <1>1 DEF Invoke, Waits
    <2> QED
      BY <1>1, <2>1, Copy2Okay
  <1>2. CASE ~Waits(s.sc[c])
    <2>1. Invoke(s, c, env) = s
      BY <1>2 DEF Invoke, Waits
    <2> QED
      BY <2>1, KeepsSame
  <1> QED
    BY <1>1, <1>2

\* f holds the states as the first k clients of the list are served
ServeWalk(f, s, list, env, k) ==
    f = [i \in 0..k |-> IF i = 0 THEN s ELSE Invoke(f[i - 1], list[i], env)]

LEMMA ServeWalkExists ==
  ASSUME NEW s, NEW list, NEW env
  PROVE  \A k \in Nat : \E f : ServeWalk(f, s, list, env, k)
  <1> DEFINE T == {k \in Nat : ~\E f : ServeWalk(f, s, list, env, k)}
             Step(r, i) == IF i = 0 THEN s ELSE Invoke(r, list[i], env)
  <1> SUFFICES ASSUME T # {} PROVE FALSE
    OBVIOUS
  <1>1. PICK m \in T : \A n \in T : m <= n
    BY LeastNatural
  <1>2. m # 0
    <2>1. ServeWalk([i \in 0..0 |-> s], s, list, env, 0)
      BY DEF ServeWalk
    <2> QED
      BY <2>1
  <1>3. m - 1 \in Nat /\ m - 1 \notin T
    BY <1>1, <1>2
  <1>4. PICK f : ServeWalk(f, s, list, env, m - 1)
    BY <1>3
  <1> DEFINE g == [i \in 0..m |-> IF i = m THEN Step(f[m - 1], m) ELSE f[i]]
  <1>5. \A i \in 0..(m - 1) : f[i] = Step(f[i - 1], i)
    BY <1>3, <1>4 DEF ServeWalk
  <1> HIDE DEF Step
  <1>6. \A i \in 0..m : g[i] = Step(g[i - 1], i)
    <2> SUFFICES ASSUME NEW i \in 0..m PROVE g[i] = Step(g[i - 1], i)
      OBVIOUS
    <2>1. CASE i = m
      BY <2>1, <1>2, <1>3
    <2>2. CASE i # m /\ i # 0
      BY <2>2, <1>3, <1>5
    <2>3. CASE i = 0
      BY <2>3, <1>2, <1>3, <1>5 DEF Step
    <2> QED
      BY <2>1, <2>2, <2>3
  <1>7. ServeWalk(g, s, list, env, m)
    BY <1>6 DEF ServeWalk, Step
  <1> QED
    BY <1>7

(* Every client that waits is served.                                        *)
LEMMA InvokeHandlersOkay ==
  ASSUME NEW s, Okay(s), NEW env \in Envs
  PROVE  LET t == InvokeHandlers(s, env) IN Okay(t) /\ Keeps(s, t)
  <1> DEFINE n == Cardinality(Clients)
             list == SetToSeq(Clients)
             f == CHOOSE g : ServeWalk(g, s, list, env, n)
             Fine(i) == Okay(f[i]) /\ Keeps(s, f[i])
             T == {i \in Nat : i <= n /\ ~Fine(i)}
  <1>1. n \in Nat /\ list \in Seq(Clients) /\ Len(list) = n
    BY SetAsSequence, TransferAssumption
  <1>2. ServeWalk(f, s, list, env, n)
    <2> HIDE DEF n, list
    <2> QED
      BY <1>1, ServeWalkExists
  <1>3. InvokeHandlers(s, env) = f[n]
    BY DEF InvokeHandlers, ServeWalk
  <1> HIDE DEF f, n, list
  <1>4. \A i \in 0..n : f[i] = IF i = 0 THEN s ELSE Invoke(f[i - 1], list[i], env)
    BY <1>2 DEF ServeWalk
  <1>5. Fine(0)
    <2>1. f[0] = s
      BY <1>1, <1>4
    <2> QED
      BY <2>1, KeepsSame
  <1>6. ASSUME NEW i \in Nat, i # 0, i <= n, Fine(i - 1) PROVE Fine(i)
    <2> DEFINE r == f[i - 1]
               c == list[i]
               t == Invoke(r, c, env)
    <2>1. f[i] = t
      BY <1>1, <1>4, <1>6
    <2>2. Okay(r) /\ Keeps(s, r)
      BY <1>6
    <2>3. c \in Clients
      BY <1>1, <1>6
    <2> HIDE DEF r, c
    <2>4. Okay(t) /\ Keeps(r, t)
      BY <2>2, <2>3, InvokeOkay
    <2> HIDE DEF t
    <2>5. Keeps(s, t)
      BY <2>2, <2>4, KeepsTrans
    <2> QED
      BY <2>1, <2>4, <2>5
  <1> HIDE DEF Fine
  <1>7. T = {}
    <2> SUFFICES ASSUME T # {} PROVE FALSE
      OBVIOUS
    <2>1. PICK i \in T : \A j \in T : i <= j
      BY LeastNatural
    <2>2. i \in Nat /\ i <= n /\ ~Fine(i) /\ i # 0
      BY <2>1, <1>5
    <2>3. i - 1 \in Nat /\ i - 1 <= n
      BY <2>2, <1>1
    <2>4. Fine(i - 1)
      BY <2>1, <2>2, <2>3
    <2> QED
      BY <2>2, <2>4, <1>6
  <1>8. Fine(n)
    BY <1>1, <1>7
  <1> QED
    BY <1>3, <1>8 DEF Fine

(* An object that is given up is as long as it got, and is released.         *)
LEMMA AbortedEntry ==
  ASSUME NEW x \in Entries
  PROVE  LET y == Aborted(x)
         IN  /\ y \in Entries /\ SameFile(x, y) /\ y.lo = x.lo /\ y.hi = x.hi
             /\ y.gone = x.gone /\ y.bad = x.bad /\ y.swap = x.swap /\ y.hdr = x.hdr
             /\ y.sio = x.sio /\ y.opening = x.opening /\ y.closing = x.closing
             /\ y.release /\ y.aborted /\ ~y.inMemory /\ y.store = "OK"
             /\ y.object_sz = x.hi
  <1> DEFINE y == Aborted(x)
  <1>1. y = [x EXCEPT !.release = TRUE, !.aborted = TRUE, !.inMemory = FALSE,
                      !.store = "OK", !.defer = FALSE, !.left = FALSE,
                      !.object_sz = x.hi]
    BY DEF Aborted
  <1> HIDE DEF y
  <1>2. y \in Entries
    BY <1>1 DEF Entries
  <1>3. SameFile(x, y) /\ y.lo = x.lo /\ y.hi = x.hi
    BY <1>1 DEF Entries, SameFile
  <1>4. y.gone = x.gone /\ y.bad = x.bad /\ y.swap = x.swap /\ y.hdr = x.hdr
    BY <1>1 DEF Entries
  <1>5. y.sio = x.sio /\ y.opening = x.opening /\ y.closing = x.closing
    BY <1>1 DEF Entries
  <1>6. y.release /\ y.aborted /\ ~y.inMemory /\ y.store = "OK" /\ y.object_sz = x.hi
    BY <1>1 DEF Entries
  <1> QED
    BY <1>2, <1>3, <1>4, <1>5, <1>6 DEF y

LEMMA AbortOkay ==
  ASSUME NEW s, Okay(s), NEW env \in Envs, s.e.store = "PENDING"
  PROVE  Okay(storeAbort(s, env))
  <1> DEFINE x == s.e
             y == Aborted(x)
             a == WithEntry(s, y)
             i == InvokeHandlers(a, env)
             t == storeSwapOutFileClose(i)
  <1>1. EntryOkay(x) /\ x \in Entries /\ x.store = "PENDING" /\ ~DiskOnly(x)
    BY DEF Okay, EntryOkay, WholeObject
  <1>2. storeAbort(s, env) = t
    BY DEF storeAbort
  <1>3. a.e = y /\ a.sc = s.sc
    BY DEF WithEntry
  <1>4. /\ y \in Entries /\ SameFile(x, y) /\ y.lo = x.lo /\ y.hi = x.hi
        /\ y.gone = x.gone /\ y.bad = x.bad /\ y.swap = x.swap /\ y.hdr = x.hdr
        /\ y.sio = x.sio /\ y.opening = x.opening /\ y.closing = x.closing
        /\ y.release /\ y.aborted /\ ~y.inMemory /\ y.store = "OK"
        /\ y.object_sz = x.hi
    BY <1>1, AbortedEntry
  <1> HIDE DEF y, a
  <1>5. EntryOkay(y)
    <2>1. Offsets(y)
      BY <1>1, <1>4 DEF EntryOkay, Offsets, SameFile
    <2>2. Writing(y)
      BY <1>1, <1>4 DEF EntryOkay, Writing, SameFile
    <2>3. ~x.inMemory /\ ~DiskOnly(y)
      BY <1>1, <1>4 DEF EntryOkay, WholeObject, DiskOnly
    <2>4. InTheFile(y)
      BY <1>1, <1>4, <2>3 DEF EntryOkay, InTheFile, SameFile
    <2>5. WholeObject(y)
      BY <1>1, <1>4, <2>3 DEF EntryOkay, WholeObject
    <2> QED
      BY <1>1, <1>4, <2>1, <2>2, <2>4, <2>5 DEF EntryOkay
  <1>6. ASSUME NEW c \in Clients PROVE ClientOkay(y, s.sc[c])
    <2>1. ClientOkay(x, s.sc[c])
      BY DEF Okay
    <2>2. ~DiskOnly(y)
      BY <1>1, <1>4 DEF DiskOnly
    <2> QED
      BY <1>1, <1>4, <2>1, <2>2 DEF ClientOkay, Place, Source, Ends, SameFile
  <1>7. Okay(a) /\ a.e.release
    BY <1>3, <1>4, <1>5, <1>6 DEF Okay
  <1>8. Okay(i) /\ Keeps(a, i)
    BY <1>7, InvokeHandlersOkay
  <1> HIDE DEF i
  <1>9. i.e.release
    BY <1>7, <1>8 DEF Keeps
  <1>10. Okay(t)
    BY <1>8, <1>9, FileCloseOkay
  <1> QED
    BY <1>2, <1>10

(* A client that is out goes with every entry.                               *)
LEMMA OutOkay ==
  ASSUME NEW x
  PROVE  Out \in StoreClients /\ Out.st = "out" /\ ~Out.event /\ Out.io = -1
         /\ Out.swapin = "none" /\ ClientOkay(x, Out)
  BY DEF ClientOkay, Out, NewClient, StoreClients

(* A new entry, one whose key is gone, and one that is only on disk.         *)
LEMMA EmptyOkay ==
  ASSUME NEW x \in Entries, ~x.bad, x.lo = 0, x.hi = 0, x.queue = 0, x.node = -1,
         ~x.sio, ~x.opening, ~x.closing, ~x.release, ~x.aborted, ~x.inMemory,
         x.object_sz = -1, ~x.hdr,
         \/ x.store = "PENDING" /\ x.swap = "NONE" /\ x.file = 0
         \/ x.store = "OK" /\ x.swap = "DONE" /\ x.file > 0
  PROVE  EntryOkay(x)
  <1>1. Aligned(0)
    BY PageStart DEF Aligned
  <1>2. Offsets(x)
    BY <1>1 DEF Offsets
  <1>3. Writing(x) /\ InTheFile(x)
    BY DEF Writing, InTheFile, DiskOnly
  <1>4. WholeObject(x)
    BY DEF WholeObject, DiskOnly
  <1> QED
    BY <1>2, <1>3, <1>4 DEF EntryOkay

(* The entry is given up, kept in memory, or only on disk.                   *)
LEMMA UnlockedOkay ==
  ASSUME NEW s, Okay(s)
  PROVE  Okay(Unlocked(s))
  <1> DEFINE x == s.e
             held == \/ Registered(s) # {} \/ x.store = "PENDING"
                     \/ x.swap = "WRITING"
             a == [NewEntry EXCEPT !.gone = TRUE, !.bad = x.bad]
             b == [x EXCEPT !.inMemory = TRUE]
             d == [NewEntry EXCEPT !.store = "OK", !.swap = "DONE",
                                   !.file = x.file, !.bad = x.bad]
             t == Unlocked(s)
  <1>1. EntryOkay(x) /\ x \in Entries /\ x.bad = FALSE
        /\ s.sc \in [Clients -> StoreClients]
    BY DEF Okay, EntryOkay, Entries
  <1>2. CASE held
    BY <1>2 DEF Unlocked
  <1>3. CASE ~held
    <2>1. x.store = "OK" /\ x.swap # "WRITING"
      BY <1>1, <1>3 DEF Entries
    <2>2. \A c \in Clients : s.sc[c] = Out
      BY <1>3 DEF Registered, Okay, ClientOkay
    <2>3. ASSUME NEW y, EntryOkay(y) PROVE Okay(WithEntry(s, y))
      <3> DEFINE u == WithEntry(s, y)
      <3>1. u.e = y /\ u.sc = s.sc
        BY DEF WithEntry
      <3> HIDE DEF u
      <3>2. \A c \in Clients : ClientOkay(y, u.sc[c])
        BY <3>1, <2>2, OutOkay
      <3>3. Okay(u)
        BY <3>1, <3>2, <2>3, <1>1 DEF Okay
      <3> QED
        BY <3>3 DEF u
    <2>4. CASE x.release \/ (x.lo > 0 /\ x.swap # "DONE")
      <3>1. t = WithEntry(s, a)
        BY <2>4, <1>3 DEF Unlocked
      <3>2. a \in Entries /\ ~a.bad /\ a.lo = 0 /\ a.hi = 0 /\ a.queue = 0 /\ a.node = -1
        <4>1. NewEntry \in Entries
          BY DEF NewEntry, Entries
        <4>2. a \in Entries /\ a.bad = x.bad
          BY <4>1, <1>1 DEF Entries
        <4>3. a.lo = 0 /\ a.hi = 0 /\ a.queue = 0 /\ a.node = -1
          BY DEF NewEntry
        <4> HIDE DEF a
        <4> QED
          BY <4>2, <4>3, <1>1
      <3>3. /\ ~a.sio /\ ~a.opening /\ ~a.closing /\ ~a.release /\ ~a.aborted /\ ~a.inMemory
            /\ a.object_sz = -1 /\ ~a.hdr /\ a.store = "PENDING" /\ a.swap = "NONE"
            /\ a.file = 0
        BY DEF NewEntry
      <3> HIDE DEF a
      <3>4. EntryOkay(a)
        BY <3>2, <3>3, EmptyOkay
      <3> QED
        BY <3>1, <3>4, <2>3
    <2>5. CASE ~(x.release \/ (x.lo > 0 /\ x.swap # "DONE")) /\ x.hi > 0 /\ x.lo = 0
      <3>1. t = WithEntry(s, b)
        BY <2>5, <1>3 DEF Unlocked
      <3>2. /\ b \in Entries /\ SameSwap(x, b) /\ SameFile(x, b) /\ b.lo = x.lo
        BY <1>1 DEF Entries, SameSwap, SameFile
      <3>3. /\ b.store = x.store /\ b.aborted = x.aborted /\ b.inMemory /\ b.hi = x.hi
            /\ b.object_sz = x.object_sz /\ ~b.bad
        BY <1>1 DEF Entries
      <3> HIDE DEF b
      <3>4. Offsets(b) /\ Writing(b)
        BY <1>1, <3>2, <3>3 DEF EntryOkay, Offsets, Writing, SameSwap, SameFile
      <3>5. InTheFile(b)
        BY <1>1, <2>1, <3>2, <3>3 DEF EntryOkay, InTheFile, Writing, DiskOnly, SameSwap, SameFile
      <3>6. WholeObject(b)
        BY <1>1, <2>1, <2>5, <3>2, <3>3 DEF EntryOkay, WholeObject, DiskOnly, SameSwap, SameFile
      <3>7. EntryOkay(b)
        BY <3>2, <3>3, <3>4, <3>5, <3>6 DEF EntryOkay
      <3> QED
        BY <3>1, <3>7, <2>3
    <2>6. CASE ~(x.release \/ (x.lo > 0 /\ x.swap # "DONE")) /\ ~(x.hi > 0 /\ x.lo = 0)
      <3>1. t = WithEntry(s, d)
        BY <2>6, <1>3 DEF Unlocked
      <3>2. x.file \in Nat /\ x.file > 0
        <4>1. x.file \in Nat /\ x.lo \in Nat /\ x.hi \in Nat /\ x.queue \in Nat
          BY <1>1 DEF Entries
        <4>2. CASE x.hi = 0
          <5>1. DiskOnly(x)
            BY <4>2, <2>1, <2>6, <1>1 DEF EntryOkay, WholeObject, DiskOnly
          <5> QED
            BY <5>1, <4>1, <1>1 DEF EntryOkay, WholeObject
        <4>3. CASE x.hi # 0
          <5>1. x.lo > 0 /\ x.swap = "DONE" /\ x.hi > 0
            BY <4>1, <4>3, <2>6
          <5>2. ~x.inMemory /\ ~x.opening
            BY <5>1, <1>1 DEF EntryOkay, WholeObject, Writing
          <5>3. x.file = x.queue /\ x.queue = x.hi
            BY <5>1, <5>2, <2>6, <1>1 DEF EntryOkay, InTheFile
          <5> QED
            BY <5>1, <5>3, <4>1
        <4> QED
          BY <4>2, <4>3
      <3>3. d \in Entries /\ ~d.bad /\ d.lo = 0 /\ d.hi = 0 /\ d.queue = 0 /\ d.node = -1
        <4>1. NewEntry \in Entries
          BY DEF NewEntry, Entries
        <4>2. d \in Entries /\ d.bad = x.bad
          BY <4>1, <1>1, <3>2 DEF Entries
        <4>3. d.lo = 0 /\ d.hi = 0 /\ d.queue = 0 /\ d.node = -1
          BY DEF NewEntry
        <4> HIDE DEF d
        <4> QED
          BY <4>2, <4>3, <1>1
      <3>4. /\ ~d.sio /\ ~d.opening /\ ~d.closing /\ ~d.release /\ ~d.aborted /\ ~d.inMemory
            /\ d.object_sz = -1 /\ ~d.hdr /\ d.store = "OK" /\ d.swap = "DONE"
            /\ d.file = x.file
        BY DEF NewEntry
      <3> HIDE DEF d
      <3>5. EntryOkay(d)
        BY <3>2, <3>3, <3>4, EmptyOkay
      <3> QED
        BY <3>1, <3>5, <2>3
    <2> QED
      BY <2>4, <2>5, <2>6
  <1> QED
    BY <1>2, <1>3

(* A client leaves, which may free memory, end the transfer or free the      *)
(* entry.                                                                    *)
LEMMA UnregisterOkay ==
  ASSUME NEW s, Okay(s), NEW c \in Clients, NEW env \in Envs, NEW quick \in BOOLEAN
  PROVE  Okay(storeClientUnregister(s, c, env, quick))
  <1> DEFINE x == s.e
             y == [x EXCEPT !.left = x.defer]
             l == WithEntry(s, y)
             t == WithClient(l, c, Out)
             w == storeSwapOut(t, env)
             u == IF t.e.store = "OK" /\ t.e.swap # "DONE" THEN w ELSE t
             m == storeSwapOutMaintainMemObject(u)
             b == AbortIfLast(m, env, quick)
             r == Unlocked(b)
  <1>1. x \in Entries
    BY DEF Okay, EntryOkay
  <1>2. storeClientUnregister(s, c, env, quick) = r
    BY DEF storeClientUnregister
  <1>3. l.e = y /\ l.sc = s.sc
    BY DEF WithEntry
  <1>4. y \in Entries /\ SameObject(x, y) /\ SameSwap(x, y) /\ SameFile(x, y) /\ y.lo = x.lo
    BY <1>1 DEF Entries, SameObject, SameSwap, SameFile
  <1> HIDE DEF y, l
  <1>5. Okay(l)
    BY <1>3, <1>4, SameOkay
  <1>6. Okay(t)
    BY <1>5, OutOkay, WithClientOkay
  <1> HIDE DEF t
  <1>7. Okay(w)
    BY <1>6, SwapOutOkay
  <1>8. Okay(u)
    BY <1>6, <1>7
  <1> HIDE DEF u
  <1>9. Okay(m)
    BY <1>8, MaintainOkay
  <1> HIDE DEF m
  <1>10. Okay(b)
    <2>1. CASE b = m
      BY <2>1, <1>9
    <2>2. CASE b # m
      <3>1. b = storeAbort(m, env) /\ m.e.store = "PENDING"
        BY <2>2 DEF AbortIfLast
      <3> QED
        BY <3>1, <1>9, AbortOkay
    <2> QED
      BY <2>1, <2>2
  <1> HIDE DEF b
  <1>11. Okay(r)
    BY <1>10, UnlockedOkay
  <1> QED
    BY <1>2, <1>11
-----------------------------------------------------------------------------
(* The actions.                                                              *)
LEMMA TheState ==
  ASSUME TransferInv
  PROVE  /\ Okay(State) /\ State.e = e /\ State.sc = sc
         /\ EntryOkay(e) /\ e \in Entries /\ sc \in [Clients -> StoreClients]
         /\ \A c \in Clients : ClientOkay(e, sc[c]) /\ sc[c] \in StoreClients
  BY DEF TransferInv, State, Okay, EntryOkay, ClientOkay

LEMMA OutcomeOkay ==
  ASSUME NEW S, \A t \in S : Okay(t), Outcome(S)
  PROVE  TransferInv'
  <1>1. PICK t \in S : e' = t.e /\ sc' = t.sc
    BY DEF Outcome
  <1>2. Okay(t)
    BY <1>1
  <1> QED
    BY <1>1, <1>2 DEF TransferInv, State, Okay

LEMMA RegisterStep ==
  ASSUME TransferInv, NEW c \in Clients, storeClientRegister(c)
  PROVE  TransferInv'
  <1> DEFINE w == storeClientType(State)
             y == [NewClient EXCEPT !.type = w]
             t == WithClient(State, c, y)
  <1>1. Okay(State) /\ State.e = e /\ State.sc = sc /\ EntryOkay(e) /\ e \in Entries
    BY TheState
  <1>2. ~e.gone /\ ~e.release /\ e' = e /\ sc' = [sc EXCEPT ![c] = y]
    BY DEF storeClientRegister, Live
  <1>3. /\ w \in {"mem", "disk"}
        /\ w = "mem" => e.lo = 0
        /\ w = "disk" => \/ e.lo > 0
                         \/ e.store = "OK" /\ ~(e.hi > 0)
                         \/ e.store # "OK" /\ e.swap # "NONE"
        /\ e.lo = 0 /\ ~e.aborted /\ e.store = "OK" =>
              w = IF e.hi > 0 THEN "mem" ELSE "disk"
    <2>1. e.lo \in Nat
      BY <1>1 DEF Entries
    <2> QED
      BY <2>1, <1>1 DEF storeClientType
  <1> HIDE DEF w
  <1>4. y \in StoreClients
    BY <1>3 DEF NewClient, StoreClients
  <1>5. /\ y.type = w /\ y.st = "ready" /\ y.off = 0 /\ y.got = 0 /\ ~y.event
        /\ y.swapin = "none" /\ y.io = -1 /\ ~y.failed
    BY DEF NewClient
  <1> HIDE DEF y
  <1>6. e.lo \in Nat /\ e.hi \in Nat /\ e.queue \in Nat
    BY <1>1 DEF Entries
  <1>7. ~e.aborted
    BY <1>1, <1>2 DEF EntryOkay, WholeObject
  <1>8. Place(e, y)
    <2>1. e.lo > 0 => e.lo < e.queue
      <3>1. e.node \in Int /\ e.node < e.queue
        BY <1>1, NodeBefore
      <3> QED
        BY <3>1, <1>1, <1>2, <1>6 DEF EntryOkay, Offsets
    <2> QED
      BY <2>1, <1>3, <1>5, <1>6 DEF Place
  <1>9. Source(e, y)
    <2>1. w = "disk" => \/ e.hdr /\ e.hi > 0
                        \/ DiskOnly(e)
      <3>1. CASE e.lo > 0
        <4>1. e.hi > 0 /\ e.swap # "NONE"
          BY <3>1, <1>1, <1>2, <1>6 DEF EntryOkay, Offsets, InTheFile
        <4> QED
          BY <4>1, <1>1 DEF EntryOkay, InTheFile, DiskOnly
      <3>2. CASE e.store = "OK" /\ ~(e.hi > 0)
        BY <3>2, <1>1, <1>2, <1>6 DEF EntryOkay, WholeObject, DiskOnly
      <3>3. CASE e.store # "OK" /\ e.swap # "NONE"
        <4>1. e.swap = "WRITING"
          BY <3>3, <1>1, <1>2 DEF EntryOkay, InTheFile, Entries
        <4> QED
          BY <4>1, <1>1 DEF EntryOkay, InTheFile, Writing, DiskOnly
      <3> QED
        BY <3>1, <3>2, <3>3, <1>3
    <2>2. w = "disk" => e.swap # "NONE"
      <3>1. e.swap = "NONE" => e.lo = 0
        BY <1>1, <1>2 DEF EntryOkay, InTheFile
      <3>2. e.store = "OK" /\ ~(e.hi > 0) => e.swap # "NONE"
        BY <1>1, <1>2, <1>6 DEF EntryOkay, WholeObject
      <3> QED
        BY <3>1, <3>2, <1>3, <1>6
    <2>3. DiskOnly(e) => w = "disk"
      BY <1>1, <1>3, <1>6, <1>7 DEF EntryOkay, WholeObject, Offsets, DiskOnly
    <2>4. e.inMemory => w = "mem"
      BY <1>1, <1>3, <1>7 DEF EntryOkay, WholeObject
    <2> QED
      BY <2>1, <2>2, <2>3, <2>4, <1>2, <1>5 DEF Source
  <1>10. Ends(e, y)
    BY <1>5 DEF Ends
  <1>11. ClientOkay(State.e, y)
    BY <1>1, <1>4, <1>5, <1>8, <1>9, <1>10 DEF ClientOkay
  <1>12. Okay(t)
    BY <1>1, <1>11, WithClientOkay
  <1>13. t.e = e' /\ t.sc = sc'
    BY <1>1, <1>2 DEF WithClient
  <1> HIDE DEF t
  <1> QED
    BY <1>12, <1>13 DEF TransferInv, State, Okay

LEMMA CopyStep ==
  ASSUME TransferInv, NEW c \in Clients, Copy(c)
  PROVE  TransferInv'
  <1> DEFINE S == {storeClientCopy(State, c, env) : env \in Environments({c})}
  <1>1. Okay(State) /\ State.sc = sc
    BY TheState
  <1>2. State.sc[c].st = "ready" /\ Outcome(S)
    BY <1>1 DEF Copy
  <1>3. ASSUME NEW t \in S PROVE Okay(t)
    <2>1. PICK env \in Environments({c}) : t = storeClientCopy(State, c, env)
      BY <1>3
    <2>2. env \in Envs
      BY EnvironmentsOkay
    <2> QED
      BY <1>1, <1>2, <2>1, <2>2, CopyOkay
  <1> HIDE DEF S
  <1> QED
    BY <1>2, <1>3, OutcomeOkay

LEMMA EventStep ==
  ASSUME TransferInv, NEW c \in Clients, storeClientCopyEvent(c)
  PROVE  TransferInv'
  <1> DEFINE s == WithClient(State, c, Event(sc[c], FALSE))
             S == {IF sc[c].st # "waiting" THEN s
                   ELSE storeClientCopy2(s, c, env) : env \in Environments({c})}
  <1>1. /\ Okay(State) /\ State.e = e /\ State.sc = sc
        /\ ClientOkay(e, sc[c]) /\ sc[c] \in StoreClients
    BY TheState
  <1>2. sc[c].event /\ Outcome(S)
    BY DEF storeClientCopyEvent
  <1>3. sc[c].st # "out"
    BY <1>1, <1>2, OutOkay DEF ClientOkay
  <1>4. Okay(s) /\ s.sc[c].st = sc[c].st /\ s.sc[c].io = sc[c].io
    <2> DEFINE u == WithClient(State, c, Event(State.sc[c], FALSE))
    <2>1. Okay(u) /\ u.sc[c].st = State.sc[c].st /\ u.sc[c].io = State.sc[c].io
      BY <1>1, <1>3, EventOkay
    <2> QED
      BY <2>1, <1>1
  <1>5. sc[c].io = -1
    BY <1>1, <1>2, <1>3 DEF ClientOkay, Source, StoreClients
  <1> HIDE DEF s
  <1>6. ASSUME NEW t \in S PROVE Okay(t)
    <2>1. PICK env \in Environments({c}) :
              t = IF sc[c].st # "waiting" THEN s ELSE storeClientCopy2(s, c, env)
      BY <1>6
    <2>2. env \in Envs
      BY EnvironmentsOkay
    <2>3. CASE sc[c].st = "waiting"
      <3>1. Waits(s.sc[c])
        BY <2>3, <1>4, <1>5 DEF Waits
      <3> QED
        BY <2>1, <2>2, <2>3, <3>1, <1>4, Copy2Okay
    <2> QED
      BY <2>1, <2>3, <1>4
  <1> HIDE DEF S
  <1> QED
    BY <1>2, <1>6, OutcomeOkay

LEMMA UnregisterStep ==
  ASSUME TransferInv, NEW c \in Clients, Unregister(c)
  PROVE  TransferInv'
  <1> DEFINE last == Registered(State) = {c}
             Q == {FALSE, last}
             E == Environments({})
             S == {storeClientUnregister(State, c, env, quick) : env \in E, quick \in Q}
  <1>1. Okay(State)
    BY TheState
  <1>2. Outcome(S)
    BY DEF Unregister
  <1>3. Q \subseteq BOOLEAN
    <2>1. last \in BOOLEAN
      OBVIOUS
    <2> HIDE DEF last
    <2> QED
      BY <2>1
  <1>4. E \subseteq Envs
    BY EnvironmentsOkay
  <1> HIDE DEF Q, E
  <1>5. ASSUME NEW t \in S PROVE Okay(t)
    <2>1. PICK env \in E, quick \in Q : t = storeClientUnregister(State, c, env, quick)
      BY <1>5
    <2> QED
      BY <1>1, <1>3, <1>4, <2>1, UnregisterOkay
  <1> HIDE DEF S
  <1> QED
    BY <1>2, <1>5, OutcomeOkay

LEMMA OpenDoneStep ==
  ASSUME TransferInv, NEW c \in Clients, OpenDone(c)
  PROVE  TransferInv'
  <1> DEFINE y == sc[c]
             r == storeReleaseRequest(State)
             z == [y EXCEPT !.swapin = "none", !.failed = TRUE, !.io = -1]
             s == WithClient(r, c, z)
             k == storeClientCallback(s, c, -1)
             t == IF y.st = "waiting" THEN k ELSE s
             v == SwapIn(y, "open")
             u == WithClient(State, c, v)
  <1>1. /\ Okay(State) /\ State.e = e /\ State.sc = sc
        /\ ClientOkay(e, y) /\ y \in StoreClients
    BY TheState
  <1>2. /\ y.swapin = "opening"
        /\ (~(InOrder /\ e.opening) /\ Outcome({u})) \/ Outcome({t})
    BY DEF OpenDone
  <1>3. y.st # "out"
    BY <1>1, <1>2, OutOkay DEF ClientOkay
  <1>4. y.type = "disk"
    BY <1>1, <1>2, <1>3 DEF ClientOkay, Source
  <1> HIDE DEF y
  <1>5. CASE ~(InOrder /\ e.opening) /\ Outcome({u})
    <2>1. Place(e, y) /\ Source(e, y) /\ Ends(e, y)
      BY <1>1, <1>3 DEF ClientOkay
    <2>2. /\ v \in StoreClients
          /\ v.type = y.type /\ v.st = y.st /\ v.off = y.off /\ v.got = y.got
          /\ v.event = y.event /\ v.swapin = "open" /\ v.io = y.io
          /\ v.failed = y.failed
      BY <1>1, SwapInClient
    <2> HIDE DEF v
    <2>3. Place(e, v)
      BY <2>1, <2>2 DEF Place
    <2>4. Source(e, v)
      BY <2>1, <2>2, <1>4 DEF Source
    <2>5. Ends(e, v)
      BY <2>1, <2>2, <1>5 DEF Ends
    <2>6. ClientOkay(State.e, v)
      BY <2>2, <2>3, <2>4, <2>5, <1>1, <1>3 DEF ClientOkay
    <2>7. Okay(u)
      BY <2>6, <1>1, WithClientOkay
    <2> HIDE DEF u
    <2> QED
      BY <2>7, <1>5, OutcomeOkay
  <1>6. CASE Outcome({t})
    <2>1. Okay(r) /\ r.sc = State.sc
      BY <1>1, ReleaseOkay, ReleasedEntry DEF Okay, EntryOkay
    <2>2. ClientOkay(r.e, y)
      BY <2>1, <1>1 DEF Okay, y
    <2> HIDE DEF r
    <2>3. Place(r.e, y) /\ Source(r.e, y) /\ Ends(r.e, y)
      BY <2>2, <1>3 DEF ClientOkay
    <2>4. /\ z \in StoreClients
          /\ z.type = y.type /\ z.st = y.st /\ z.off = y.off /\ z.got = y.got
          /\ z.event = y.event /\ z.swapin = "none" /\ z.io = -1
          /\ z.failed
      BY <1>1 DEF StoreClients
    <2> HIDE DEF z
    <2>5. Place(r.e, z)
      BY <2>3, <2>4 DEF Place
    <2>6. Source(r.e, z)
      BY <2>3, <2>4, <1>4 DEF Source
    <2>7. Ends(r.e, z)
      BY <2>3, <2>4 DEF Ends
    <2>8. ClientOkay(r.e, z)
      BY <2>4, <2>5, <2>6, <2>7, <1>3 DEF ClientOkay
    <2>9. Okay(s) /\ s.sc[c] = z
      BY <2>1, <2>8, WithClientOkay
    <2> HIDE DEF s
    <2>10. ASSUME y.st = "waiting" PROVE Okay(k)
      <3>1. Waits(s.sc[c])
        BY <2>4, <2>9, <2>10 DEF Waits
      <3>2. MayGive(s.e, s.sc[c], -1)
        BY <2>4, <2>9 DEF MayGive
      <3> QED
        BY <2>9, <3>1, <3>2, CallbackOkay
    <2> HIDE DEF k
    <2>11. Okay(t)
      BY <2>9, <2>10
    <2> HIDE DEF t
    <2> QED
      BY <2>11, <1>6, OutcomeOkay
  <1> QED
    BY <1>2, <1>5, <1>6

(* A read has returned.                                                      *)
LEMMA ReadReturned ==
  ASSUME TransferInv, NEW c \in Clients, sc[c].io >= 0
  PROVE  LET s == WithClient(State, c, InFile(sc[c], -1))
         IN  /\ Okay(s) /\ s.e = e /\ Waits(s.sc[c]) /\ sc[c].type = "disk"
             /\ sc[c].st = "waiting"
             /\ s.sc[c].off = sc[c].off /\ s.sc[c].type = "disk"
             /\ s.sc[c].swapin = sc[c].swapin /\ s.sc[c].failed = sc[c].failed
             /\ s.sc[c].got = sc[c].got /\ s.sc[c] \in StoreClients
  <1> DEFINE y == sc[c]
             z == InFile(y, -1)
             s == WithClient(State, c, z)
  <1>1. /\ Okay(State) /\ State.e = e /\ State.sc = sc
        /\ ClientOkay(e, y) /\ y \in StoreClients
    BY TheState
  <1>2. y.st # "out" /\ y.io >= 0
    BY <1>1, OutOkay DEF ClientOkay
  <1>3. Place(e, y) /\ Source(e, y) /\ Ends(e, y)
    BY <1>1, <1>2 DEF ClientOkay
  <1>4. y.type = "disk" /\ y.st = "waiting"
    BY <1>2, <1>3 DEF Source
  <1>5. /\ z \in StoreClients
        /\ z.type = y.type /\ z.st = y.st /\ z.off = y.off /\ z.got = y.got
        /\ z.event = y.event /\ z.swapin = y.swapin /\ z.io = -1
        /\ z.failed = y.failed
    BY <1>1, InFileClient
  <1> HIDE DEF z, y
  <1>6. Place(e, z)
    BY <1>3, <1>5 DEF Place
  <1>7. Source(e, z)
    BY <1>3, <1>5 DEF Source
  <1>8. Ends(e, z)
    BY <1>3, <1>5 DEF Ends
  <1>9. ClientOkay(State.e, z)
    BY <1>1, <1>2, <1>5, <1>6, <1>7, <1>8 DEF ClientOkay
  <1>10. Okay(s) /\ s.e = State.e /\ s.sc[c] = z
    BY <1>1, <1>9, WithClientOkay
  <1> HIDE DEF s
  <1>11. /\ Okay(s) /\ s.e = e /\ Waits(s.sc[c]) /\ y.type = "disk"
         /\ y.st = "waiting"
         /\ s.sc[c].off = y.off /\ s.sc[c].type = "disk"
         /\ s.sc[c].swapin = y.swapin /\ s.sc[c].failed = y.failed
         /\ s.sc[c].got = y.got /\ s.sc[c] \in StoreClients
    BY <1>1, <1>4, <1>5, <1>10 DEF Waits
  <1> QED
    BY <1>11 DEF s, z, y

(* The read failed: the client is cut off.                                   *)
LEMMA ReadFailedOkay ==
  ASSUME NEW s, Okay(s), NEW c \in Clients, Waits(s.sc[c])
  PROVE  Okay(ReadFailed(s, c))
  <1> DEFINE y == s.sc[c]
             a == Told(y, "cut", y.got)
             k == storeClientCallback(s, c, -1)
             z == [a EXCEPT !.failed = TRUE]
             t == WithClient(s, c, z)
  <1>1. ClientOkay(s.e, y) /\ y \in StoreClients /\ s.sc \in [Clients -> StoreClients]
    BY DEF Okay, ClientOkay
  <1>2. y.st = "waiting" /\ y.io = -1
    BY DEF Waits
  <1>3. y.got \in Nat
    BY <1>1 DEF StoreClients
  <1>4. /\ a \in StoreClients
        /\ a.type = y.type /\ a.st = "cut" /\ a.off = y.off /\ a.got = y.got
        /\ a.event = y.event /\ a.swapin = y.swapin /\ a.io = y.io
    <2> DEFINE got == y.got
    <2>1. y \in StoreClients /\ got \in Nat /\ "cut" \in {"ready", "end", "cut"}
      BY <1>1, <1>3
    <2> HIDE DEF y, got
    <2>2. LET v == Told(y, "cut", got)
          IN  /\ v \in StoreClients
              /\ v.type = y.type /\ v.st = "cut" /\ v.off = y.off /\ v.got = got
              /\ v.event = y.event /\ v.swapin = y.swapin /\ v.io = y.io
      BY <2>1 DEF Told, StoreClients
    <2> QED
      BY <2>2 DEF got
  <1>5. k = WithClient(s, c, a)
    BY DEF storeClientCallback
  <1> HIDE DEF a, k
  <1>6. k.e = s.e /\ k.sc = [s.sc EXCEPT ![c] = a] /\ k.sc[c] = a
    BY <1>1, <1>5 DEF WithClient
  <1>7. ReadFailed(s, c) = t
    <2>1. ReadFailed(s, c) = WithClient(k, c, [k.sc[c] EXCEPT !.failed = TRUE])
      BY DEF ReadFailed, k
    <2>2. [k.sc EXCEPT ![c] = z] = [s.sc EXCEPT ![c] = z]
      <3> HIDE DEF z
      <3> QED
        BY <1>1, <1>6
    <2> QED
      BY <2>1, <2>2, <1>6 DEF WithClient
  <1>8. /\ z \in StoreClients
        /\ z.type = y.type /\ z.st = "cut" /\ z.off = y.off /\ z.got = y.got
        /\ z.event = y.event /\ z.swapin = y.swapin /\ z.io = y.io /\ z.failed
    BY <1>4 DEF StoreClients
  <1>9. Place(s.e, y) /\ Source(s.e, y) /\ Ends(s.e, y)
    BY <1>1, <1>2 DEF ClientOkay
  <1> HIDE DEF z, y
  <1>10. Place(s.e, z)
    BY <1>8, <1>9 DEF Place
  <1>11. Source(s.e, z)
    BY <1>2, <1>8, <1>9 DEF Source
  <1>12. Ends(s.e, z)
    BY <1>8, <1>9 DEF Ends
  <1>13. ClientOkay(s.e, z)
    BY <1>8, <1>10, <1>11, <1>12 DEF ClientOkay
  <1>14. Okay(t)
    BY <1>13, WithClientOkay
  <1> QED
    BY <1>7, <1>14

LEMMA ReadBodyStep ==
  ASSUME TransferInv, NEW c \in Clients, storeClientReadBody(c)
  PROVE  TransferInv'
  <1> DEFINE y == sc[c]
             s == WithClient(State, c, InFile(sc[c], -1))
             S == {storeClientCallback(s, c, n) : n \in ReadLengths(c)}
             T == S \cup {ReadFailed(s, c)}
  <1>1. /\ e.hdr /\ y.io >= 0 /\ y.swapin = "open" /\ Outcome(T)
    BY DEF storeClientReadBody
  <1>2. /\ EntryOkay(e) /\ e \in Entries /\ ClientOkay(e, y) /\ y \in StoreClients
    BY TheState
  <1>3. /\ Okay(s) /\ s.e = e /\ Waits(s.sc[c]) /\ y.type = "disk" /\ y.st = "waiting"
        /\ s.sc[c].off = y.off /\ s.sc[c].type = "disk"
        /\ s.sc[c].swapin = y.swapin /\ s.sc[c].failed = y.failed
        /\ s.sc[c].got = y.got /\ s.sc[c] \in StoreClients
    BY <1>1, ReadReturned
  <1> HIDE DEF s
  <1>4. Place(e, y) /\ Source(e, y) /\ Ends(e, y)
    BY <1>2, <1>3 DEF ClientOkay
  <1>5. /\ y.off \in Nat /\ y.io \in Nat /\ e.file \in Nat /\ e.hi \in Nat /\ e.queue \in Nat
        /\ CopySize \in Nat /\ CopySize > 1
    BY <1>1, <1>2, TransferAssumption DEF Entries, StoreClients
  <1>6. e.file <= e.hi \/ (DiskOnly(e) /\ e.object_sz = e.file)
    <2>1. CASE DiskOnly(e)
      BY <2>1, <1>1, <1>2 DEF EntryOkay, WholeObject
    <2>2. CASE ~DiskOnly(e)
      BY <2>2, <1>2, <1>5 DEF EntryOkay, InTheFile, Offsets
    <2> QED
      BY <2>1, <2>2
  <1>7. ASSUME NEW n \in ReadLengths(c) PROVE Okay(storeClientCallback(s, c, n))
    <2>1. PICK m \in y.io..e.file : n = Min({CopySize, Max({0, m - y.off})})
      BY <1>7 DEF ReadLengths
    <2>2. m \in Nat /\ m >= y.io /\ m <= e.file
      BY <2>1, <1>5
    <2>3. Max({0, m - y.off}) = IF m <= y.off THEN 0 ELSE m - y.off
      <3> DEFINE d == m - y.off
      <3>1. d \in Int /\ (0 <= d <=> y.off <= m) /\ (m = y.off => d = 0)
        BY <2>2, <1>5
      <3> HIDE DEF d
      <3>2. Max({0, d}) = IF 0 <= d THEN d ELSE 0
        BY <3>1, OfTwo
      <3>3. Max({0, d}) = IF m <= y.off THEN 0 ELSE d
        BY <3>1, <3>2, <2>2, <1>5
      <3> QED
        BY <3>3 DEF d
    <2> DEFINE g == Max({0, m - y.off})
    <2>4. g \in Nat /\ (m > y.off => g > 0) /\ (g > 0 => y.off + g <= m)
      BY <2>2, <2>3, <1>5
    <2>5. n = IF CopySize <= g THEN CopySize ELSE g
      <3>1. n = Min({CopySize, g})
        BY <2>1
      <3> HIDE DEF g
      <3> QED
        BY <3>1, <2>4, <1>5, OfTwo
    <2> HIDE DEF g
    <2>6. n \in Nat /\ (m > y.off => n > 0) /\ (n > 0 => y.off + n <= m)
      BY <2>2, <2>4, <2>5, <1>5
    <2>7. ~(InOrder /\ e.opening)
      BY <1>1, <1>4 DEF Ends
    <2>8. InOrder /\ y.off # 0 /\ ~y.failed => m > y.off
      BY <2>2, <1>1, <1>4, <1>5 DEF Ends
    <2> DEFINE z == s.sc[c]
    <2>9. z.off = y.off /\ z.type = "disk" /\ z.swapin # "none" /\ z.failed = y.failed
      BY <1>1, <1>3
    <2> HIDE DEF z
    <2>10. n > 0 \/ (n = 0 /\ z.off = 0 /\ e.hi > 0) =>
              Has(z, n) <= e.hi \/ (DiskOnly(e) /\ e.hdr /\ Has(z, n) <= e.object_sz)
      <3>1. ASSUME n > 0 PROVE Has(z, n) \in Nat /\ Has(z, n) <= m
        BY <3>1, <2>2, <2>6, <2>9, <1>5 DEF Has
      <3>2. ASSUME n = 0, z.off = 0, e.hi > 0 PROVE Has(z, n) <= e.hi
        BY <3>2, <1>5 DEF Has
      <3> QED
        BY <3>1, <3>2, <2>2, <1>1, <1>5, <1>6
    <2>11. MayGive(e, z, n)
      BY <2>6, <2>7, <2>8, <2>9, <2>10, <1>1 DEF MayGive
    <2>12. n \in Int
      BY <2>6
    <2>13. MayGive(s.e, s.sc[c], n)
      BY <2>11, <1>3 DEF z
    <2> QED
      BY <2>12, <2>13, <1>3, CallbackOkay
  <1>8. Okay(ReadFailed(s, c))
    BY <1>3, ReadFailedOkay
  <1>9. \A t \in T : Okay(t)
    BY <1>7, <1>8
  <1> HIDE DEF T
  <1> QED
    BY <1>1, <1>9, OutcomeOkay

(* The file's header tells how long the object is.                           *)
LEMMA HeaderOkay ==
  ASSUME NEW s, Okay(s), NEW t, t.sc = s.sc, DiskOnly(s.e), ~s.e.hdr,
         t.e = [s.e EXCEPT !.hdr = TRUE, !.object_sz = s.e.file]
  PROVE  Okay(t) /\ t.e.hdr /\ t.e.object_sz = s.e.file /\ t.e.hi = s.e.hi
         /\ DiskOnly(t.e) /\ t.e.file = s.e.file /\ t.e.opening = s.e.opening
  <1> DEFINE x == s.e
             y == t.e
  <1>1. EntryOkay(x) /\ x \in Entries
    BY DEF Okay, EntryOkay
  <1>2. /\ y \in Entries /\ y.lo = x.lo /\ SameFile(x, y) /\ y.hdr /\ y.object_sz = x.file
    BY <1>1 DEF Entries, SameFile
  <1>3. /\ y.store = x.store /\ y.aborted = x.aborted /\ y.inMemory = x.inMemory
        /\ y.gone = x.gone /\ y.hi = x.hi /\ y.bad = x.bad
    BY <1>1 DEF Entries
  <1>4. /\ y.swap = x.swap /\ y.release = x.release /\ y.sio = x.sio
        /\ y.opening = x.opening /\ y.closing = x.closing
    BY <1>1 DEF Entries
  <1>5. DiskOnly(x) /\ ~x.hdr /\ DiskOnly(y)
    BY <1>3, <1>4 DEF DiskOnly
  <1> HIDE DEF x, y
  <1>6. Offsets(y) /\ Writing(y)
    BY <1>1, <1>2, <1>3, <1>4 DEF EntryOkay, Offsets, Writing, SameFile
  <1>7. InTheFile(y)
    BY <1>1, <1>2, <1>3, <1>4, <1>5 DEF EntryOkay, InTheFile, DiskOnly, SameFile
  <1>8. WholeObject(y)
    BY <1>1, <1>2, <1>3, <1>4, <1>5 DEF EntryOkay, WholeObject, DiskOnly, SameFile
  <1>9. EntryOkay(y)
    BY <1>1, <1>2, <1>3, <1>6, <1>7, <1>8 DEF EntryOkay
  <1>10. ASSUME NEW c \in Clients PROVE ClientOkay(y, s.sc[c])
    <2> DEFINE z == s.sc[c]
    <2>1. ClientOkay(x, z) /\ z \in StoreClients
      BY DEF Okay, ClientOkay, x
    <2> HIDE DEF z
    <2> SUFFICES ASSUME z.st # "out" PROVE Place(y, z) /\ Source(y, z) /\ Ends(y, z)
      BY <2>1 DEF ClientOkay, z
    <2>2. Place(x, z) /\ Source(x, z) /\ Ends(x, z)
      BY <2>1 DEF ClientOkay
    <2>3. x.object_sz = -1 /\ x.hi = 0 /\ z.got \in Nat
      BY <2>1, <1>1, <1>5 DEF EntryOkay, WholeObject, DiskOnly, StoreClients
    <2>4. Place(y, z)
      BY <2>2, <1>2, <1>3, <1>5 DEF Place, SameFile
    <2>5. Source(y, z)
      BY <2>2, <1>2, <1>3, <1>4, <1>5 DEF Source
    <2>6. Ends(y, z)
      BY <2>2, <2>3, <1>2, <1>3, <1>4 DEF Ends
    <2> QED
      BY <2>4, <2>5, <2>6
  <1>11. Okay(t)
    BY <1>9, <1>10 DEF Okay, x, y
  <1> QED
    BY <1>2, <1>3, <1>4, <1>5, <1>11 DEF SameFile, x, y

LEMMA ReadHeaderStep ==
  ASSUME TransferInv, NEW c \in Clients, storeClientReadHeader(c)
  PROVE  TransferInv'
  <1> DEFINE y == sc[c]
             s == WithClient(State, c, InFile(sc[c], -1))
             x == [e EXCEPT !.hdr = TRUE, !.object_sz = e.file]
             t == WithEntry(s, x)
             body == Min({CopySize - 1, e.file})
             p == y.off = 0
             a == Asserted(t, p)
             k == storeClientCallback(a, c, body)
             u == IF y.off < body THEN k ELSE storeClientFileRead(t, c)
  <1>1. /\ ~e.hdr /\ y.io >= 0 /\ y.swapin = "open" /\ Outcome({u, ReadFailed(s, c)})
    BY DEF storeClientReadHeader
  <1>2. /\ EntryOkay(e) /\ e \in Entries /\ ClientOkay(e, y) /\ y \in StoreClients
    BY TheState
  <1>3. /\ Okay(s) /\ s.e = e /\ Waits(s.sc[c]) /\ y.type = "disk" /\ y.st = "waiting"
        /\ s.sc[c].off = y.off /\ s.sc[c].type = "disk"
        /\ s.sc[c].swapin = y.swapin /\ s.sc[c].failed = y.failed
        /\ s.sc[c].got = y.got /\ s.sc[c] \in StoreClients
    BY <1>1, ReadReturned
  <1>4. Place(e, y) /\ Source(e, y) /\ Ends(e, y)
    BY <1>2, <1>3 DEF ClientOkay
  <1>5. DiskOnly(e) /\ y.got = 0
    BY <1>1, <1>3, <1>4 DEF Source
  <1>6. y.off = 0
    BY <1>2, <1>4, <1>5 DEF Place, StoreClients
  <1>7. e.file \in Nat /\ e.file > 0 /\ CopySize \in Nat /\ CopySize > 1
        /\ e.hi = 0 /\ ~e.opening
    <2>1. e.file \in Nat /\ e.file > 0 /\ e.hi = 0
      BY <1>2, <1>5 DEF EntryOkay, Entries, WholeObject, DiskOnly
    <2>2. ~e.opening
      BY <1>2, <1>5 DEF EntryOkay, Writing, DiskOnly
    <2> QED
      BY <2>1, <2>2, TransferAssumption
  <1>8. body \in Nat /\ body > 0
    <2> DEFINE m == CopySize - 1
    <2>1. m \in Nat /\ m > 0
      BY <1>7
    <2> HIDE DEF m
    <2>2. Min({m, e.file}) = IF m <= e.file THEN m ELSE e.file
      BY <2>1, <1>7, OfTwo
    <2> QED
      BY <2>1, <2>2, <1>7 DEF m
  <1>9. t.e = x /\ t.sc = s.sc
    BY DEF WithEntry
  <1> HIDE DEF s, t, body
  <1>10. /\ Okay(t) /\ t.e.hdr /\ t.e.object_sz = e.file /\ t.e.hi = e.hi
         /\ DiskOnly(t.e) /\ t.e.opening = e.opening
    BY <1>1, <1>3, <1>5, <1>9, HeaderOkay
  <1>11. a.e = t.e /\ a.sc = t.sc
    <2>1. p /\ t.e \in Entries
      BY <1>6, <1>10 DEF Okay, EntryOkay
    <2> QED
      BY <2>1, AssertedSame
  <1> HIDE DEF a, p
  <1>12. Okay(a)
    BY <1>10, <1>11 DEF Okay
  <1> DEFINE z == a.sc[c]
  <1>13. /\ Waits(z) /\ z.off = 0 /\ z.type = "disk" /\ z.swapin # "none"
    BY <1>1, <1>3, <1>6, <1>9, <1>11
  <1> HIDE DEF z
  <1>14. MayGive(a.e, z, body)
    <2>1. Has(z, body) = 1
      BY <1>13 DEF Has
    <2> QED
      BY <2>1, <1>7, <1>8, <1>10, <1>11, <1>13 DEF MayGive
  <1>15. body \in Int
    BY <1>8
  <1>16. Okay(k)
    BY <1>12, <1>13, <1>14, <1>15, CallbackOkay DEF z
  <1>17. u = k
    BY <1>6, <1>8
  <1>18. Okay(ReadFailed(s, c))
    BY <1>3, ReadFailedOkay
  <1> HIDE DEF u, k
  <1>19. \A v \in {u, ReadFailed(s, c)} : Okay(v)
    BY <1>16, <1>17, <1>18
  <1> QED
    BY <1>1, <1>19, OutcomeOkay

(* An entry that is only marked differently.                                 *)
LEMMA DeferStep ==
  ASSUME TransferInv, DeferRead
  PROVE  TransferInv'
  <1> DEFINE y == [e EXCEPT !.defer = TRUE]
             t == WithEntry(State, y)
  <1>1. Okay(State) /\ State.e = e /\ State.sc = sc /\ e \in Entries
    BY TheState
  <1>2. e' = y /\ sc' = sc
    BY DEF DeferRead
  <1>3. y \in Entries /\ SameObject(e, y) /\ SameSwap(e, y) /\ SameFile(e, y) /\ y.lo = e.lo
    BY <1>1 DEF Entries, SameObject, SameSwap, SameFile
  <1>4. t.e = y /\ t.sc = State.sc
    BY DEF WithEntry
  <1> HIDE DEF y, t
  <1>5. Okay(t)
    BY <1>1, <1>3, <1>4, SameOkay
  <1> QED
    BY <1>1, <1>2, <1>4, <1>5 DEF TransferInv, State, Okay

LEMMA AppendStep ==
  ASSUME TransferInv, NEW n \in 1..CopySize, storeAppend(n)
  PROVE  TransferInv'
  <1> DEFINE y == [e EXCEPT !.hi = @ + n]
             s == WithEntry(State, y)
             S == {storeSwapOut(InvokeHandlers(s, env), env) : env \in Environments(Reading)}
  <1>1. /\ Okay(State) /\ State.e = e /\ State.sc = sc /\ EntryOkay(e) /\ e \in Entries
        /\ sc \in [Clients -> StoreClients]
    BY TheState
  <1>2. e.store = "PENDING" /\ ~e.gone /\ Outcome(S)
    BY DEF storeAppend, Readable, Live
  <1>3. n \in Nat /\ n > 0 /\ e.hi \in Nat
    BY <1>1, TransferAssumption DEF Entries
  <1>4. /\ y \in Entries /\ SameSwap(e, y) /\ SameFile(e, y) /\ y.lo = e.lo
        /\ y.hi = e.hi + n
    BY <1>1, <1>3 DEF Entries, SameSwap, SameFile
  <1>5. /\ y.store = e.store /\ y.aborted = e.aborted /\ y.inMemory = e.inMemory
        /\ y.gone = e.gone /\ y.object_sz = e.object_sz /\ y.bad = e.bad
    BY <1>1 DEF Entries
  <1>6. s.e = y /\ s.sc = sc
    BY <1>1 DEF WithEntry
  <1> HIDE DEF y, s
  <1>7. ~DiskOnly(e) /\ ~DiskOnly(y) /\ ~e.inMemory /\ (e.hi = 0 => e.swap = "NONE")
    BY <1>1, <1>2, <1>3, <1>4 DEF EntryOkay, WholeObject, Writing, DiskOnly, Entries
  <1>8. EntryOkay(y)
    <2>1. Offsets(y)
      <3>1. e.lo \in Nat /\ e.queue \in Nat
        BY <1>1 DEF Entries
      <3> QED
        BY <3>1, <1>1, <1>2, <1>3, <1>4, <1>5 DEF EntryOkay, Offsets, SameSwap, SameFile
    <2>2. Writing(y)
      BY <1>1, <1>2, <1>3, <1>4, <1>5 DEF EntryOkay, Writing, SameSwap, SameFile
    <2>3. InTheFile(y)
      BY <1>1, <1>2, <1>3, <1>4, <1>5, <1>7 DEF EntryOkay, InTheFile, SameSwap, SameFile
    <2>4. WholeObject(y)
      BY <1>1, <1>2, <1>4, <1>5, <1>7 DEF EntryOkay, WholeObject, SameSwap
    <2> QED
      BY <2>1, <2>2, <2>3, <2>4, <1>1, <1>4, <1>5 DEF EntryOkay
  <1>9. ASSUME NEW c \in Clients PROVE ClientOkay(y, sc[c])
    <2> DEFINE z == sc[c]
    <2>1. ClientOkay(e, z) /\ z \in StoreClients
      BY TheState
    <2> HIDE DEF z
    <2> SUFFICES ASSUME z.st # "out" PROVE Place(y, z) /\ Source(y, z) /\ Ends(y, z)
      BY <2>1 DEF ClientOkay, z
    <2>2. Place(e, z) /\ Source(e, z) /\ Ends(e, z)
      BY <2>1 DEF ClientOkay
    <2>3. z.got \in Nat
      BY <2>1 DEF StoreClients
    <2>4. Place(y, z)
      BY <2>2, <2>3, <1>3, <1>4, <1>7 DEF Place, SameFile
    <2>5. Source(y, z)
      BY <2>2, <1>3, <1>4, <1>5, <1>7 DEF Source, SameSwap
    <2>6. Ends(y, z)
      BY <2>2, <1>4, <1>5 DEF Ends, SameSwap
    <2> QED
      BY <2>4, <2>5, <2>6
  <1>10. Okay(s)
    BY <1>1, <1>6, <1>8, <1>9 DEF Okay
  <1>11. ASSUME NEW t \in S PROVE Okay(t)
    <2>1. PICK env \in Environments(Reading) : t = storeSwapOut(InvokeHandlers(s, env), env)
      BY <1>11
    <2>2. env \in Envs
      BY EnvironmentsOkay DEF Reading
    <2> DEFINE i == InvokeHandlers(s, env)
    <2>3. Okay(i)
      BY <2>2, <1>10, InvokeHandlersOkay
    <2> HIDE DEF i
    <2>4. Okay(storeSwapOut(i, env))
      BY <2>2, <2>3, SwapOutOkay
    <2> QED
      BY <2>1, <2>4 DEF i
  <1> HIDE DEF S
  <1> QED
    BY <1>2, <1>11, OutcomeOkay

LEMMA CompleteStep ==
  ASSUME TransferInv, storeComplete
  PROVE  TransferInv'
  <1> DEFINE y == [e EXCEPT !.store = "OK", !.object_sz = e.hi]
             s == WithEntry(State, y)
             S == {Unlocked(InvokeHandlers(storeSwapOut(s, env), env)) :
                      env \in Environments(Reading)}
  <1>1. /\ Okay(State) /\ State.e = e /\ State.sc = sc /\ EntryOkay(e) /\ e \in Entries
        /\ sc \in [Clients -> StoreClients]
    BY TheState
  <1>2. e.store = "PENDING" /\ e.hi \in ObjectSizes /\ Outcome(S)
    BY DEF storeComplete, Readable
  <1>3. e.hi \in Nat /\ e.hi > 0
    BY <1>2, TransferAssumption
  <1>4. /\ y \in Entries /\ SameSwap(e, y) /\ SameFile(e, y) /\ y.lo = e.lo
        /\ y.hi = e.hi /\ y.object_sz = e.hi
    BY <1>1 DEF Entries, SameSwap, SameFile
  <1>5. /\ y.store = "OK" /\ y.aborted = e.aborted /\ y.inMemory = e.inMemory
        /\ y.gone = e.gone /\ y.bad = e.bad
    BY <1>1 DEF Entries
  <1>6. s.e = y /\ s.sc = sc
    BY <1>1 DEF WithEntry
  <1> HIDE DEF y, s
  <1>7. ~DiskOnly(e) /\ ~DiskOnly(y) /\ ~e.inMemory
    BY <1>1, <1>2, <1>3, <1>4 DEF EntryOkay, WholeObject, DiskOnly
  <1>8. EntryOkay(y)
    <2>1. Offsets(y)
      BY <1>1, <1>2, <1>4, <1>5 DEF EntryOkay, Offsets, SameSwap, SameFile
    <2>2. Writing(y)
      BY <1>1, <1>2, <1>4, <1>5 DEF EntryOkay, Writing, SameSwap, SameFile
    <2>3. InTheFile(y)
      BY <1>1, <1>2, <1>4, <1>5, <1>7 DEF EntryOkay, InTheFile, SameSwap, SameFile
    <2>4. WholeObject(y)
      BY <1>1, <1>2, <1>3, <1>4, <1>5, <1>7 DEF EntryOkay, WholeObject, SameSwap
    <2> QED
      BY <2>1, <2>2, <2>3, <2>4, <1>1, <1>4, <1>5 DEF EntryOkay
  <1>9. ASSUME NEW c \in Clients PROVE ClientOkay(y, sc[c])
    <2> DEFINE z == sc[c]
    <2>1. ClientOkay(e, z) /\ z \in StoreClients
      BY TheState
    <2> HIDE DEF z
    <2> SUFFICES ASSUME z.st # "out" PROVE Place(y, z) /\ Source(y, z) /\ Ends(y, z)
      BY <2>1 DEF ClientOkay, z
    <2>2. Place(e, z) /\ Source(e, z) /\ Ends(e, z)
      BY <2>1 DEF ClientOkay
    <2>3. Place(y, z)
      BY <2>2, <1>4, <1>7 DEF Place, SameFile
    <2>4. Source(y, z)
      BY <2>2, <1>4, <1>5, <1>7 DEF Source, SameSwap
    <2>5. Ends(y, z)
      BY <2>2, <1>2, <1>4, <1>5 DEF Ends, SameSwap
    <2> QED
      BY <2>3, <2>4, <2>5
  <1>10. Okay(s)
    BY <1>1, <1>6, <1>8, <1>9 DEF Okay
  <1>11. ASSUME NEW t \in S PROVE Okay(t)
    <2>1. PICK env \in Environments(Reading) :
              t = Unlocked(InvokeHandlers(storeSwapOut(s, env), env))
      BY <1>11
    <2>2. env \in Envs
      BY EnvironmentsOkay DEF Reading
    <2> DEFINE w == storeSwapOut(s, env)
               i == InvokeHandlers(w, env)
    <2>3. Okay(w)
      BY <2>2, <1>10, SwapOutOkay
    <2> HIDE DEF w
    <2>4. Okay(i)
      BY <2>2, <2>3, InvokeHandlersOkay
    <2> HIDE DEF i
    <2>5. Okay(Unlocked(i))
      BY <2>4, UnlockedOkay
    <2> QED
      BY <2>1, <2>5 DEF i, w
  <1> HIDE DEF S
  <1> QED
    BY <1>2, <1>11, OutcomeOkay

LEMMA RequestFailedStep ==
  ASSUME TransferInv, storeRequestFailed
  PROVE  TransferInv'
  <1> DEFINE S == {Unlocked(storeAbort(State, env)) : env \in Environments(Reading)}
  <1>1. Okay(State) /\ State.e = e
    BY TheState
  <1>2. State.e.store = "PENDING" /\ Outcome(S)
    BY <1>1 DEF storeRequestFailed
  <1>3. ASSUME NEW t \in S PROVE Okay(t)
    <2>1. PICK env \in Environments(Reading) : t = Unlocked(storeAbort(State, env))
      BY <1>3
    <2>2. env \in Envs
      BY EnvironmentsOkay DEF Reading
    <2> DEFINE a == storeAbort(State, env)
    <2>3. Okay(a)
      BY <1>1, <1>2, <2>2, AbortOkay
    <2> HIDE DEF a
    <2>4. Okay(Unlocked(a))
      BY <2>3, UnlockedOkay
    <2> QED
      BY <2>1, <2>4 DEF a
  <1> HIDE DEF S
  <1> QED
    BY <1>2, <1>3, OutcomeOkay

(* What was queued is written once the file has been created; a file that    *)
(* was to be closed is.                                                      *)
LEMMA CreatedOkay ==
  ASSUME NEW s, Okay(s), s.e.opening, NEW t, t.sc = s.sc,
         t.e \in Entries, SameObject(s.e, t.e), t.e.lo = s.e.lo, t.e.queue = s.e.queue,
         t.e.node = s.e.node, t.e.file = s.e.queue, t.e.release = s.e.release,
         t.e.hdr = s.e.hdr, ~t.e.opening,
         IF s.e.closing THEN t.e.swap = "DONE" /\ ~t.e.sio /\ ~t.e.closing
         ELSE t.e.swap = "WRITING" /\ t.e.sio = s.e.sio /\ t.e.closing = s.e.closing
  PROVE  Okay(t)
  <1> DEFINE x == s.e
             y == t.e
  <1>1. EntryOkay(x) /\ x \in Entries /\ s.sc \in [Clients -> StoreClients]
    BY DEF Okay, EntryOkay
  <1>2. /\ y \in Entries /\ SameObject(x, y) /\ y.lo = x.lo /\ y.queue = x.queue
        /\ y.node = x.node /\ y.file = x.queue /\ y.release = x.release
        /\ y.hdr = x.hdr /\ ~y.opening /\ x.opening
    OBVIOUS
  <1>3. IF x.closing THEN y.swap = "DONE" /\ ~y.sio /\ ~y.closing
        ELSE y.swap = "WRITING" /\ y.sio = x.sio /\ ~y.closing
    OBVIOUS
  <1> HIDE DEF x, y
  <1>4. x.swap = "WRITING" /\ x.hi > 0 /\ (x.sio => ~x.closing) /\ (~x.closing => x.sio)
    BY <1>1, <1>2 DEF EntryOkay, Writing
  <1>5. ~DiskOnly(x) /\ ~DiskOnly(y)
    BY <1>1, <1>2, <1>4 DEF DiskOnly, SameObject, Entries
  <1>6. EntryOkay(y)
    <2>1. Offsets(y)
      BY <1>1, <1>2, <1>3, <1>4 DEF EntryOkay, Offsets, SameObject
    <2>2. Writing(y)
      BY <1>1, <1>2, <1>3, <1>4 DEF EntryOkay, Writing, SameObject
    <2>3. InTheFile(y)
      <3>1. x.closing /\ ~x.release => x.store = "OK" /\ x.queue = x.hi
        BY <1>1 DEF EntryOkay, Writing
      <3>2. y.queue \in Nat
        BY <1>2 DEF Entries
      <3> QED
        BY <3>1, <3>2, <1>1, <1>2, <1>3, <1>4, <1>5 DEF EntryOkay, InTheFile, SameObject
    <2>4. WholeObject(y)
      BY <1>1, <1>2, <1>3, <1>4, <1>5 DEF EntryOkay, WholeObject, SameObject
    <2> QED
      BY <2>1, <2>2, <2>3, <2>4, <1>1, <1>2 DEF EntryOkay, SameObject
  <1>7. ASSUME NEW c \in Clients PROVE ClientOkay(y, s.sc[c])
    <2> DEFINE z == s.sc[c]
    <2>1. ClientOkay(x, z) /\ z \in StoreClients
      BY DEF Okay, ClientOkay, x
    <2> HIDE DEF z
    <2> SUFFICES ASSUME z.st # "out" PROVE Place(y, z) /\ Source(y, z) /\ Ends(y, z)
      BY <2>1 DEF ClientOkay, z
    <2>2. Place(x, z) /\ Source(x, z) /\ Ends(x, z)
      BY <2>1 DEF ClientOkay
    <2>3. Place(y, z)
      BY <2>2, <1>2, <1>5 DEF Place, SameObject
    <2>4. Source(y, z)
      BY <2>2, <1>2, <1>3, <1>4, <1>5 DEF Source, SameObject
    <2>5. Ends(y, z)
      BY <2>2, <1>2 DEF Ends, SameObject
    <2> QED
      BY <2>3, <2>4, <2>5
  <1> QED
    BY <1>1, <1>6, <1>7 DEF Okay, x, y

LEMMA CreateDoneStep ==
  ASSUME TransferInv, CreateDone
  PROVE  TransferInv'
  <1> DEFINE x == [e EXCEPT !.opening = FALSE, !.file = e.queue]
             s == WithEntry(State, x)
             k == storeSwapOutFileClosed(s, FALSE)
             r == IF e.closing THEN Unlocked(k) ELSE s
             f == storeSwapOutFileClosed(State, TRUE)
             g == Unlocked(f)
  <1>1. /\ Okay(State) /\ State.e = e /\ State.sc = sc /\ EntryOkay(e) /\ e \in Entries
        /\ sc \in [Clients -> StoreClients]
    BY TheState
  <1>2. e.opening /\ Outcome({r, g})
    BY DEF CreateDone
  <1>3. e.swap = "WRITING"
    BY <1>1, <1>2 DEF EntryOkay, Writing
  <1>4. /\ x \in Entries /\ SameObject(e, x) /\ x.lo = e.lo /\ x.queue = e.queue
        /\ x.node = e.node
    BY <1>1 DEF Entries, SameObject
  <1>5. /\ x.file = e.queue /\ x.release = e.release /\ x.hdr = e.hdr /\ ~x.opening
        /\ x.swap = e.swap /\ x.sio = e.sio /\ x.closing = e.closing
    BY <1>1 DEF Entries
  <1>6. s.e = x /\ s.sc = sc
    BY <1>1 DEF WithEntry
  <1> HIDE DEF x, s
  <1>7. Okay(r)
    <2>1. CASE ~e.closing
      <3>1. Okay(s)
        BY <2>1, <1>1, <1>2, <1>3, <1>4, <1>5, <1>6, CreatedOkay
      <3> QED
        BY <2>1, <3>1
    <2>2. CASE e.closing
      <3> DEFINE err == FALSE
                 l == ClosedState(s, err)
                 y == Closed(x, err)
      <3>1. err \in BOOLEAN /\ ~err
        OBVIOUS
      <3>2. k = storeSwapOutFileClosed(s, err)
        OBVIOUS
      <3> HIDE DEF err
      <3>3. /\ y \in Entries /\ SameObject(x, y) /\ SameFile(x, y)
            /\ y.lo = x.lo /\ y.swap = (IF err THEN "NONE" ELSE "DONE")
            /\ (y.release <=> x.release \/ err) /\ y.hdr = x.hdr
            /\ ~y.sio /\ ~y.opening /\ ~y.closing
        BY <3>1, <1>4, ClosedEntry
      <3>4. l.e = y /\ l.sc = s.sc
        <4>1. /\ l.e = Closed(s.e, err) /\ l.sc \in [Clients -> StoreClients]
              /\ \A c \in Clients : l.sc[c] = FileLost(s.sc[c], err)
          BY <3>1, <1>1, <1>6, ClosedClients
        <4>2. \A c \in Clients : FileLost(s.sc[c], err) = s.sc[c]
          BY <3>1, <1>1, <1>6, LostNothing
        <4> QED
          BY <4>1, <4>2, <1>1, <1>6
      <3> HIDE DEF y, l
      <3>5. SameObject(e, y) /\ y.queue = e.queue /\ y.node = e.node /\ y.file = e.queue
        BY <3>3, <1>4, <1>5 DEF SameObject, SameFile
      <3>6. y.release = e.release
        BY <3>1, <3>3, <1>1, <1>5 DEF Entries
      <3>7. y.swap = "DONE" /\ y.lo = e.lo /\ y.hdr = e.hdr
        BY <3>1, <3>3, <1>4, <1>5
      <3>8. Okay(l)
        BY <2>2, <3>3, <3>4, <3>5, <3>6, <3>7, <1>1, <1>2, <1>6, CreatedOkay
      <3>9. Okay(k)
        BY <3>1, <3>2, <3>8, <1>3, <1>4, <1>5, <1>6, FileClosedOkay DEF l
      <3> HIDE DEF k
      <3>10. Okay(Unlocked(k))
        BY <3>9, UnlockedOkay
      <3> QED
        BY <2>2, <3>10
    <2> QED
      BY <2>1, <2>2
  <1>8. Okay(g)
    <2> DEFINE err == TRUE
    <2>1. err \in BOOLEAN /\ err
      OBVIOUS
    <2>2. f = storeSwapOutFileClosed(State, err)
      OBVIOUS
    <2> HIDE DEF err
    <2>3. Okay(ClosedState(State, err))
      BY <2>1, <1>1, <1>3, ClosedStateOkay
    <2>4. Okay(f)
      BY <2>1, <2>2, <2>3, <1>1, <1>3, FileClosedOkay
    <2> HIDE DEF f
    <2> QED
      BY <2>4, UnlockedOkay
  <1> HIDE DEF r, g
  <1>9. \A t \in {r, g} : Okay(t)
    BY <1>7, <1>8
  <1> QED
    BY <1>2, <1>9, OutcomeOkay

(* The entry a request was created for, and its client.                      *)
LEMMA NewClientOkay ==
  ASSUME NEW x, x.store = "PENDING", x.swap = "NONE", x.lo = 0, x.hi = 0, ~x.inMemory, ~x.gone
  PROVE  ClientOkay(x, NewClient)
  <1> DEFINE y == NewClient
  <1>1. /\ y \in StoreClients /\ y.type = "mem" /\ y.st = "ready" /\ y.off = 0 /\ y.got = 0
        /\ y.swapin = "none" /\ y.io = -1
    BY DEF NewClient, StoreClients
  <1> HIDE DEF y
  <1>2. Place(x, y) /\ Source(x, y) /\ Ends(x, y)
    BY <1>1 DEF Place, Source, Ends, DiskOnly
  <1>3. ClientOkay(x, y)
    BY <1>1, <1>2 DEF ClientOkay
  <1> QED
    BY <1>3 DEF y

LEMMA NewEntryOkay ==
  /\ NewEntry \in Entries /\ EntryOkay(NewEntry) /\ NewEntry.bad = FALSE
  /\ ClientOkay(NewEntry, NewClient) /\ NewClient \in StoreClients
  <1> DEFINE x == NewEntry
  <1>1. x \in Entries /\ x.bad = FALSE /\ x.lo = 0 /\ x.hi = 0 /\ x.queue = 0 /\ x.node = -1
    BY DEF NewEntry, Entries
  <1>2. /\ ~x.sio /\ ~x.opening /\ ~x.closing /\ ~x.release /\ ~x.aborted /\ ~x.inMemory
        /\ x.object_sz = -1 /\ ~x.hdr /\ x.store = "PENDING" /\ x.swap = "NONE"
        /\ x.file = 0 /\ ~x.gone
    BY DEF NewEntry
  <1> HIDE DEF x
  <1>3. EntryOkay(x) /\ ClientOkay(x, NewClient)
    BY <1>1, <1>2, EmptyOkay, NewClientOkay
  <1>4. NewClient \in StoreClients
    BY <1>3 DEF ClientOkay
  <1> QED
    BY <1>1, <1>3, <1>4 DEF x

LEMMA CreateEntryStep ==
  ASSUME TransferInv, storeCreateEntry
  PROVE  TransferInv'
  <1>1. /\ EntryOkay(e) /\ e \in Entries /\ sc \in [Clients -> StoreClients]
        /\ \A c \in Clients : ClientOkay(e, sc[c])
    BY TheState
  <1>2. e.gone /\ e' = [NewEntry EXCEPT !.bad = e.bad]
        /\ sc' = [sc EXCEPT ![First] = NewClient]
    BY DEF storeCreateEntry
  <1>3. e.bad = FALSE
    BY <1>1 DEF EntryOkay, Entries
  <1>4. e' = NewEntry
    <2>1. ASSUME NEW x \in Entries, x.bad = e.bad
          PROVE  [x EXCEPT !.bad = e.bad] = x
      BY <2>1 DEF Entries
    <2>2. NewEntry \in Entries /\ NewEntry.bad = e.bad
      BY <1>3, NewEntryOkay
    <2>3. [NewEntry EXCEPT !.bad = e.bad] = NewEntry
      BY <2>1, <2>2
    <2> QED
      BY <2>3, <1>2
  <1>5. \A c \in Clients : sc[c] = Out
    BY <1>1, <1>2 DEF ClientOkay, Source
  <1>6. sc' \in [Clients -> StoreClients]
    BY <1>1, <1>2, NewEntryOkay
  <1>7. ASSUME NEW c \in Clients PROVE ClientOkay(NewEntry, sc'[c])
    <2>1. sc'[c] = NewClient \/ sc'[c] = Out
      BY <1>1, <1>2, <1>5
    <2> QED
      BY <2>1, OutOkay, NewEntryOkay
  <1> QED
    BY <1>4, <1>6, <1>7, NewEntryOkay DEF TransferInv, State, Okay
-----------------------------------------------------------------------------
LEMMA InitOkay == Init => TransferInv
  <1> SUFFICES ASSUME Init PROVE TransferInv
    OBVIOUS
  <1>1. e = NewEntry /\ sc = [c \in Clients |-> IF c = First THEN NewClient ELSE Out]
    BY DEF Init
  <1>2. sc \in [Clients -> StoreClients]
    BY <1>1, OutOkay, NewEntryOkay
  <1>3. \A c \in Clients : ClientOkay(NewEntry, sc[c])
    BY <1>1, OutOkay, NewEntryOkay
  <1> QED
    BY <1>1, <1>2, <1>3, NewEntryOkay DEF TransferInv, State, Okay

LEMMA StepOkay == TransferInv /\ [Next]_vars => TransferInv'
  <1> SUFFICES ASSUME TransferInv, [Next]_vars PROVE TransferInv'
    OBVIOUS
  <1>1. CASE UNCHANGED vars
    BY <1>1 DEF vars, TransferInv, State, Okay
  <1>2. CASE Next
    BY <1>2, RegisterStep, CopyStep, EventStep, UnregisterStep, OpenDoneStep, ReadBodyStep,
       ReadHeaderStep, DeferStep, CompleteStep, RequestFailedStep, AppendStep, CreateDoneStep,
       CreateEntryStep DEF Next
  <1> QED
    BY <1>1, <1>2

(* The state of the entry, its file and its memory, and the place of every   *)
(* client in them, are always as storeSwapOut, storeClientCopy3 and          *)
(* storeSwapOutMaintainMemObject leave them to one another: the inductive    *)
(* invariant the theorems below rest on.                                     *)
THEOREM TransferInvariant == Spec => []TransferInv
  <1>1. Init => TransferInv
    BY InitOkay
  <1>2. TransferInv /\ [Next]_vars => TransferInv'
    BY StepOkay
  <1> QED
    BY <1>1, <1>2, PTL DEF Spec

(* Every part of the state is of its type, memory ends after it begins, and  *)
(* no assertion of storeSwapOut, storeClientCopy3, storeClientFileRead,      *)
(* storeSwapInStart or storeSwapOutFileClosed ever fails, for objects, pages *)
(* and buffers of every size and any number of clients.                      *)
THEOREM NeverInconsistent == Spec => []TransferConsistent
  <1>1. TransferInv => TransferConsistent
    <2> SUFFICES ASSUME TransferInv PROVE TransferConsistent
      OBVIOUS
    <2>1. EntryOkay(e) /\ e \in Entries /\ sc \in [Clients -> StoreClients]
      BY TheState
    <2>2. e.lo \in Nat /\ e.hi \in Nat
      BY <2>1 DEF Entries
    <2>3. e.lo <= e.hi
      BY <2>1, <2>2 DEF EntryOkay, Offsets
    <2> QED
      BY <2>1, <2>3 DEF TransferConsistent, TypeOK, NoAssertFails, EntryOkay
  <1> QED
    BY <1>1, TransferInvariant, PTL

(* The next byte of a client that has begun to be served is in memory, is    *)
(* still to come, or is on its way to the file the client reads from, unless *)
(* the disk failed (storeSwapOutMaintainMemObject against storeClientCopy3). *)
THEOREM NoByteLost == Spec => []NextByteKept
  <1>1. TransferInv => NextByteKept
    <2> SUFFICES ASSUME TransferInv, NEW c \in Reading, sc[c].got > 0, ~sc[c].failed
                 PROVE  \/ sc[c].got >= e.lo
                        \/ sc[c].type = "disk" /\ sc[c].got < e.queue
      BY DEF NextByteKept
    <2> DEFINE y == sc[c]
    <2>1. c \in Clients /\ y.st \in {"ready", "waiting"}
      BY DEF Reading
    <2>2. EntryOkay(e) /\ e \in Entries /\ ClientOkay(e, y) /\ y \in StoreClients
      BY <2>1, TheState
    <2>3. Place(e, y)
      BY <2>1, <2>2 DEF ClientOkay
    <2> HIDE DEF y
    <2>4. /\ e.lo \in Nat /\ e.queue \in Nat /\ y.off \in Nat /\ y.got \in Nat
          /\ y.type \in {"mem", "disk"}
      BY <2>2 DEF Entries, StoreClients
    <2>5. y.got >= e.lo \/ (y.type = "disk" /\ y.got < e.queue)
      BY <2>3, <2>4 DEF Place
    <2> QED
      BY <2>5 DEF y
  <1> QED
    BY <1>1, TransferInvariant, PTL

(* A file that counts as swapped out, and is not to be released, holds the   *)
(* whole of a complete object (storeSwapOutFileClosed).                      *)
THEOREM SwappedOutWhole == Spec => []FileIsWhole
  <1>1. TransferInv => FileIsWhole
    <2> SUFFICES ASSUME TransferInv, e.swap = "DONE", ~e.release
                 PROVE  e.store = "OK" /\ (e.object_sz >= 0 => e.file = e.object_sz)
      BY DEF FileIsWhole
    <2>1. EntryOkay(e) /\ e \in Entries
      BY TheState
    <2>2. e.store = "OK" /\ e.queue = e.hi
      BY <2>1 DEF EntryOkay, InTheFile
    <2>3. CASE DiskOnly(e)
      BY <2>1, <2>2, <2>3 DEF EntryOkay, WholeObject
    <2>4. CASE ~DiskOnly(e)
      <3>1. e.hi > 0 /\ e.object_sz = e.hi /\ ~e.opening
        BY <2>1, <2>2, <2>4 DEF EntryOkay, WholeObject, Writing, DiskOnly, Entries
      <3> QED
        BY <3>1, <2>1, <2>2 DEF EntryOkay, InTheFile
    <2> QED
      BY <2>3, <2>4
  <1> QED
    BY <1>1, TransferInvariant, PTL

(* When files are not opened before their creation is reported, a client is  *)
(* told that there is no more only when it has the whole object, and one     *)
(* that was given something is cut off only by an error of the disk          *)
(* (storeClientCopy3, storeClientReadBody, storeClientReadHeader).           *)
THEOREM NeverCutShort == InOrder => (Spec => []EndIsWhole)
  <1> SUFFICES ASSUME InOrder PROVE Spec => []EndIsWhole
    OBVIOUS
  <1>1. TransferInv => EndIsWhole
    <2> SUFFICES ASSUME TransferInv, NEW c \in Clients
                 PROVE  /\ sc[c].st = "end" /\ ~sc[c].failed => sc[c].got = e.object_sz
                        /\ sc[c].st = "cut" /\ sc[c].got > 0 => sc[c].failed
      BY DEF EndIsWhole
    <2>1. ClientOkay(e, sc[c])
      BY TheState
    <2> QED
      BY <2>1 DEF ClientOkay, Ends
  <1> QED
    BY <1>1, TransferInvariant, PTL
=============================================================================
