-------------------------------- MODULE Aufs --------------------------------
(* The files of the aufs store on top of its threads: async_io.c (a control  *)
(* block per request, cancelled by descriptor) and store_io_aufs.c (opening, *)
(* reading, writing and closing one object), in the build's configuration:   *)
(* opens and reads are given to the threads, writes and closes are made by   *)
(* the main thread.  The users (swap-in, swap-out) are seen through their    *)
(* calls: a reader has one read outstanding, a writer writes and closes.     *)
(* The kernel hands a descriptor out again as soon as it has been closed.    *)
EXTENDS Aiops

CONSTANTS
    Sios,               \* the storeIOState structures
    Fds,                \* the descriptors the kernel hands out
    NoFd,
    NoSio,
    MaxWrites,          \* bound on the writes queued before a file is open
    MAGIC2              \* the store refuses to open beyond this many requests

ASSUME AufsAssumption ==
    /\ MaxWrites \in Nat /\ MAGIC2 \in Nat /\ IsFiniteSet(Sios)
    /\ NoFd \notin Fds /\ NoSio \notin Sios /\ Sios \cap Requests = {}

VARIABLES
    req,                \* op, sio, fd and ret of each request
    used,               \* the requests that have a control block (used_list)
    sio,                \* the storeIOState and squidaiostate_t of each object
    fds,                \* the descriptors open in the kernel
    Opening_FD,
    store_open_disk_fd

filevars == <<req, used, sio, fds, Opening_FD, store_open_disk_fd>>
aufsvars == <<aiovars, filevars>>

NoReq == [op |-> "none", sio |-> NoSio, fd |-> NoFd, ret |-> NoFd]
FreeSio == [state |-> "free", mode |-> "R", fd |-> NoFd, opening |-> FALSE,
            reading |-> FALSE, close_request |-> FALSE,
            pending_reads |-> 0, pending_writes |-> 0, user |-> "none"]

AufsInit ==
    /\ AioInit
    /\ req = [r \in Requests |-> NoReq] /\ used = {}
    /\ sio = [s \in Sios |-> FreeSio]
    /\ fds = {} /\ Opening_FD = 0 /\ store_open_disk_fd = 0

SioLive(s) == sio[s].state = "live"
-----------------------------------------------------------------------------
(* async_io.c *)

\* A request and its control block are made and queued by a handler, or by
\* the callback of the answered request r, which has just been freed.
Queue(q, op, s, fd, next, freed) ==
    /\ squidaio_queue_request(q, next)
    /\ req' = [freed EXCEPT ![q] = [op |-> op, sio |-> s, fd |-> fd,
                                    ret |-> NoFd]]
Ask(q, op, s, fd) == Queue(q, op, s, fd, "handlers", req)
AskFrom(r, q, op, s, fd) ==
    Queue(q, op, s, fd, "check", [req EXCEPT ![r] = NoReq])

\* the requests aioCancel(fd) finds: opens and unlinks have no descriptor yet
CancelledBy(fd) == {r \in used : req[r].fd = fd /\ req[r].op \in {"read", "close"}}

\* no request is queued by this step
NoAsk == UNCHANGED <<pool, thread, main, back, req>>
NoAskFrom(r) == /\ main' = "check" /\ req' = [req EXCEPT ![r] = NoReq]
                /\ UNCHANGED <<pool, thread, back>>
NoDone == UNCHANGED <<done_queue, done_requests, done_signalled, pipe>>
-----------------------------------------------------------------------------
(* store_io_aufs.c *)

\* a mutant of the next definition: a read in flight is not waited for
NeedCompletionNoRead(s) ==
    sio[s].opening /\ sio[s].mode = "W"

storeAufsNeedCompletion(s) ==
    \/ sio[s].opening /\ sio[s].mode = "W"
    \/ sio[s].reading

\* a mutant of the next definition: the lock of the open is not taken
FreedAtOnce(s, locked) == FreeSio

\* The state is freed by cbdataFree: at once, or, while an unanswered open
\* holds a lock on it, when that is answered.
Freed(s, locked) ==
    IF locked THEN [FreeSio EXCEPT !.state = "zombie"] ELSE FreeSio

\* storeAufsIOCallback: the user is told, the state freed, the file closed.
\* opened: the files open before it; fd, opening: the state's own
storeAufsIOCallback(s, fd, opening, opened, locked) ==
    /\ sio' = [sio EXCEPT ![s] = Freed(s, locked)]
    /\ Opening_FD' = Opening_FD - (IF opening THEN 1 ELSE 0)
    /\ IF fd = NoFd
       THEN UNCHANGED <<cancelled, used, fds>> /\ store_open_disk_fd' = opened
       ELSE /\ cancelled' = cancelled \cup CancelledBy(fd)
            /\ used' = used \ CancelledBy(fd)
            /\ fds' = fds \ {fd}
            /\ store_open_disk_fd' = opened - 1

\* storeAufsOpen and storeAufsCreate
OpenFile(s, mode, r) ==
    /\ main = "handlers" /\ sio[s].state = "free" /\ r \notin Live
    /\ Cardinality(used) <= MAGIC2
    /\ sio' = [sio EXCEPT ![s] = [FreeSio EXCEPT !.state = "live",
                   !.mode = mode, !.opening = TRUE, !.user = "idle"]]
    /\ Opening_FD' = Opening_FD + 1
    /\ Ask(r, "open", s, NoFd) /\ used' = used \cup {r}
    /\ NoDone /\ UNCHANGED <<cancelled, fds, store_open_disk_fd>>

storeAufsOpen(s, r) == OpenFile(s, "R", r)
storeAufsCreate(s, r) == OpenFile(s, "W", r)

\* a read asked for while the file is being opened waits for it
QueueRead(s) ==
    /\ main = "handlers" /\ SioLive(s)
    /\ sio[s].mode = "R" /\ sio[s].user = "idle" /\ sio[s].fd = NoFd
    /\ sio' = [sio EXCEPT ![s].pending_reads = @ + 1, ![s].user = "reading"]
    /\ NoAsk /\ NoDone
    /\ UNCHANGED <<cancelled, used, fds, Opening_FD, store_open_disk_fd>>

storeAufsRead(s, r) ==
    /\ main = "handlers" /\ SioLive(s)
    /\ sio[s].mode = "R" /\ sio[s].user = "idle" /\ sio[s].fd # NoFd
    /\ r \notin Live
    /\ sio' = [sio EXCEPT ![s].reading = TRUE, ![s].user = "reading"]
    /\ Ask(r, "read", s, sio[s].fd) /\ used' = used \cup {r}
    /\ NoDone
    /\ UNCHANGED <<cancelled, fds, Opening_FD, store_open_disk_fd>>

\* a write asked for while the file is being opened waits for it
QueueWrite(s) ==
    /\ main = "handlers" /\ SioLive(s) /\ sio[s].mode = "W"
    /\ ~sio[s].close_request /\ sio[s].fd = NoFd
    /\ sio[s].pending_writes < MaxWrites
    /\ sio' = [sio EXCEPT ![s].pending_writes = @ + 1]
    /\ NoAsk /\ NoDone
    /\ UNCHANGED <<cancelled, used, fds, Opening_FD, store_open_disk_fd>>

\* file_write calls storeAufsWriteDone at once; a write that succeeds changes
\* nothing here, one that fails ends the object
storeAufsWriteFails(s) ==
    /\ main = "handlers" /\ SioLive(s) /\ sio[s].mode = "W"
    /\ sio[s].fd # NoFd
    /\ storeAufsIOCallback(s, sio[s].fd, FALSE, store_open_disk_fd, FALSE)
    /\ NoAsk /\ NoDone

storeAufsClose(s) ==
    /\ main = "handlers" /\ SioLive(s) /\ ~sio[s].close_request
    /\ NoAsk /\ NoDone
    /\ IF storeAufsNeedCompletion(s)
       THEN /\ sio' = [sio EXCEPT ![s].close_request = TRUE, ![s].user = "gone"]
            /\ UNCHANGED <<cancelled, used, fds, Opening_FD, store_open_disk_fd>>
       ELSE storeAufsIOCallback(s, sio[s].fd, sio[s].opening,
                                store_open_disk_fd, sio[s].opening)

\* storeAufsDirUnlinkFile: aioUnlink without a callback
storeAufsUnlink(r) ==
    /\ main = "handlers" /\ r \notin Live
    /\ Ask(r, "unlink", NoSio, NoFd) /\ used' = used \cup {r}
    /\ NoDone
    /\ UNCHANGED <<cancelled, sio, fds, Opening_FD, store_open_disk_fd>>
-----------------------------------------------------------------------------
(* The answers: aioCheckCallbacks and the callbacks it calls. *)

AnswerTo(r, op, state) ==
    /\ TakeDone(r) /\ r \in used /\ req[r].op = op
    /\ op \in {"open", "read"} => sio[req[r].sio].state = state

\* storeAufsOpenDone with an error
OpenFailed(r) ==
    /\ AnswerTo(r, "open", "live") /\ req[r].ret = NoFd
    /\ sio' = [sio EXCEPT ![req[r].sio] = FreeSio]
    /\ Opening_FD' = Opening_FD - 1
    /\ used' = used \ {r}
    /\ NoAskFrom(r) /\ UNCHANGED <<cancelled, fds, store_open_disk_fd>>

\* a mutant of the next definition: a read that waited is dropped
OpenedToReadOnly(r) ==
    LET s == req[r].sio fd == req[r].ret IN
    /\ AnswerTo(r, "open", "live") /\ fd # NoFd /\ sio[s].mode = "R"
    /\ Opening_FD' = Opening_FD - 1
    /\ store_open_disk_fd' = store_open_disk_fd + 1
    /\ sio' = [sio EXCEPT ![s].opening = FALSE, ![s].fd = fd,
                   ![s].pending_reads = 0]
    /\ used' = used \ {r}
    /\ NoAskFrom(r)
    /\ UNCHANGED <<cancelled, fds>>

\* storeAufsOpenDone, a reader: a read that waited is asked for now
OpenedToRead(r) ==
    LET s == req[r].sio fd == req[r].ret IN
    /\ AnswerTo(r, "open", "live") /\ fd # NoFd /\ sio[s].mode = "R"
    /\ Opening_FD' = Opening_FD - 1
    /\ store_open_disk_fd' = store_open_disk_fd + 1
    /\ \/ /\ sio[s].pending_reads = 0
          /\ sio' = [sio EXCEPT ![s].opening = FALSE, ![s].fd = fd]
          /\ used' = used \ {r}
          /\ NoAskFrom(r)
       \/ \E q \in FreedBy(r) :
          /\ sio[s].pending_reads > 0
          /\ sio' = [sio EXCEPT ![s].opening = FALSE, ![s].fd = fd,
                         ![s].pending_reads = @ - 1, ![s].reading = TRUE]
          /\ AskFrom(r, q, "read", s, fd)
          /\ used' = (used \ {r}) \cup {q}
    /\ UNCHANGED <<cancelled, fds>>

\* storeAufsOpenDone, a writer: the writes that waited are made, until one
\* fails; then the close that waited
OpenedToWrite(r) ==
    LET s == req[r].sio fd == req[r].ret IN
    /\ AnswerTo(r, "open", "live") /\ fd # NoFd /\ sio[s].mode = "W"
    /\ NoAskFrom(r)
    /\ \/ /\ sio[s].pending_writes > 0 \/ sio[s].close_request
          /\ sio' = [sio EXCEPT ![s] = FreeSio]
          /\ cancelled' = cancelled \cup CancelledBy(fd)
          /\ used' = used \ (CancelledBy(fd) \cup {r})
          /\ fds' = fds \ {fd}
          /\ store_open_disk_fd' = store_open_disk_fd
       \/ /\ ~sio[s].close_request
          /\ sio' = [sio EXCEPT ![s].opening = FALSE, ![s].fd = fd,
                         ![s].pending_writes = 0]
          /\ used' = used \ {r}
          /\ store_open_disk_fd' = store_open_disk_fd + 1
          /\ UNCHANGED <<cancelled, fds>>
    /\ Opening_FD' = Opening_FD - 1

\* a mutant of the next definition: nobody closes the file
OpenAbortedKept(r) ==
    /\ AnswerTo(r, "open", "zombie")
    /\ sio' = [sio EXCEPT ![req[r].sio] = FreeSio]
    /\ used' = used \ {r}
    /\ NoAskFrom(r) /\ cancelled' = cancelled
    /\ UNCHANGED <<fds, Opening_FD, store_open_disk_fd>>

\* the reader closed while its file was being opened: aioClose(fd)
OpenAborted(r) ==
    LET fd == req[r].ret IN
    /\ AnswerTo(r, "open", "zombie")
    /\ sio' = [sio EXCEPT ![req[r].sio] = FreeSio]
    /\ \/ /\ fd = NoFd
          /\ used' = used \ {r}
          /\ NoAskFrom(r) /\ cancelled' = cancelled
       \/ \E q \in FreedBy(r) :
          /\ fd # NoFd
          /\ cancelled' = cancelled \cup CancelledBy(fd)
          /\ AskFrom(r, q, "close", NoSio, fd)
          /\ used' = (used \ (CancelledBy(fd) \cup {r})) \cup {q}
    /\ UNCHANGED <<fds, Opening_FD, store_open_disk_fd>>

\* storeAufsReadDone: the user's callback stays, reads on, or closes; a close
\* asked for before or in the callback is made now
ReadDone(r) ==
    LET s == req[r].sio IN
    /\ AnswerTo(r, "read", "live")
    /\ \/ /\ ~sio[s].close_request
          /\ sio' = [sio EXCEPT ![s].reading = FALSE, ![s].user = "idle"]
          /\ used' = used \ {r} /\ NoAskFrom(r)
          /\ UNCHANGED <<cancelled, fds, Opening_FD, store_open_disk_fd>>
       \/ \E q \in FreedBy(r) :
          /\ ~sio[s].close_request
          /\ sio' = sio
          /\ AskFrom(r, q, "read", s, sio[s].fd)
          /\ used' = (used \ {r}) \cup {q}
          /\ UNCHANGED <<cancelled, fds, Opening_FD, store_open_disk_fd>>
       \/ /\ sio' = [sio EXCEPT ![s] = FreeSio]
          /\ LET c == CancelledBy(sio[s].fd) \ {r} IN
             cancelled' = cancelled \cup c /\ used' = used \ (c \cup {r})
          /\ fds' = fds \ {sio[s].fd}
          /\ store_open_disk_fd' = store_open_disk_fd - 1
          /\ NoAskFrom(r) /\ UNCHANGED Opening_FD

\* closes and unlinks have no callback
DoneSilently(r) ==
    /\ AnswerTo(r, "close", "") \/ AnswerTo(r, "unlink", "")
    /\ used' = used \ {r} /\ NoAskFrom(r)
    /\ UNCHANGED <<cancelled, sio, fds, Opening_FD, store_open_disk_fd>>
-----------------------------------------------------------------------------
(* The threads' system calls, and the clean-up of a cancelled request. *)

squidaio_do_open(t, r) ==
    /\ req[r].op = "open" /\ r \notin cancelled
    /\ \/ \E fd \in Fds \ fds : /\ req' = [req EXCEPT ![r].ret = fd]
                                /\ fds' = fds \cup {fd}
       \/ UNCHANGED <<req, fds>>
    /\ RunRequest(t)

squidaio_do_close(t, r) ==
    /\ req[r].op = "close" /\ r \notin cancelled
    /\ req' = [req EXCEPT ![r].ret = req[r].fd] /\ fds' = fds \ {req[r].fd}
    /\ RunRequest(t)

\* reads, unlinks and cancelled requests leave the descriptors alone
RunOther(t, r) ==
    /\ req[r].op \in {"read", "unlink"} \/ r \in cancelled
    /\ RunRequest(t)
    /\ UNCHANGED <<req, fds>>

Run(t) ==
    /\ At(t, "busy")
    /\ LET r == thread[t].req IN
           squidaio_do_open(t, r) \/ squidaio_do_close(t, r) \/ RunOther(t, r)
    /\ UNCHANGED <<used, sio, Opening_FD, store_open_disk_fd>>

\* a close that was cancelled and never executed is made now
squidaio_cleanup_request ==
    /\ DropCancelled
    /\ LET r == Head(done_requests) IN
       /\ fds' = IF req[r].op = "close" /\ req[r].ret = NoFd
                 THEN fds \ {req[r].fd} ELSE fds
       /\ req' = [req EXCEPT ![r] = NoReq]
    /\ UNCHANGED <<used, sio, Opening_FD, store_open_disk_fd>>

MainOther == MainStep /\ ~DropCancelled /\ UNCHANGED filevars

AufsNext ==
    \/ MainOther \/ squidaio_cleanup_request
    \/ \E t \in Threads : Run(t) \/ (ThreadStep(t) /\ UNCHANGED filevars)
    \/ \E s \in Sios : \/ QueueRead(s) \/ QueueWrite(s)
                       \/ storeAufsWriteFails(s) \/ storeAufsClose(s)
    \/ \E s \in Sios, r \in Requests :
           storeAufsOpen(s, r) \/ storeAufsCreate(s, r) \/ storeAufsRead(s, r)
    \/ \E r \in Requests :
           \/ storeAufsUnlink(r) \/ OpenFailed(r) \/ OpenedToRead(r)
           \/ OpenedToWrite(r) \/ OpenAborted(r) \/ ReadDone(r)
           \/ DoneSilently(r)

AufsSpec == AufsInit /\ [][AufsNext]_aufsvars
-----------------------------------------------------------------------------
RequestType == [op : {"none", "open", "read", "close", "unlink"},
                sio : Sios \cup {NoSio}, fd : Fds \cup {NoFd},
                ret : Fds \cup {NoFd}]
SioType == [state : {"free", "live", "zombie"}, mode : {"R", "W"},
            fd : Fds \cup {NoFd}, opening : BOOLEAN, reading : BOOLEAN,
            close_request : BOOLEAN, pending_reads : 0..1,
            pending_writes : 0..MaxWrites,
            user : {"none", "idle", "reading", "gone"}]

AufsTypeOK ==
    /\ req \in [Requests -> RequestType] /\ used \subseteq Requests
    /\ sio \in [Sios -> SioType] /\ fds \subseteq Fds
    /\ Opening_FD \in Nat /\ store_open_disk_fd \in Nat

(* Every descriptor that is open in the kernel is in exactly one hand, and   *)
(* every hand holds an open one: an object's state, a finished open that     *)
(* nobody has collected, or a close that no thread has made.  So nothing is  *)
(* read through or closed twice, and no descriptor leaks, although readers   *)
(* leave while their file is being opened and the kernel hands the same      *)
(* number out to another open before the close of it has been collected.     *)
Hands(fd) ==
    {s \in Sios : sio[s].fd = fd}
    \cup {r \in Live : req[r].op = "open" /\ req[r].ret = fd}
    \cup {r \in NotRun : req[r].op = "close" /\ req[r].fd = fd}
DescriptorsHeldOnce ==
    \A fd \in Fds : Cardinality(Hands(fd)) = IF fd \in fds THEN 1 ELSE 0

(* aioCancel(), which frees a control block and its read buffer under the    *)
(* threads ("Danger ahead!"), only ever finds closes that have been made:    *)
(* never a read or an open, and never a request a thread has yet to run.     *)
CancelHarmless ==
    \A r \in cancelled : req[r].op = "close" /\ r \notin NotRun

(* A read in flight belongs to a live object that still has the descriptor   *)
(* the read was given, and the answer of an open or of a read finds its      *)
(* state not yet reused.                                                     *)
ReadsOwnFile ==
    \A r \in used : LET s == req[r].sio IN
        /\ req[r].op = "read" =>
               SioLive(s) /\ sio[s].fd = req[r].fd /\ sio[s].reading
        /\ req[r].op = "open" => sio[s].state # "free"

(* A user that waits for a read is never forgotten: its read is queued       *)
(* behind the open or in the threads' hands; and the asserts of              *)
(* storeAufsRead() and storeAufsWrite() hold: without a descriptor the file  *)
(* is being opened, and one read is asked for at a time.                     *)
ReaderServed ==
    \A s \in Sios :
        /\ sio[s].user = "reading" =>
               \/ sio[s].opening /\ sio[s].pending_reads = 1
               \/ \E r \in used : req[r].op = "read" /\ req[r].sio = s
        /\ SioLive(s) => (sio[s].fd = NoFd <=> sio[s].opening)
        /\ Cardinality({r \in used : req[r].sio = s}) <= 1

(* Opening_FD and store_open_disk_fd, by which squid decides how many more   *)
(* descriptors it may use, count the objects being opened and open, on every *)
(* path: failed opens, readers gone while opening, write errors.             *)
CountersExact ==
    /\ Opening_FD = Cardinality({s \in Sios : sio[s].opening})
    /\ store_open_disk_fd = Cardinality({s \in Sios : sio[s].fd # NoFd})

(* Descriptors are held once and counted exactly.                            *)
DescriptorsExact == AufsTypeOK /\ DescriptorsHeldOnce /\ CountersExact
=============================================================================
