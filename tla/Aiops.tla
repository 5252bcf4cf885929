------------------------------- MODULE Aiops -------------------------------
(* The I/O threads of the aufs store (fs/aufs/aiops.c): the main thread      *)
(* queues requests, the threads run them and queue them as done, the main    *)
(* thread collects them from its select loop.  The request queue's lock is   *)
(* only ever tried by the main thread: while a thread holds it, requests     *)
(* wait in request_queue2.  Threads announce work by one byte in a pipe,     *)
(* guarded by a flag that no lock protects.                                  *)
(*                                                                           *)
(* A lock is held by the thread whose status is "locked" (request_queue) or  *)
(* "appending" (done_queue); the main thread locks and unlocks in one step,  *)
(* and every unlocked read or write of shared data is a step of its own.     *)
EXTENDS Naturals, Sequences, Functions, FiniteSets

CONSTANTS
    Threads,            \* the squidaio_nthreads threads
    Requests,           \* the structures of squidaio_request_pool
    NoRequest,
    RIDICULOUS_LENGTH   \* the queue length above which queueing blocks

ASSUME LengthAssumption == RIDICULOUS_LENGTH \in Nat \ {0}
ASSUME ThreadsAssumption == /\ IsFiniteSet(Threads) /\ Threads # {}
                            /\ NoRequest \notin Requests

VARIABLES
    request_queue, request_queue2, done_queue, done_requests,
    request_queue_len,  \* requests queued and not yet in done_requests
    cancelled,          \* the live requests whose cancelled flag is set
    thread,             \* status and current_req of each thread
    done_signalled,     \* a thread announced, or is about to
    pipe,               \* done_fd_read is readable
    main,               \* where the main thread is
    back                \* where it goes on after a squidaio_sync

pool == <<request_queue, request_queue2, request_queue_len>>
aiovars == <<pool, done_queue, done_requests, cancelled, thread,
             done_signalled, pipe, main, back>>

Status == {"waiting", "locked", "asleep", "busy", "finished", "appending",
           "announcing", "marking", "writing"}

At(t, s) == thread[t].status = s
Move(t, s) == thread' = [thread EXCEPT ![t].status = s]

Locked == \E t \in Threads : At(t, "locked")
DoneLocked == \E t \in Threads : At(t, "appending")

\* Requests a thread has taken and not yet put in the done queue.
Taken == {thread[t].req : t \in Threads} \ {NoRequest}
Queued == Range(request_queue) \cup Range(request_queue2)
Live == Queued \cup Taken \cup Range(done_queue) \cup Range(done_requests)
\* The structures that are free once r has been answered.
FreedBy(r) == (Requests \ Live) \cup {r}
\* The pool hands out one of them.  They are alike, so which one is no matter.
FromPool(free) == CHOOSE r \in free : TRUE
\* Requests no thread has run yet.
NotRun == Queued \cup {thread[t].req : t \in {u \in Threads : At(u, "busy")}}

AioInit ==
    /\ request_queue = <<>> /\ request_queue2 = <<>>
    /\ done_queue = <<>> /\ done_requests = <<>>
    /\ request_queue_len = 0 /\ cancelled = {}
    /\ thread = [t \in Threads |-> [status |-> "waiting", req |-> NoRequest]]
    /\ done_signalled = FALSE /\ pipe = FALSE
    /\ main = "handlers" /\ back = "handlers"
-----------------------------------------------------------------------------
(* The threads: squidaio_thread_loop. *)

\* pthread_mutex_lock, at the top of the loop or on the way out of the wait
LockRequests(t) ==
    /\ At(t, "waiting") /\ ~Locked
    /\ Move(t, "locked")
    /\ UNCHANGED <<pool, done_queue, done_requests, cancelled,
                   done_signalled, pipe, main, back>>

TakeRequest(t) ==
    /\ At(t, "locked") /\ request_queue # <<>>
    /\ thread' = [thread EXCEPT ![t] =
                      [status |-> "busy", req |-> Head(request_queue)]]
    /\ request_queue' = Tail(request_queue)
    /\ UNCHANGED <<request_queue2, request_queue_len, done_queue, cancelled,
                   done_requests, done_signalled, pipe, main, back>>

\* pthread_cond_wait: until a request is queued and this thread is chosen
Sleep(t) ==
    /\ At(t, "locked") /\ request_queue = <<>>
    /\ Move(t, "asleep")
    /\ UNCHANGED <<pool, done_queue, done_requests, cancelled,
                   done_signalled, pipe, main, back>>

\* the system call, or EINTR for a cancelled request
RunRequest(t) ==
    /\ At(t, "busy")
    /\ Move(t, "finished")
    /\ UNCHANGED <<pool, done_queue, done_requests, cancelled,
                   done_signalled, pipe, main, back>>

LockDone(t) ==
    /\ At(t, "finished") /\ ~DoneLocked
    /\ thread' = [thread EXCEPT ![t] =
                      [status |-> "appending", req |-> NoRequest]]
    /\ done_queue' = Append(done_queue, thread[t].req)
    /\ UNCHANGED <<pool, done_requests, cancelled, done_signalled,
                   pipe, main, back>>

UnlockDone(t) ==
    /\ At(t, "appending")
    /\ Move(t, "announcing")
    /\ UNCHANGED <<pool, done_queue, done_requests, cancelled,
                   done_signalled, pipe, main, back>>

\* if (!done_signalled): read without a lock
TestSignalled(t) ==
    /\ At(t, "announcing")
    /\ Move(t, IF done_signalled THEN "waiting" ELSE "marking")
    /\ UNCHANGED <<pool, done_queue, done_requests, cancelled,
                   done_signalled, pipe, main, back>>

SetSignalled(t) ==
    /\ At(t, "marking")
    /\ Move(t, "writing")
    /\ done_signalled' = TRUE
    /\ UNCHANGED <<pool, done_queue, done_requests, cancelled, pipe,
                   main, back>>

WritePipe(t) ==
    /\ At(t, "writing")
    /\ Move(t, "waiting")
    /\ pipe' = TRUE
    /\ UNCHANGED <<pool, done_queue, done_requests, cancelled,
                   done_signalled, main, back>>

\* every step of a thread but the system call
ThreadStep(t) ==
    \/ LockRequests(t) \/ TakeRequest(t) \/ Sleep(t) \/ LockDone(t)
    \/ UnlockDone(t) \/ TestSignalled(t) \/ SetSignalled(t) \/ WritePipe(t)
-----------------------------------------------------------------------------
(* The main thread. *)

\* wakes one of the threads that wait, if any does
pthread_cond_signal ==
    LET sleeping == {t \in Threads : At(t, "asleep")} IN
    IF sleeping = {} THEN thread' = thread
                     ELSE \E t \in sleeping : Move(t, "waiting")

\* a mutant of the next definition: a free lock lets r pass the overflow
QueueRequestFirst(r, next) ==
    /\ request_queue_len' = request_queue_len + 1
    /\ IF Locked
       THEN /\ request_queue2' = Append(request_queue2, r)
            /\ UNCHANGED <<request_queue, thread>>
       ELSE /\ request_queue' = Append(request_queue, r) \o request_queue2
            /\ request_queue2' = <<>>
            /\ pthread_cond_signal
    /\ main' = IF request_queue_len' > RIDICULOUS_LENGTH THEN "sync" ELSE next
    /\ back' = IF request_queue_len' > RIDICULOUS_LENGTH THEN next ELSE back

\* Queue r and go on at next; a ridiculous queue is first drained.
squidaio_queue_request(r, next) ==
    /\ request_queue_len' = request_queue_len + 1
    /\ IF Locked
       THEN /\ request_queue2' = Append(request_queue2, r)
            /\ UNCHANGED <<request_queue, thread>>
       ELSE /\ request_queue' = request_queue \o Append(request_queue2, r)
            /\ request_queue2' = <<>>
            /\ pthread_cond_signal
    /\ main' = IF request_queue_len' > RIDICULOUS_LENGTH THEN "sync" ELSE next
    /\ back' = IF request_queue_len' > RIDICULOUS_LENGTH THEN next ELSE back

\* a mutant of the next definition: nobody is told of the moved requests
KickRequestsSilently ==
    IF request_queue2 # <<>> /\ ~Locked
    THEN /\ request_queue' = request_queue \o request_queue2
         /\ request_queue2' = <<>>
         /\ UNCHANGED thread
    ELSE UNCHANGED <<request_queue, request_queue2, thread>>

\* squidaio_poll_queues, first half: kick the overflow request queue
KickRequests ==
    IF request_queue2 # <<>> /\ ~Locked
    THEN /\ request_queue' = request_queue \o request_queue2
         /\ request_queue2' = <<>>
         /\ pthread_cond_signal
    ELSE UNCHANGED <<request_queue, request_queue2, thread>>

\* a mutant of the next definition: one batch counts as one request
PollDoneQueueOne ==
    IF done_queue # <<>> /\ ~DoneLocked
    THEN /\ done_requests' = done_requests \o done_queue
         /\ done_queue' = <<>>
         /\ request_queue_len' = request_queue_len - 1
    ELSE UNCHANGED <<done_requests, done_queue, request_queue_len>>

\* squidaio_poll_queues, second half: collect the done queue
PollDoneQueue ==
    IF done_queue # <<>> /\ ~DoneLocked
    THEN /\ done_requests' = done_requests \o done_queue
         /\ done_queue' = <<>>
         /\ request_queue_len' = request_queue_len - Len(done_queue)
    ELSE UNCHANGED <<done_requests, done_queue, request_queue_len>>

\* the loop of squidaio_sync
SyncKick ==
    /\ main = "sync" /\ main' = "syncing"
    /\ KickRequests
    /\ UNCHANGED <<request_queue_len, done_queue, done_requests, cancelled,
                   done_signalled, pipe, back>>

SyncPoll ==
    /\ main = "syncing"
    /\ PollDoneQueue
    /\ main' = IF request_queue_len' > 0 THEN "sync" ELSE back
    /\ back' = IF request_queue_len' > 0 THEN back ELSE "handlers"
    /\ UNCHANGED <<request_queue, request_queue2, cancelled, thread,
                   done_signalled, pipe>>

\* the select loop: some descriptor is ready, or the timeout has passed
Select ==
    /\ main = "select" /\ main' = "handlers"
    /\ UNCHANGED <<pool, done_queue, done_requests, cancelled, thread,
                   done_signalled, pipe, back>>

\* the read handler of done_fd_read
squidaio_fdhandler ==
    /\ main = "handlers" /\ pipe
    /\ pipe' = FALSE
    /\ UNCHANGED <<pool, done_queue, done_requests, cancelled, thread,
                   done_signalled, main, back>>

\* the handlers have run: storeDirCallback calls aioCheckCallbacks
CheckCallbacks ==
    /\ main = "handlers" /\ main' = "check"
    /\ UNCHANGED <<pool, done_queue, done_requests, cancelled, thread,
                   done_signalled, pipe, back>>

(* squidaio_poll_done.  At "check" the queues have not been polled by this   *)
(* call, at "polled" they have.                                              *)
ReadPipe ==
    /\ main = "check" /\ done_requests = <<>>
    /\ main' = IF done_signalled THEN "reset" ELSE "kick"
    /\ pipe' = (pipe /\ ~done_signalled)
    /\ UNCHANGED <<pool, done_queue, done_requests, cancelled, thread,
                   done_signalled, back>>

\* a mutant of the next definition: the flag stays set
KeepSignalled ==
    /\ main = "reset" /\ main' = "kick"
    /\ UNCHANGED <<pool, done_queue, done_requests, cancelled, thread,
                   done_signalled, pipe, back>>

ResetSignalled ==
    /\ main = "reset" /\ main' = "kick"
    /\ done_signalled' = FALSE
    /\ UNCHANGED <<pool, done_queue, done_requests, cancelled, thread,
                   pipe, back>>

PollKick ==
    /\ main = "kick" /\ main' = "collect"
    /\ KickRequests
    /\ UNCHANGED <<request_queue_len, done_queue, done_requests, cancelled,
                   done_signalled, pipe, back>>

PollCollect ==
    /\ main = "collect" /\ main' = "polled"
    /\ PollDoneQueue
    /\ UNCHANGED <<request_queue, request_queue2, cancelled, thread,
                   done_signalled, pipe, back>>

\* nothing is left: aioCheckCallbacks returns, and the loop selects again
NothingDone ==
    /\ main = "polled" /\ done_requests = <<>>
    /\ main' = "select"
    /\ UNCHANGED <<pool, done_queue, done_requests, cancelled, thread,
                   done_signalled, pipe, back>>

\* AIO_REPOLL: a cancelled request is cleaned up in silence
DropCancelled ==
    /\ main \in {"check", "polled"} /\ done_requests # <<>>
    /\ Head(done_requests) \in cancelled
    /\ done_requests' = Tail(done_requests)
    /\ cancelled' = cancelled \ {Head(done_requests)}
    /\ UNCHANGED <<pool, done_queue, thread, done_signalled, pipe, main, back>>

\* r is taken out of done_requests and returned to aioCheckCallbacks
TakeDone(r) ==
    /\ main \in {"check", "polled"} /\ done_requests # <<>>
    /\ r = Head(done_requests) /\ r \notin cancelled
    /\ done_requests' = Tail(done_requests)
    /\ UNCHANGED <<done_queue, done_signalled, pipe>>

MainStep ==
    \/ SyncKick \/ SyncPoll \/ Select \/ squidaio_fdhandler \/ CheckCallbacks
    \/ ReadPipe \/ ResetSignalled \/ PollKick \/ PollCollect \/ NothingDone
    \/ DropCancelled

squidaio_cancel(r) == cancelled' = cancelled \cup {r}
-----------------------------------------------------------------------------
(* The most general user: any request at any time from a handler, anything   *)
(* cancelled, and another request from the callback of an answered one.      *)
Submit(r) ==
    /\ main = "handlers" /\ r \notin Live /\ r = FromPool(Requests \ Live)
    /\ squidaio_queue_request(r, "handlers")
    /\ UNCHANGED <<done_queue, done_requests, cancelled, done_signalled, pipe>>

Cancel(r) ==
    /\ main = "handlers" /\ r \in Live \ cancelled
    /\ squidaio_cancel(r)
    /\ UNCHANGED <<pool, done_queue, done_requests, thread, done_signalled,
                   pipe, main, back>>

Answer(r) ==
    /\ TakeDone(r)
    /\ cancelled' = cancelled
    /\ \/ main' = "check" /\ UNCHANGED <<pool, thread, back>>
       \/ squidaio_queue_request(FromPool(FreedBy(r)), "check")

Init == AioInit

Next == \/ MainStep
        \/ \E t \in Threads : ThreadStep(t) \/ RunRequest(t)
        \/ \E r \in Requests : Submit(r) \/ Cancel(r) \/ Answer(r)

(* The main loop runs, its select times out, threads run, system calls       *)
(* return, and a thread that keeps asking for the done queue's lock gets it. *)
(* Nobody has to submit or to cancel anything.                               *)
AioFairness ==
    /\ WF_aiovars(MainStep)
    /\ WF_aiovars(\E r \in Requests : Answer(r))
    /\ \A t \in Threads : /\ WF_aiovars(ThreadStep(t) \/ RunRequest(t))
                          /\ SF_aiovars(LockDone(t))

Spec == Init /\ [][Next]_aiovars
FairSpec == Spec /\ AioFairness
-----------------------------------------------------------------------------
TypeOK ==
    /\ \A q \in {request_queue, request_queue2, done_queue, done_requests} :
           q \in Seq(Requests)
    /\ request_queue_len \in Nat /\ cancelled \subseteq Requests
    /\ thread \in [Threads -> [status : Status,
                               req : Requests \cup {NoRequest}]]
    /\ done_signalled \in BOOLEAN /\ pipe \in BOOLEAN
    /\ main \in {"select", "handlers", "check", "reset", "kick", "collect",
                 "polled", "sync", "syncing"}
    /\ back \in {"handlers", "check"}

(* request_queue_len, kept without a lock by the main thread alone, is the   *)
(* number of requests waiting, running or done and not yet collected; the    *)
(* store refuses work and squidaio_sync ends by this count.                  *)
LenExact ==
    request_queue_len = Len(request_queue) + Len(request_queue2)
                        + Cardinality(Taken) + Len(done_queue)

(* The two plain queues that the queues, threads and locks stand for.        *)
Abstract == INSTANCE AsyncIo WITH
                asked <- request_queue \o request_queue2,
                running <- Taken,
                done <- done_requests \o done_queue,
                cancelled <- cancelled

(* The count agrees with the queues the threads and the main thread share,   *)
(* and a request structure is in one queue or in one thread's hands, once;   *)
(* only such a one is marked as cancelled.                                   *)
QueuesConsistent == TypeOK /\ LenExact /\ Abstract!OnePlace

(* A finished request never waits for the select timeout: whenever the main  *)
(* thread sleeps in select beside a done queue that is not empty, the pipe   *)
(* is readable or some thread has yet to write it, although the flag that    *)
(* suppresses the write is set and reset without a lock and the pipe is also *)
(* drained by a handler that does not reset it.                              *)
WakeUpComing ==
    main = "select" /\ done_queue # <<>> =>
        \/ pipe
        \/ \E t \in Threads : At(t, "marking") \/ At(t, "writing")
        \/ ~done_signalled
             /\ \E t \in Threads : At(t, "appending") \/ At(t, "announcing")

(* No request sleeps beside sleeping threads: when every thread waits on the *)
(* condition, nothing is in the locked queue (one signal is sent for a whole *)
(* batch of requests moved from request_queue2).                             *)
SomeoneAwake ==
    (\A t \in Threads : At(t, "asleep")) => request_queue = <<>>

(* The queues, the lock that is only tried and the pipe implement the two    *)
(* plain queues of AsyncIo: requests start in the order they were asked even *)
(* when some of them overflow into request_queue2, none is lost, run or      *)
(* answered twice, and every one is answered in the end.                     *)
ImplementsAsyncIo == Abstract!Spec
=============================================================================
