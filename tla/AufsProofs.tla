----------------------------- MODULE AufsProofs -----------------------------
(* Proofs about the I/O threads and the files of the aufs store, for any     *)
(* number of threads, requests, objects and descriptors.  The threads: the   *)
(* queues keep every request once, the count is exact, no wake-up is lost    *)
(* although the flag that stands for one is read and written without a lock, *)
(* and the pool implements AsyncIo.  The files: every open descriptor is in  *)
(* one hand and is counted, aioCancel finds only closes that have been made, *)
(* a read goes to the object it was asked for, and no reader is forgotten.   *)
EXTENDS Aufs, QueueLemmas, FiniteSetTheorems, TLAPS

(* A thread has a request while it runs it or waits to hand it over, and no  *)
(* two threads have the same one.                                            *)
HeldOnce ==
    /\ \A t \in Threads : thread[t].req # NoRequest <=> At(t, "busy") \/ At(t, "finished")
    /\ \A t, u \in Threads :
           thread[t].req = thread[u].req /\ thread[t].req # NoRequest => t = u

(* The byte that the flag stands for is in the pipe, or a thread is about to *)
(* write one.                                                                *)
ByteComing == pipe \/ \E t \in Threads : At(t, "marking") \/ At(t, "writing")

(* Once the main thread has looked at the flag and until it runs handlers,   *)
(* a set flag has its byte.                                                  *)
FlagHasByte ==
    main \in {"kick", "collect", "polled", "select"} /\ done_signalled => ByteComing

(* Finished requests have their byte, or the thread that finished the last   *)
(* one has yet to look at the flag.                                          *)
Announced ==
    \/ ByteComing
    \/ ~done_signalled
         /\ \E t \in Threads : At(t, "appending") \/ At(t, "announcing")

(* Once the main thread has polled, what it has not seen is announced.       *)
SeenOrAnnounced ==
    main \in {"polled", "select"} /\ done_queue # <<>> => Announced

(* The part of the inductive invariant that no abstract step speaks of.      *)
ThreadsInv == /\ TypeOK /\ HeldOnce /\ LenExact
              /\ FlagHasByte /\ SeenOrAnnounced /\ SomeoneAwake

AiopsInv == ThreadsInv /\ Abstract!OnePlace

AbstractStep == [Abstract!Next]_(Abstract!vars)
-----------------------------------------------------------------------------
(* The requests as AsyncIo sees them. *)

asked == request_queue \o request_queue2
done == done_requests \o done_queue

(* What AsyncIo's steps do to the places of requests.                        *)
LEMMA OnePlaceStep ==
  Abstract!OnePlace /\ [Abstract!Next]_(Abstract!vars) => Abstract!OnePlace'
  <1> SUFFICES ASSUME Abstract!OnePlace, [Abstract!Next]_(Abstract!vars)
               PROVE  Abstract!OnePlace'
    OBVIOUS
  <1>a. /\ asked \in Seq(Requests) /\ Taken \subseteq Requests
        /\ done \in Seq(Requests)
        /\ cancelled \subseteq Range(asked) \cup Taken \cup Range(done)
        /\ IsInjective(asked) /\ IsInjective(done)
        /\ Range(asked) \cap Taken = {} /\ Range(asked) \cap Range(done) = {}
        /\ Taken \cap Range(done) = {}
    BY DEF asked, done, Abstract!OnePlace, Abstract!Live, Abstract!Range, Range,
           Abstract!IsInjective, IsInjective
  <1> DEFINE Goal == /\ asked' \in Seq(Requests) /\ Taken' \subseteq Requests
                     /\ done' \in Seq(Requests)
                     /\ cancelled' \subseteq Range(asked') \cup Taken' \cup Range(done')
                     /\ IsInjective(asked') /\ IsInjective(done')
                     /\ Range(asked') \cap Taken' = {}
                     /\ Range(asked') \cap Range(done') = {}
                     /\ Taken' \cap Range(done') = {}
  <1>b. SUFFICES Goal
    BY DEF asked, done, Abstract!OnePlace, Abstract!Live, Abstract!Range, Range,
           Abstract!IsInjective, IsInjective
  <1>1. CASE Abstract!Start
    <2>1. /\ asked # <<>> /\ Taken' = Taken \cup {Head(asked)}
          /\ asked' = Tail(asked) /\ done' = done /\ cancelled' = cancelled
      BY <1>1 DEF Abstract!Start, asked, done
    <2>2. /\ Head(asked) \in Requests /\ Tail(asked) \in Seq(Requests)
          /\ Range(asked) = {Head(asked)} \cup Range(Tail(asked))
          /\ IsInjective(Tail(asked)) /\ Head(asked) \notin Range(Tail(asked))
      BY <1>a, <2>1, RangeOfTail, TailOnce
    <2>. QED
      BY <1>a, <2>1, <2>2
  <1>2. CASE Abstract!Answer
    <2>1. /\ done # <<>> /\ done' = Tail(done) /\ Taken' = Taken
          /\ cancelled' = cancelled \ {Head(done)}
      BY <1>2 DEF Abstract!Answer, done
    <2>2. /\ Head(done) \in Requests /\ Tail(done) \in Seq(Requests)
          /\ Range(done) = {Head(done)} \cup Range(Tail(done))
          /\ IsInjective(Tail(done)) /\ Head(done) \notin Range(Tail(done))
      BY <1>a, <2>1, RangeOfTail, TailOnce
    <2>3. CASE asked' = asked
      BY <1>a, <2>1, <2>2, <2>3
    <2>4. ASSUME NEW r \in (Requests \ (Range(asked) \cup Taken \cup Range(done)))
                             \cup {Head(done)},
                 asked' = Append(asked, r)
          PROVE  Goal
      <3>1. r \in Requests /\ r \notin Range(asked) /\ r \notin Taken
            /\ r \notin Range(Tail(done))
        BY <1>a, <2>2
      <3>2. /\ asked' \in Seq(Requests) /\ IsInjective(asked')
            /\ Range(asked') = Range(asked) \cup {r}
        BY <1>a, <2>4, <3>1, AppendProperties, AppendOnce, RangeOfAppend
      <3>. QED
        BY <1>a, <2>1, <2>2, <3>1, <3>2
    <2>. QED
      BY <1>2, <2>3, <2>4
      DEF Abstract!Answer, asked, done, Abstract!Live, Abstract!Range, Range
  <1>3. ASSUME NEW r \in Requests, Abstract!Submit(r) PROVE Goal
    <2>1. /\ r \notin Range(asked) \cup Taken \cup Range(done)
          /\ asked' = Append(asked, r) /\ Taken' = Taken /\ done' = done
          /\ cancelled' = cancelled
      BY <1>3 DEF Abstract!Submit, asked, done, Abstract!Live, Abstract!Range, Range
    <2>2. /\ asked' \in Seq(Requests) /\ IsInjective(asked')
          /\ Range(asked') = Range(asked) \cup {r}
      BY <1>a, <2>1, AppendProperties, AppendOnce, RangeOfAppend
    <2>. QED
      BY <1>a, <2>1, <2>2
  <1>4. ASSUME NEW r \in Requests, Abstract!Finish(r) PROVE Goal
    <2>1. /\ r \in Taken /\ Taken' = Taken \ {r} /\ done' = Append(done, r)
          /\ asked' = asked /\ cancelled' = cancelled
      BY <1>4 DEF Abstract!Finish, asked, done
    <2>2. /\ done' \in Seq(Requests) /\ IsInjective(done')
          /\ Range(done') = Range(done) \cup {r}
      BY <1>a, <2>1, AppendProperties, AppendOnce, RangeOfAppend
    <2>. QED
      BY <1>a, <2>1, <2>2
  <1>5. ASSUME NEW r \in Requests, Abstract!Cancel(r) PROVE Goal
    <2>1. /\ r \in Range(asked) \cup Taken \cup Range(done)
          /\ cancelled' = cancelled \cup {r}
          /\ asked' = asked /\ Taken' = Taken /\ done' = done
      BY <1>5 DEF Abstract!Cancel, asked, done, Abstract!Live, Abstract!Range, Range
    <2>. QED
      BY <1>a, <2>1
  <1>6. CASE UNCHANGED Abstract!vars
    <2>1. asked' = asked /\ Taken' = Taken /\ done' = done /\ cancelled' = cancelled
      BY <1>6 DEF Abstract!vars, asked, done
    <2>. QED
      BY <1>a, <2>1
  <1>. QED
    BY <1>1, <1>2, <1>3, <1>4, <1>5, <1>6 DEF Abstract!Next
-----------------------------------------------------------------------------
(* What the threads have, step by step. *)

(* The record that describes one thread.                                     *)
ThreadType == [status : Status, req : Requests \cup {NoRequest}]

(* A step of which the threads notice at most a signal.                      *)
OnlyWoken ==
    /\ thread' \in [Threads -> ThreadType]
    /\ \A t \in Threads :
           /\ thread'[t].req = thread[t].req
           /\ \/ thread'[t].status = thread[t].status
              \/ thread[t].status = "asleep" /\ thread'[t].status = "waiting"

(* The queues and the threads have their types.                              *)
LEMMA Typed ==
  TypeOK => /\ request_queue \in Seq(Requests) /\ request_queue2 \in Seq(Requests)
            /\ done_queue \in Seq(Requests) /\ done_requests \in Seq(Requests)
            /\ asked \in Seq(Requests) /\ done \in Seq(Requests)
            /\ thread \in [Threads -> ThreadType]
            /\ \A t \in Threads : /\ thread[t].status \in Status
                                  /\ thread[t].req \in Requests \cup {NoRequest}
  <1> SUFFICES ASSUME TypeOK PROVE Typed!2
    OBVIOUS
  <1>1. /\ request_queue \in Seq(Requests) /\ request_queue2 \in Seq(Requests)
        /\ done_queue \in Seq(Requests) /\ done_requests \in Seq(Requests)
        /\ thread \in [Threads -> ThreadType]
    BY DEF TypeOK, ThreadType
  <1>2. asked \in Seq(Requests) /\ done \in Seq(Requests)
    BY <1>1, ConcatProperties DEF asked, done
  <1>. QED
    BY <1>1, <1>2 DEF ThreadType

(* pthread_cond_signal leaves somebody awake.                                *)
LEMMA Signal ==
  ASSUME TypeOK, pthread_cond_signal
  PROVE  /\ OnlyWoken
         /\ \E t \in Threads : thread'[t].status # "asleep"
  <1> DEFINE sleeping == {t \in Threads : At(t, "asleep")}
  <1>1. CASE sleeping = {}
    <2>1. thread' = thread
      BY <1>1 DEF pthread_cond_signal
    <2>2. \A t \in Threads : thread[t].status # "asleep"
      BY <1>1 DEF At
    <2>. QED
      BY <2>1, <2>2, Typed, ThreadsAssumption DEF OnlyWoken
  <1>2. CASE sleeping # {}
    <2>1. PICK t \in sleeping : Move(t, "waiting")
      BY <1>2 DEF pthread_cond_signal
    <2>2. /\ thread[t].status = "asleep" /\ t \in Threads
          /\ thread' = [thread EXCEPT ![t].status = "waiting"]
      BY <2>1 DEF Move, At
    <2>. QED
      BY <2>2, Typed DEF OnlyWoken, ThreadType, Status
  <1>. QED
    BY <1>1, <1>2

(* A thread's status alone changes.                                          *)
LEMMA Moved ==
  ASSUME TypeOK, NEW t \in Threads, NEW s \in Status, Move(t, s)
  PROVE  /\ thread' \in [Threads -> ThreadType]
         /\ thread'[t].status = s
         /\ \A u \in Threads : thread'[u].req = thread[u].req
         /\ \A u \in Threads \ {t} : thread'[u].status = thread[u].status
  BY Typed DEF Move, ThreadType

(* The requests taken are the same while no thread takes or hands over one.  *)
LEMMA TakenSame ==
  ASSUME \A t \in Threads : thread'[t].req = thread[t].req
  PROVE  Taken' = Taken
  BY DEF Taken

(* The requests taken are finitely many.                                     *)
LEMMA TakenFinite ==
  ASSUME TypeOK
  PROVE  IsFiniteSet(Taken) /\ Cardinality(Taken) \in Nat
  <1> DEFINE holders == {t \in Threads : thread[t].req # NoRequest}
             held == [t \in holders |-> thread[t].req]
  <1>1. IsFiniteSet(holders)
    BY ThreadsAssumption, FS_Subset
  <1>2. held \in Surjection(holders, Taken)
    BY DEF Taken, Surjection
  <1>. QED
    BY <1>1, <1>2, FS_Surjection, FS_CardinalityType

(* A thread that had none takes a request nobody had.                        *)
LEMMA TakenMore ==
  ASSUME TypeOK, NEW t \in Threads, NEW r \in Requests,
         thread[t].req = NoRequest, thread'[t].req = r,
         \A u \in Threads \ {t} : thread'[u].req = thread[u].req
  PROVE  Taken' = Taken \cup {r}
  BY ThreadsAssumption DEF Taken

(* A thread hands over the request that it alone had.                        *)
LEMMA TakenLess ==
  ASSUME HeldOnce, NEW t \in Threads,
         thread[t].req # NoRequest, thread'[t].req = NoRequest,
         \A u \in Threads \ {t} : thread'[u].req = thread[u].req
  PROVE  Taken' = Taken \ {thread[t].req}
  BY DEF Taken, HeldOnce
-----------------------------------------------------------------------------
(* What the main thread does to the queues. *)

(* squidaio_queue_request puts r behind all that was asked before, whichever *)
(* of the two queues takes it, and leaves somebody awake.                    *)
LEMMA QueueRequest ==
  ASSUME TypeOK, SomeoneAwake, NEW r \in Requests, NEW next \in {"handlers", "check"},
         squidaio_queue_request(r, next)
  PROVE  /\ request_queue' \in Seq(Requests) /\ request_queue2' \in Seq(Requests)
         /\ asked' = Append(asked, r)
         /\ request_queue_len' = request_queue_len + 1
         /\ Len(request_queue') + Len(request_queue2')
              = Len(request_queue) + Len(request_queue2) + 1
         /\ OnlyWoken /\ SomeoneAwake'
         /\ main' \in {"sync", next} /\ back' \in {"handlers", "check"}
  <1>1. CASE Locked
    <2>1. /\ request_queue2' = Append(request_queue2, r)
          /\ request_queue' = request_queue /\ thread' = thread
      BY <1>1 DEF squidaio_queue_request
    <2>2. OnlyWoken /\ SomeoneAwake'
      BY <2>1, Typed DEF OnlyWoken, SomeoneAwake, At
    <2>3. /\ request_queue2' \in Seq(Requests) /\ asked' = Append(asked, r)
          /\ Len(request_queue2') = Len(request_queue2) + 1
      BY <2>1, Typed, AppendToConcat, AppendProperties DEF asked
    <2>. QED
      BY <2>1, <2>2, <2>3, Typed DEF squidaio_queue_request, TypeOK
  <1>2. CASE ~Locked
    <2>1. /\ request_queue' = request_queue \o Append(request_queue2, r)
          /\ request_queue2' = <<>> /\ pthread_cond_signal
      BY <1>2 DEF squidaio_queue_request
    <2>2. OnlyWoken /\ SomeoneAwake'
      BY <2>1, Signal DEF SomeoneAwake, At
    <2>3. /\ Append(request_queue2, r) \in Seq(Requests)
          /\ Len(Append(request_queue2, r)) = Len(request_queue2) + 1
      BY Typed, AppendProperties
    <2>4. /\ request_queue' \in Seq(Requests)
          /\ Len(request_queue') = Len(request_queue) + Len(request_queue2) + 1
      BY <2>1, <2>3, Typed, ConcatProperties, LenProperties
    <2>5. /\ request_queue2' \in Seq(Requests) /\ Len(request_queue2') = 0
      BY <2>1, EmptySeq
    <2>6. asked' = Append(asked, r)
      BY <2>1, <2>4, Typed, AppendToConcat, ConcatEmptySeq DEF asked
    <2>. QED
      BY <2>2, <2>4, <2>5, <2>6, LenProperties DEF squidaio_queue_request, TypeOK
  <1>. QED
    BY <1>1, <1>2

(* Moving the overflow queue changes nothing in what was asked, and leaves   *)
(* somebody awake.                                                           *)
LEMMA Kick ==
  ASSUME TypeOK, SomeoneAwake, KickRequests
  PROVE  /\ request_queue' \in Seq(Requests) /\ request_queue2' \in Seq(Requests)
         /\ asked' = asked
         /\ Len(request_queue') + Len(request_queue2')
              = Len(request_queue) + Len(request_queue2)
         /\ OnlyWoken /\ SomeoneAwake'
  <1>1. CASE request_queue2 # <<>> /\ ~Locked
    <2>1. /\ request_queue' = request_queue \o request_queue2
          /\ request_queue2' = <<>> /\ pthread_cond_signal
      BY <1>1 DEF KickRequests
    <2>2. OnlyWoken /\ SomeoneAwake'
      BY <2>1, Signal DEF SomeoneAwake, At
    <2>3. /\ request_queue' \in Seq(Requests)
          /\ Len(request_queue') = Len(request_queue) + Len(request_queue2)
      BY <2>1, Typed, ConcatProperties
    <2>4. /\ request_queue2' \in Seq(Requests) /\ Len(request_queue2') = 0
      BY <2>1, EmptySeq
    <2>5. asked' = asked
      BY <2>1, <2>3, ConcatEmptySeq DEF asked
    <2>. QED
      BY <2>2, <2>3, <2>4, <2>5, LenProperties
  <1>2. CASE ~(request_queue2 # <<>> /\ ~Locked)
    <2>1. UNCHANGED <<request_queue, request_queue2, thread>>
      BY <1>2 DEF KickRequests
    <2>. QED
      BY <2>1, Typed DEF OnlyWoken, SomeoneAwake, At, asked
  <1>. QED
    BY <1>1, <1>2

(* Collecting the done queue changes nothing in what is done, and takes as   *)
(* much from the count as from the queue.                                    *)
LEMMA Poll ==
  ASSUME TypeOK, LenExact, PollDoneQueue
  PROVE  /\ done_requests' \in Seq(Requests) /\ done_queue' \in Seq(Requests)
         /\ done' = done
         /\ request_queue_len' \in Nat
         /\ request_queue_len' - Len(done_queue') = request_queue_len - Len(done_queue)
         /\ done_queue' = <<>> \/ DoneLocked
  <1>0. /\ request_queue_len \in Nat /\ Len(done_queue) \in Nat
        /\ request_queue_len >= Len(done_queue)
    BY TakenFinite, Typed, LenProperties DEF LenExact, TypeOK
  <1>1. CASE done_queue # <<>> /\ ~DoneLocked
    <2>1. /\ done_requests' = done_requests \o done_queue /\ done_queue' = <<>>
          /\ request_queue_len' = request_queue_len - Len(done_queue)
      BY <1>1 DEF PollDoneQueue
    <2>2. done_requests' \in Seq(Requests)
      BY <2>1, Typed, ConcatProperties
    <2>3. done_queue' \in Seq(Requests) /\ Len(done_queue') = 0
      BY <2>1, EmptySeq
    <2>4. done' = done
      BY <2>1, <2>2, ConcatEmptySeq DEF done
    <2>. QED
      BY <1>0, <2>1, <2>2, <2>3, <2>4
  <1>2. CASE ~(done_queue # <<>> /\ ~DoneLocked)
    <2>1. UNCHANGED <<done_requests, done_queue, request_queue_len>>
      BY <1>2 DEF PollDoneQueue
    <2>. QED
      BY <1>0, <1>2, <2>1, Typed DEF done
  <1>. QED
    BY <1>1, <1>2
-----------------------------------------------------------------------------
(* The steps of the threads. *)

(* A thread that is woken still has what it had, and a byte that was coming  *)
(* still comes.                                                              *)
LEMMA WokenKeeps ==
  ASSUME TypeOK, HeldOnce, OnlyWoken
  PROVE  /\ HeldOnce' /\ Taken' = Taken
         /\ pipe' = pipe /\ ByteComing => ByteComing'
         /\ pipe' = pipe /\ done_signalled' = done_signalled /\ Announced => Announced'
  <1>1. Taken' = Taken
    BY TakenSame DEF OnlyWoken
  <1>2. HeldOnce'
    BY DEF HeldOnce, OnlyWoken, At
  <1>3. /\ \A t \in Threads : At(t, "marking") => At(t, "marking")'
        /\ \A t \in Threads : At(t, "writing") => At(t, "writing")'
        /\ \A t \in Threads : At(t, "appending") => At(t, "appending")'
        /\ \A t \in Threads : At(t, "announcing") => At(t, "announcing")'
    BY DEF OnlyWoken, At
  <1>4. pipe' = pipe /\ ByteComing => ByteComing'
    BY <1>3 DEF ByteComing
  <1>. QED
    BY <1>1, <1>2, <1>3, <1>4 DEF Announced

(* A thread that moves on with the queues as they are, and with or without   *)
(* its request as before, takes no step of AsyncIo.                          *)
LEMMA MoveOn ==
  ASSUME AiopsInv, NEW t \in Threads, NEW s \in Status, Move(t, s),
         s \in {"busy", "finished"} <=> thread[t].status \in {"busy", "finished"},
         UNCHANGED <<pool, done_queue, done_requests, cancelled>>
  PROVE  HeldOnce' /\ LenExact' /\ AbstractStep
  <1>1. Taken' = Taken
    BY Moved, TakenSame DEF AiopsInv, ThreadsInv
  <1>2. HeldOnce'
    BY Moved DEF AiopsInv, ThreadsInv, HeldOnce, At
  <1>3. LenExact'
    BY <1>1 DEF AiopsInv, ThreadsInv, LenExact, pool
  <1>4. AbstractStep
    BY <1>1 DEF AbstractStep, Abstract!vars, pool
  <1>. QED
    BY <1>2, <1>3, <1>4

(* A thread locks the request queue.                                         *)
LEMMA LockRequestsStep ==
  ASSUME AiopsInv, NEW t \in Threads, LockRequests(t)
  PROVE  ThreadsInv' /\ AbstractStep
  <1>1. Move(t, "locked") /\ thread[t].status = "waiting" /\ "locked" \in Status
    BY DEF LockRequests, At, Status
  <1>2. HeldOnce' /\ LenExact' /\ AbstractStep
    BY <1>1, MoveOn DEF LockRequests
  <1>3. TypeOK'
    BY <1>1, Moved DEF AiopsInv, ThreadsInv, TypeOK, ThreadType, LockRequests, pool
  <1>4. /\ \A u \in Threads, s \in {"marking", "writing", "appending", "announcing"} :
              At(u, s) => At(u, s)'
        /\ thread'[t].status # "asleep"
    BY <1>1, Moved DEF AiopsInv, ThreadsInv, At
  <1>5. FlagHasByte' /\ SeenOrAnnounced'
    BY <1>4 DEF AiopsInv, ThreadsInv, FlagHasByte, SeenOrAnnounced, Announced,
                ByteComing, LockRequests
  <1>6. SomeoneAwake'
    BY <1>4 DEF SomeoneAwake, At
  <1>. QED
    BY <1>2, <1>3, <1>5, <1>6 DEF ThreadsInv

(* A thread sleeps beside an empty request queue.                            *)
LEMMA SleepStep ==
  ASSUME AiopsInv, NEW t \in Threads, Sleep(t)
  PROVE  ThreadsInv' /\ AbstractStep
  <1>1. Move(t, "asleep") /\ thread[t].status = "locked" /\ "asleep" \in Status
    BY DEF Sleep, At, Status
  <1>2. HeldOnce' /\ LenExact' /\ AbstractStep
    BY <1>1, MoveOn DEF Sleep
  <1>3. TypeOK'
    BY <1>1, Moved DEF AiopsInv, ThreadsInv, TypeOK, ThreadType, Sleep, pool
  <1>4. \A u \in Threads, s \in {"marking", "writing", "appending", "announcing"} :
              At(u, s) => At(u, s)'
    BY <1>1, Moved DEF AiopsInv, ThreadsInv, At
  <1>5. FlagHasByte' /\ SeenOrAnnounced'
    BY <1>4 DEF AiopsInv, ThreadsInv, FlagHasByte, SeenOrAnnounced, Announced,
                ByteComing, Sleep
  <1>6. SomeoneAwake'
    BY DEF SomeoneAwake, Sleep, pool
  <1>. QED
    BY <1>2, <1>3, <1>5, <1>6 DEF ThreadsInv

(* A system call returns.                                                    *)
LEMMA RunRequestStep ==
  ASSUME AiopsInv, NEW t \in Threads, RunRequest(t)
  PROVE  ThreadsInv' /\ AbstractStep
  <1>1. Move(t, "finished") /\ thread[t].status = "busy" /\ "finished" \in Status
    BY DEF RunRequest, At, Status
  <1>2. HeldOnce' /\ LenExact' /\ AbstractStep
    BY <1>1, MoveOn DEF RunRequest
  <1>3. TypeOK'
    BY <1>1, Moved DEF AiopsInv, ThreadsInv, TypeOK, ThreadType, RunRequest, pool
  <1>4. /\ \A u \in Threads, s \in {"marking", "writing", "appending", "announcing"} :
              At(u, s) => At(u, s)'
        /\ thread'[t].status # "asleep"
    BY <1>1, Moved DEF AiopsInv, ThreadsInv, At
  <1>5. FlagHasByte' /\ SeenOrAnnounced'
    BY <1>4 DEF AiopsInv, ThreadsInv, FlagHasByte, SeenOrAnnounced, Announced,
                ByteComing, RunRequest
  <1>6. SomeoneAwake'
    BY <1>4 DEF SomeoneAwake, At
  <1>. QED
    BY <1>2, <1>3, <1>5, <1>6 DEF ThreadsInv

(* The done queue is unlocked and the flag not yet looked at.                *)
LEMMA UnlockDoneStep ==
  ASSUME AiopsInv, NEW t \in Threads, UnlockDone(t)
  PROVE  ThreadsInv' /\ AbstractStep
  <1>1. Move(t, "announcing") /\ thread[t].status = "appending" /\ "announcing" \in Status
    BY DEF UnlockDone, At, Status
  <1>2. HeldOnce' /\ LenExact' /\ AbstractStep
    BY <1>1, MoveOn DEF UnlockDone
  <1>3. TypeOK'
    BY <1>1, Moved DEF AiopsInv, ThreadsInv, TypeOK, ThreadType, UnlockDone, pool
  <1>4. /\ \A u \in Threads, s \in {"marking", "writing", "announcing"} :
              At(u, s) => At(u, s)'
        /\ At(t, "announcing")'
    BY <1>1, Moved DEF AiopsInv, ThreadsInv, At
  <1>5. FlagHasByte' /\ SeenOrAnnounced'
    BY <1>4 DEF AiopsInv, ThreadsInv, FlagHasByte, SeenOrAnnounced, Announced,
                ByteComing, UnlockDone
  <1>6. SomeoneAwake'
    BY <1>4 DEF SomeoneAwake, At
  <1>. QED
    BY <1>2, <1>3, <1>5, <1>6 DEF ThreadsInv

(* The flag is looked at: it is set, or the thread is to set it and write.   *)
LEMMA TestSignalledStep ==
  ASSUME AiopsInv, NEW t \in Threads, TestSignalled(t)
  PROVE  ThreadsInv' /\ AbstractStep
  <1> DEFINE s == IF done_signalled THEN "waiting" ELSE "marking"
  <1>1. Move(t, s) /\ thread[t].status = "announcing" /\ s \in Status
    BY DEF TestSignalled, At, Status
  <1>2. HeldOnce' /\ LenExact' /\ AbstractStep
    BY <1>1, MoveOn DEF TestSignalled
  <1>3. TypeOK'
    BY <1>1, Moved DEF AiopsInv, ThreadsInv, TypeOK, ThreadType, TestSignalled, pool
  <1>4. /\ \A u \in Threads, x \in {"marking", "writing", "appending"} :
              At(u, x) => At(u, x)'
        /\ thread'[t].status # "asleep"
        /\ ~done_signalled => At(t, "marking")'
    BY <1>1, Moved DEF AiopsInv, ThreadsInv, At
  <1>5. FlagHasByte' /\ SeenOrAnnounced'
    BY <1>4 DEF AiopsInv, ThreadsInv, FlagHasByte, SeenOrAnnounced, Announced,
                ByteComing, TestSignalled
  <1>6. SomeoneAwake'
    BY <1>4 DEF SomeoneAwake, At
  <1>. QED
    BY <1>2, <1>3, <1>5, <1>6 DEF ThreadsInv

(* The flag is set, its byte still to be written.                            *)
LEMMA SetSignalledStep ==
  ASSUME AiopsInv, NEW t \in Threads, SetSignalled(t)
  PROVE  ThreadsInv' /\ AbstractStep
  <1>1. Move(t, "writing") /\ thread[t].status = "marking" /\ "writing" \in Status
    BY DEF SetSignalled, At, Status
  <1>2. HeldOnce' /\ LenExact' /\ AbstractStep
    BY <1>1, MoveOn DEF SetSignalled
  <1>3. TypeOK'
    BY <1>1, Moved DEF AiopsInv, ThreadsInv, TypeOK, ThreadType, SetSignalled, pool
  <1>4. At(t, "writing")' /\ thread'[t].status # "asleep"
    BY <1>1, Moved DEF AiopsInv, ThreadsInv, At
  <1>5. FlagHasByte' /\ SeenOrAnnounced'
    BY <1>4 DEF FlagHasByte, SeenOrAnnounced, Announced, ByteComing
  <1>6. SomeoneAwake'
    BY <1>4 DEF SomeoneAwake, At
  <1>. QED
    BY <1>2, <1>3, <1>5, <1>6 DEF ThreadsInv

(* The byte is written.                                                      *)
LEMMA WritePipeStep ==
  ASSUME AiopsInv, NEW t \in Threads, WritePipe(t)
  PROVE  ThreadsInv' /\ AbstractStep
  <1>1. Move(t, "waiting") /\ thread[t].status = "writing" /\ "waiting" \in Status
    BY DEF WritePipe, At, Status
  <1>2. HeldOnce' /\ LenExact' /\ AbstractStep
    BY <1>1, MoveOn DEF WritePipe
  <1>3. TypeOK'
    BY <1>1, Moved DEF AiopsInv, ThreadsInv, TypeOK, ThreadType, WritePipe, pool
  <1>4. thread'[t].status # "asleep"
    BY <1>1, Moved DEF AiopsInv, ThreadsInv
  <1>5. FlagHasByte' /\ SeenOrAnnounced'
    BY DEF FlagHasByte, SeenOrAnnounced, Announced, ByteComing, WritePipe
  <1>6. SomeoneAwake'
    BY <1>4 DEF SomeoneAwake, At
  <1>. QED
    BY <1>2, <1>3, <1>5, <1>6 DEF ThreadsInv

(* The oldest request asked for is taken by a thread that had none.          *)
LEMMA TakeRequestStep ==
  ASSUME AiopsInv, NEW t \in Threads, TakeRequest(t)
  PROVE  ThreadsInv' /\ AbstractStep
  <1> DEFINE r == Head(request_queue)
  <1>0. TypeOK /\ HeldOnce /\ LenExact /\ Abstract!OnePlace
    BY DEF AiopsInv, ThreadsInv
  <1>1. /\ thread[t].status = "locked" /\ request_queue # <<>>
        /\ thread' = [thread EXCEPT ![t] = [status |-> "busy", req |-> r]]
        /\ request_queue' = Tail(request_queue)
        /\ UNCHANGED <<request_queue2, request_queue_len, done_queue, cancelled,
                       done_requests, done_signalled, pipe, main, back>>
    BY DEF TakeRequest, At
  <1>2. /\ r \in Requests /\ r \in Range(asked) /\ request_queue' \in Seq(Requests)
        /\ Len(request_queue') = Len(request_queue) - 1
        /\ asked # <<>> /\ r = Head(asked) /\ asked' = Tail(asked)
    <2>1. /\ r \in Requests /\ request_queue' \in Seq(Requests)
          /\ Len(request_queue') = Len(request_queue) - 1
      BY <1>0, <1>1, Typed, RangeOfTail
    <2>2. asked # <<>> /\ r = Head(asked) /\ asked' = Tail(asked)
      BY <1>0, <1>1, Typed, TailOfConcat DEF asked
    <2>3. r \in Range(asked)
      BY <1>0, <2>2, Typed, RangeOfTail
    <2>. QED
      BY <2>1, <2>2, <2>3
  <1>3. thread[t].req = NoRequest
    BY <1>0, <1>1 DEF HeldOnce, At
  <1>4. /\ thread' \in [Threads -> ThreadType]
        /\ thread'[t].status = "busy" /\ thread'[t].req = r
        /\ \A u \in Threads \ {t} : thread'[u] = thread[u]
    BY <1>0, <1>1, <1>2, Typed DEF ThreadType, Status
  <1>5. Taken' = Taken \cup {r} /\ r \notin Taken
    <2>1. r \notin Taken
      BY <1>0, <1>2 DEF Abstract!OnePlace, asked, Abstract!Range, Range
    <2>. QED
      BY <1>0, <1>2, <1>3, <1>4, <2>1, TakenMore
  <1>6. TypeOK'
    BY <1>0, <1>1, <1>2, <1>4 DEF TypeOK, ThreadType
  <1>7. HeldOnce'
    <2>1. \A u \in Threads \ {t} : thread[u].req # r
      BY <1>2, <1>5, ThreadsAssumption DEF Taken
    <2>. QED
      BY <1>0, <1>2, <1>4, <2>1, ThreadsAssumption DEF HeldOnce, At
  <1>8. LenExact'
    <2>1. Cardinality(Taken') = Cardinality(Taken) + 1
      BY <1>0, <1>5, TakenFinite, FS_AddElement
    <2>. QED
      BY <1>0, <1>1, <1>2, <2>1, TakenFinite, Typed, LenProperties DEF LenExact, TypeOK
  <1>9. /\ \A u \in Threads, s \in {"marking", "writing", "appending", "announcing"} :
              At(u, s) => At(u, s)'
    BY <1>1, <1>4 DEF At
  <1>10. FlagHasByte' /\ SeenOrAnnounced' /\ SomeoneAwake'
    <2>1. SomeoneAwake'
      BY <1>4 DEF SomeoneAwake, At
    <2>. QED
      BY <1>1, <1>9, <2>1 DEF AiopsInv, ThreadsInv, FlagHasByte, SeenOrAnnounced,
                              Announced, ByteComing
  <1>11. AbstractStep
    BY <1>1, <1>2, <1>5 DEF AbstractStep, Abstract!Next, Abstract!Start, asked
  <1>. QED
    BY <1>6, <1>7, <1>8, <1>10, <1>11 DEF ThreadsInv

(* A finished request is put in the done queue under its lock.               *)
LEMMA LockDoneStep ==
  ASSUME AiopsInv, NEW t \in Threads, LockDone(t)
  PROVE  ThreadsInv' /\ AbstractStep
  <1> DEFINE r == thread[t].req
  <1>0. TypeOK /\ HeldOnce /\ LenExact
    BY DEF AiopsInv, ThreadsInv
  <1>1. /\ thread[t].status = "finished"
        /\ thread' = [thread EXCEPT ![t] = [status |-> "appending", req |-> NoRequest]]
        /\ done_queue' = Append(done_queue, r)
        /\ UNCHANGED <<pool, cancelled, done_requests, done_signalled, pipe, main, back>>
    BY DEF LockDone, At
  <1>2. r # NoRequest /\ r \in Requests /\ r \in Taken
    <2>1. r # NoRequest
      BY <1>0, <1>1 DEF HeldOnce, At
    <2>. QED
      BY <1>0, <2>1, Typed DEF Taken
  <1>3. /\ done_queue' \in Seq(Requests) /\ Len(done_queue') = Len(done_queue) + 1
        /\ done' = Append(done, r)
    BY <1>0, <1>1, <1>2, Typed, AppendToConcat, AppendProperties DEF done
  <1>4. /\ thread' \in [Threads -> ThreadType]
        /\ thread'[t].status = "appending" /\ thread'[t].req = NoRequest
        /\ \A u \in Threads \ {t} : thread'[u] = thread[u]
    BY <1>0, <1>1, Typed DEF ThreadType, Status
  <1>5. Taken' = Taken \ {r}
    BY <1>0, <1>2, <1>4, TakenLess
  <1>6. TypeOK'
    BY <1>0, <1>1, <1>3, <1>4 DEF TypeOK, ThreadType, pool
  <1>7. HeldOnce'
    BY <1>0, <1>4 DEF HeldOnce, At
  <1>8. LenExact'
    <2>1. Cardinality(Taken') = Cardinality(Taken) - 1
      BY <1>0, <1>2, <1>5, TakenFinite, FS_RemoveElement
    <2>. QED
      BY <1>0, <1>1, <1>3, <2>1, TakenFinite, Typed, LenProperties DEF LenExact, TypeOK, pool
  <1>9. /\ \A u \in Threads, s \in {"marking", "writing"} : At(u, s) => At(u, s)'
        /\ At(t, "appending")'
    BY <1>1, <1>4 DEF At
  <1>10. FlagHasByte'
    BY <1>1, <1>9 DEF AiopsInv, ThreadsInv, FlagHasByte, ByteComing
  <1>11. SeenOrAnnounced'
    <2>1. SUFFICES ASSUME main' \in {"polled", "select"} PROVE Announced'
      BY DEF SeenOrAnnounced
    <2>2. CASE done_signalled
      BY <1>1, <1>10, <2>1, <2>2 DEF FlagHasByte, Announced
    <2>3. CASE ~done_signalled
      BY <1>1, <1>9, <2>3 DEF Announced
    <2>. QED
      BY <2>2, <2>3
  <1>12. SomeoneAwake'
    BY <1>4 DEF SomeoneAwake, At
  <1>13. AbstractStep
    BY <1>1, <1>2, <1>3, <1>5
    DEF AbstractStep, Abstract!Next, Abstract!Finish, done, pool
  <1>. QED
    BY <1>6, <1>7, <1>8, <1>10, <1>11, <1>12, <1>13 DEF ThreadsInv
-----------------------------------------------------------------------------
(* The steps of the main thread. *)

(* A step of the main thread that leaves the queues and the threads alone.   *)
LEMMA QueuesAlone ==
  ASSUME AiopsInv,
         UNCHANGED <<pool, done_queue, done_requests, cancelled, thread>>
  PROVE  HeldOnce' /\ LenExact' /\ SomeoneAwake' /\ AbstractStep
  <1>1. Taken' = Taken
    BY TakenSame
  <1>2. HeldOnce' /\ SomeoneAwake'
    BY DEF AiopsInv, ThreadsInv, HeldOnce, SomeoneAwake, At, pool
  <1>. QED
    BY <1>1, <1>2 DEF AiopsInv, ThreadsInv, LenExact, AbstractStep, Abstract!vars, pool

(* The main thread runs its handlers, or looks whether something is done.    *)
LEMMA HandlersStep ==
  ASSUME AiopsInv, Select \/ squidaio_fdhandler \/ CheckCallbacks
  PROVE  ThreadsInv' /\ AbstractStep
  <1>1. /\ UNCHANGED <<pool, done_queue, done_requests, cancelled, thread,
                       done_signalled, back>>
        /\ pipe' \in {pipe, FALSE} /\ main' \in {"handlers", "check"}
    BY DEF Select, squidaio_fdhandler, CheckCallbacks
  <1>2. TypeOK'
    BY <1>1 DEF AiopsInv, ThreadsInv, TypeOK, pool
  <1>3. FlagHasByte' /\ SeenOrAnnounced'
    BY <1>1 DEF FlagHasByte, SeenOrAnnounced
  <1>. QED
    BY <1>1, <1>2, <1>3, QueuesAlone DEF ThreadsInv

(* The pipe is read when the flag is set, and the flag is then reset: a flag *)
(* that is found clear or has been reset needs no byte.                      *)
LEMMA PipeStep ==
  ASSUME AiopsInv, ReadPipe \/ ResetSignalled
  PROVE  ThreadsInv' /\ AbstractStep
  <1>1. /\ UNCHANGED <<pool, done_queue, done_requests, cancelled, thread, back>>
        /\ main' \in {"reset", "kick"} /\ pipe' \in BOOLEAN /\ done_signalled' \in BOOLEAN
        /\ main' = "kick" => ~done_signalled'
    <2>1. done_signalled \in BOOLEAN /\ pipe \in BOOLEAN
      BY DEF AiopsInv, ThreadsInv, TypeOK
    <2>2. CASE ReadPipe
      <3>1. (pipe /\ ~done_signalled) \in BOOLEAN
        BY <2>1
      <3>. QED
        BY <2>1, <2>2, <3>1 DEF ReadPipe
    <2>3. CASE ResetSignalled
      BY <2>1, <2>3 DEF ResetSignalled
    <2>. QED
      BY <2>2, <2>3
  <1>2. TypeOK'
    BY <1>1 DEF AiopsInv, ThreadsInv, TypeOK, pool
  <1>3. FlagHasByte' /\ SeenOrAnnounced'
    BY <1>1 DEF FlagHasByte, SeenOrAnnounced
  <1>. QED
    BY <1>1, <1>2, <1>3, QueuesAlone DEF ThreadsInv

(* Nothing is done: the main thread selects.                                 *)
LEMMA NothingDoneStep ==
  ASSUME AiopsInv, NothingDone
  PROVE  ThreadsInv' /\ AbstractStep
  <1>1. /\ UNCHANGED <<pool, done_queue, done_requests, cancelled, thread,
                       done_signalled, pipe, back>>
        /\ main = "polled" /\ main' = "select"
    BY DEF NothingDone
  <1>2. TypeOK'
    BY <1>1 DEF AiopsInv, ThreadsInv, TypeOK, pool
  <1>3. ByteComing' = ByteComing /\ Announced' = Announced
    BY <1>1 DEF ByteComing, Announced, At
  <1>4. FlagHasByte' /\ SeenOrAnnounced'
    BY <1>1, <1>3 DEF AiopsInv, ThreadsInv, FlagHasByte, SeenOrAnnounced
  <1>. QED
    BY <1>1, <1>2, <1>4, QueuesAlone DEF ThreadsInv

(* The overflow queue is kicked, by squidaio_sync or by squidaio_poll_done.  *)
LEMMA KickStep ==
  ASSUME AiopsInv, SyncKick \/ PollKick
  PROVE  ThreadsInv' /\ AbstractStep
  <1>0. TypeOK /\ HeldOnce /\ SomeoneAwake
    BY DEF AiopsInv, ThreadsInv
  <1>1. /\ KickRequests
        /\ UNCHANGED <<request_queue_len, done_queue, done_requests, cancelled,
                       done_signalled, pipe, back>>
        /\ \/ main' = "syncing"
           \/ main = "kick" /\ main' = "collect"
    BY DEF SyncKick, PollKick
  <1>2. /\ request_queue' \in Seq(Requests) /\ request_queue2' \in Seq(Requests)
        /\ asked' = asked
        /\ Len(request_queue') + Len(request_queue2')
             = Len(request_queue) + Len(request_queue2)
        /\ OnlyWoken /\ SomeoneAwake'
    BY <1>0, <1>1, Kick
  <1>3. /\ HeldOnce' /\ Taken' = Taken
        /\ ByteComing => ByteComing'
    BY <1>0, <1>1, <1>2, WokenKeeps
  <1>4. TypeOK'
    BY <1>0, <1>1, <1>2 DEF TypeOK, OnlyWoken, ThreadType
  <1>5. LenExact'
    BY <1>1, <1>2, <1>3 DEF AiopsInv, ThreadsInv, LenExact
  <1>6. FlagHasByte' /\ SeenOrAnnounced'
    BY <1>1, <1>3 DEF AiopsInv, ThreadsInv, FlagHasByte, SeenOrAnnounced
  <1>7. AbstractStep
    BY <1>1, <1>2, <1>3 DEF AbstractStep, Abstract!vars, asked
  <1>. QED
    BY <1>2, <1>3, <1>4, <1>5, <1>6, <1>7 DEF ThreadsInv

(* The done queue is collected, by squidaio_sync or by squidaio_poll_done:   *)
(* what is left in it is of a thread that has yet to look at the flag.       *)
LEMMA PollStep ==
  ASSUME AiopsInv, SyncPoll \/ PollCollect
  PROVE  ThreadsInv' /\ AbstractStep
  <1>0. TypeOK /\ HeldOnce /\ SomeoneAwake /\ LenExact /\ FlagHasByte
    BY DEF AiopsInv, ThreadsInv
  <1>1. /\ PollDoneQueue
        /\ UNCHANGED <<request_queue, request_queue2, cancelled, thread,
                       done_signalled, pipe>>
        /\ back' \in {"handlers", "check"}
        /\ \/ main' \in {"sync", "handlers", "check"}
           \/ main = "collect" /\ main' = "polled"
    BY <1>0 DEF SyncPoll, PollCollect, TypeOK
  <1>2. /\ done_requests' \in Seq(Requests) /\ done_queue' \in Seq(Requests)
        /\ done' = done /\ request_queue_len' \in Nat
        /\ request_queue_len' - Len(done_queue') = request_queue_len - Len(done_queue)
        /\ done_queue' = <<>> \/ DoneLocked
    BY <1>0, <1>1, Poll
  <1>3. HeldOnce' /\ Taken' = Taken /\ SomeoneAwake'
    BY <1>0, <1>1, TakenSame DEF HeldOnce, SomeoneAwake, At
  <1>4. TypeOK'
    BY <1>0, <1>1, <1>2 DEF TypeOK
  <1>5. LenExact'
    <2>1. /\ Len(request_queue) \in Nat /\ Len(request_queue2) \in Nat
          /\ Len(done_queue) \in Nat /\ Len(done_queue') \in Nat
          /\ Cardinality(Taken) \in Nat /\ request_queue_len \in Nat
      BY <1>0, <1>2, TakenFinite, Typed, LenProperties DEF TypeOK
    <2>. QED
      BY <1>0, <1>1, <1>2, <1>3, <2>1 DEF LenExact
  <1>6. ByteComing' = ByteComing /\ DoneLocked' = DoneLocked
    BY <1>1 DEF ByteComing, DoneLocked, At
  <1>7. FlagHasByte'
    BY <1>0, <1>1, <1>6 DEF FlagHasByte
  <1>8. SeenOrAnnounced'
    <2>1. SUFFICES ASSUME main' = "polled", DoneLocked' PROVE Announced'
      BY <1>1, <1>2, <1>6 DEF SeenOrAnnounced
    <2>2. CASE done_signalled'
      BY <1>7, <2>1, <2>2 DEF FlagHasByte, Announced
    <2>3. CASE ~done_signalled'
      BY <2>1, <2>3 DEF Announced, DoneLocked
    <2>. QED
      BY <2>2, <2>3
  <1>9. AbstractStep
    BY <1>1, <1>2, <1>3 DEF AbstractStep, Abstract!vars, done
  <1>. QED
    BY <1>3, <1>4, <1>5, <1>7, <1>8, <1>9 DEF ThreadsInv

(* The request structures in use, as both specifications count them.         *)
LEMMA LiveSame ==
  ASSUME TypeOK
  PROVE  /\ Abstract!Live = Live
         /\ Live = Range(asked) \cup Taken \cup Range(done)
  <1>1. /\ Range(asked) = Range(request_queue) \cup Range(request_queue2)
        /\ Range(done) = Range(done_requests) \cup Range(done_queue)
    BY Typed, RangeConcatenation DEF asked, done
  <1>2. Abstract!Live = Range(asked) \cup Taken \cup Range(done)
    BY DEF Abstract!Live, Abstract!Range, Range, asked, done
  <1>. QED
    BY <1>1, <1>2 DEF Live, Queued

(* The oldest request done is taken out of done_requests.                    *)
LEMMA OldestDone ==
  ASSUME TypeOK, done_requests # <<>>, done_requests' = Tail(done_requests),
         done_queue' = done_queue
  PROVE  /\ done_requests' \in Seq(Requests) /\ Head(done_requests) \in Requests
         /\ done # <<>> /\ Head(done) = Head(done_requests) /\ done' = Tail(done)
  <1>1. done_requests' \in Seq(Requests) /\ Head(done_requests) \in Requests
    BY Typed, RangeOfTail
  <1>. QED
    BY <1>1, Typed, TailOfConcat DEF done

(* A cancelled request is dropped: AsyncIo answers it, and nobody asks.      *)
LEMMA DropCancelledStep ==
  ASSUME AiopsInv, DropCancelled
  PROVE  ThreadsInv' /\ AbstractStep
  <1>0. TypeOK /\ HeldOnce /\ SomeoneAwake /\ LenExact /\ FlagHasByte /\ SeenOrAnnounced
    BY DEF AiopsInv, ThreadsInv
  <1>1. /\ done_requests # <<>> /\ done_requests' = Tail(done_requests)
        /\ cancelled' = cancelled \ {Head(done_requests)}
        /\ UNCHANGED <<pool, done_queue, thread, done_signalled, pipe, main, back>>
    BY DEF DropCancelled
  <1>2. /\ done_requests' \in Seq(Requests)
        /\ done # <<>> /\ Head(done) = Head(done_requests) /\ done' = Tail(done)
    BY <1>0, <1>1, OldestDone
  <1>3. Taken' = Taken
    BY <1>1, TakenSame
  <1>4. TypeOK'
    BY <1>0, <1>1, <1>2 DEF TypeOK, pool
  <1>5. HeldOnce' /\ SomeoneAwake' /\ LenExact'
    BY <1>0, <1>1, <1>3 DEF HeldOnce, SomeoneAwake, At, LenExact, pool
  <1>6. ByteComing' = ByteComing /\ Announced' = Announced
    BY <1>1 DEF ByteComing, Announced, At
  <1>7. FlagHasByte' /\ SeenOrAnnounced'
    BY <1>0, <1>1, <1>6 DEF FlagHasByte, SeenOrAnnounced
  <1>8. Abstract!Answer
    BY <1>1, <1>2, <1>3 DEF Abstract!Answer, done, pool
  <1>. QED
    BY <1>4, <1>5, <1>7, <1>8 DEF ThreadsInv, AbstractStep, Abstract!Next

(* Queueing a request from a handler or a callback, whatever else the main   *)
(* thread does with done_requests and cancelled requests in the same step.   *)
LEMMA QueueKeeps ==
  ASSUME AiopsInv, NEW r \in Requests, NEW next \in {"handlers", "check"},
         squidaio_queue_request(r, next),
         UNCHANGED <<done_queue, done_signalled, pipe>>,
         done_requests' \in Seq(Requests), cancelled' \subseteq Requests
  PROVE  ThreadsInv' /\ asked' = Append(asked, r) /\ Taken' = Taken
  <1>0. TypeOK /\ HeldOnce /\ SomeoneAwake /\ LenExact
    BY DEF AiopsInv, ThreadsInv
  <1>1. /\ request_queue' \in Seq(Requests) /\ request_queue2' \in Seq(Requests)
        /\ asked' = Append(asked, r)
        /\ request_queue_len' = request_queue_len + 1
        /\ Len(request_queue') + Len(request_queue2')
             = Len(request_queue) + Len(request_queue2) + 1
        /\ OnlyWoken /\ SomeoneAwake'
        /\ main' \in {"sync", next} /\ back' \in {"handlers", "check"}
    BY <1>0, QueueRequest
  <1>2. HeldOnce' /\ Taken' = Taken
    BY <1>0, <1>1, WokenKeeps
  <1>3. TypeOK'
    BY <1>0, <1>1 DEF TypeOK, OnlyWoken, ThreadType
  <1>4. LenExact'
    <2>1. /\ Len(request_queue) \in Nat /\ Len(request_queue2) \in Nat
          /\ Len(request_queue') \in Nat /\ Len(request_queue2') \in Nat
          /\ Len(done_queue) \in Nat /\ Cardinality(Taken) \in Nat
      BY <1>0, <1>1, TakenFinite, Typed, LenProperties
    <2>. QED
      BY <1>0, <1>1, <1>2, <2>1 DEF LenExact
  <1>5. FlagHasByte' /\ SeenOrAnnounced'
    BY <1>1 DEF FlagHasByte, SeenOrAnnounced
  <1>. QED
    BY <1>1, <1>2, <1>3, <1>4, <1>5 DEF ThreadsInv

(* A handler asks for something.                                             *)
LEMMA SubmitStep ==
  ASSUME AiopsInv, NEW r \in Requests, Submit(r)
  PROVE  ThreadsInv' /\ AbstractStep
  <1>0. TypeOK
    BY DEF AiopsInv, ThreadsInv
  <1>1. /\ r \notin Live /\ squidaio_queue_request(r, "handlers")
        /\ UNCHANGED <<done_queue, done_requests, cancelled, done_signalled, pipe>>
    BY DEF Submit
  <1>2. ThreadsInv' /\ asked' = Append(asked, r) /\ Taken' = Taken
    BY <1>0, <1>1, Typed, QueueKeeps DEF TypeOK
  <1>3. Abstract!Submit(r)
    BY <1>0, <1>1, <1>2, LiveSame DEF Abstract!Submit, asked
  <1>. QED
    BY <1>2, <1>3 DEF AbstractStep, Abstract!Next

(* A handler cancels something.                                              *)
LEMMA CancelStep ==
  ASSUME AiopsInv, NEW r \in Requests, Cancel(r)
  PROVE  ThreadsInv' /\ AbstractStep
  <1>0. TypeOK /\ HeldOnce /\ SomeoneAwake /\ LenExact /\ FlagHasByte /\ SeenOrAnnounced
    BY DEF AiopsInv, ThreadsInv
  <1>1. /\ r \in Live \ cancelled /\ cancelled' = cancelled \cup {r}
        /\ UNCHANGED <<pool, done_queue, done_requests, thread, done_signalled,
                       pipe, main, back>>
    BY DEF Cancel, squidaio_cancel
  <1>2. Taken' = Taken
    BY <1>1, TakenSame
  <1>3. TypeOK'
    BY <1>0, <1>1 DEF TypeOK, pool
  <1>4. HeldOnce' /\ SomeoneAwake' /\ LenExact'
    BY <1>0, <1>1, <1>2 DEF HeldOnce, SomeoneAwake, At, LenExact, pool
  <1>5. ByteComing' = ByteComing /\ Announced' = Announced
    BY <1>1 DEF ByteComing, Announced, At
  <1>6. FlagHasByte' /\ SeenOrAnnounced'
    BY <1>0, <1>1, <1>5 DEF FlagHasByte, SeenOrAnnounced
  <1>7. Abstract!Cancel(r)
    BY <1>0, <1>1, <1>2, LiveSame DEF Abstract!Cancel, pool
  <1>. QED
    BY <1>3, <1>4, <1>6, <1>7 DEF ThreadsInv, AbstractStep, Abstract!Next

(* The oldest finished request is answered, and its callback may ask for     *)
(* something else, in a structure that is free by then.                      *)
LEMMA AnswerStep ==
  ASSUME AiopsInv, NEW r \in Requests, Answer(r)
  PROVE  ThreadsInv' /\ AbstractStep
  <1>0. TypeOK /\ HeldOnce /\ SomeoneAwake /\ LenExact
    BY DEF AiopsInv, ThreadsInv
  <1>1. /\ done_requests # <<>> /\ done_requests' = Tail(done_requests)
        /\ r = Head(done_requests) /\ r \notin cancelled
        /\ UNCHANGED <<done_queue, done_signalled, pipe, cancelled>>
    BY DEF Answer, TakeDone
  <1>2. /\ done_requests' \in Seq(Requests)
        /\ done # <<>> /\ Head(done) = r /\ done' = Tail(done)
    BY <1>0, <1>1, OldestDone
  <1>3. CASE main' = "check" /\ UNCHANGED <<pool, thread, back>>
    <2>1. Taken' = Taken
      BY <1>3, TakenSame
    <2>2. TypeOK'
      BY <1>0, <1>1, <1>2, <1>3 DEF TypeOK, pool
    <2>3. HeldOnce' /\ SomeoneAwake' /\ LenExact'
      BY <1>0, <1>1, <1>3, <2>1 DEF HeldOnce, SomeoneAwake, At, LenExact, pool
    <2>4. FlagHasByte' /\ SeenOrAnnounced'
      BY <1>3 DEF FlagHasByte, SeenOrAnnounced
    <2>5. Abstract!Answer
      BY <1>1, <1>2, <1>3, <2>1 DEF Abstract!Answer, done, pool
    <2>. QED
      BY <2>2, <2>3, <2>4, <2>5 DEF ThreadsInv, AbstractStep, Abstract!Next
  <1>4. CASE squidaio_queue_request(FromPool(FreedBy(r)), "check")
    <2> DEFINE n == FromPool(FreedBy(r))
    <2>1. n \in FreedBy(r)
      BY DEF FromPool, FreedBy
    <2>2. n \in Requests
      BY <2>1 DEF FreedBy
    <2> HIDE DEF n
    <2>3. ThreadsInv' /\ asked' = Append(asked, n) /\ Taken' = Taken
      BY <1>0, <1>1, <1>2, <1>4, <2>2, QueueKeeps DEF n, TypeOK
    <2>4. n \in (Requests \ Abstract!Live) \cup {Head(done)}
      BY <1>0, <1>2, <2>1, LiveSame DEF FreedBy
    <2>5. Abstract!Answer
      BY <1>1, <1>2, <2>3, <2>4 DEF Abstract!Answer, done, asked
    <2>. QED
      BY <2>3, <2>5 DEF AbstractStep, Abstract!Next
  <1>. QED
    BY <1>3, <1>4 DEF Answer
-----------------------------------------------------------------------------
(* The theorems. *)

(* The pool starts without requests and with every thread awake.             *)
LEMMA AiopsInvInit ==
  Init => AiopsInv /\ Abstract!Init
  <1> SUFFICES ASSUME Init PROVE AiopsInv /\ Abstract!Init
    OBVIOUS
  <1>1. /\ request_queue = <<>> /\ request_queue2 = <<>>
        /\ done_queue = <<>> /\ done_requests = <<>>
        /\ request_queue_len = 0 /\ cancelled = {}
        /\ thread = [t \in Threads |-> [status |-> "waiting", req |-> NoRequest]]
        /\ done_signalled = FALSE /\ pipe = FALSE
        /\ main = "handlers" /\ back = "handlers"
    BY DEF Init, AioInit
  <1>2. TypeOK
    <2>1. <<>> \in Seq(Requests)
      OBVIOUS
    <2>2. /\ thread \in [Threads -> [status : Status, req : Requests \cup {NoRequest}]]
          /\ done_signalled \in BOOLEAN /\ pipe \in BOOLEAN
      BY <1>1 DEF Status
    <2>. QED
      BY <1>1, <2>1, <2>2 DEF TypeOK
  <1>3. HeldOnce /\ Taken = {}
    BY <1>1 DEF HeldOnce, At, Taken
  <1>4. LenExact
    BY <1>1, <1>3, FS_EmptySet DEF LenExact
  <1>5. FlagHasByte /\ SeenOrAnnounced /\ SomeoneAwake
    BY <1>1 DEF FlagHasByte, SeenOrAnnounced, SomeoneAwake
  <1>6. asked = <<>> /\ done = <<>>
    BY <1>1, ConcatEmptySeq DEF asked, done
  <1>7. Abstract!Init
    BY <1>1, <1>3, <1>6 DEF Abstract!Init, asked, done
  <1>8. Abstract!OnePlace
    <2>1. /\ <<>> \in Seq(Requests) /\ IsInjective(<<>>) /\ Range(<<>>) = {}
      BY EmptyQueue
    <2>2. Abstract!IsInjective(<<>>) /\ Abstract!Range(<<>>) = {}
      BY <2>1 DEF Abstract!IsInjective, Abstract!Range, IsInjective, Range
    <2>. QED
      BY <1>1, <1>3, <1>6, <2>1, <2>2 DEF Abstract!OnePlace, Abstract!Live, asked, done
  <1>. QED
    BY <1>2, <1>3, <1>4, <1>5, <1>7, <1>8 DEF AiopsInv, ThreadsInv

(* Every step of the pool keeps the invariant and is a step of AsyncIo, or   *)
(* one that AsyncIo does not see.                                            *)
LEMMA AiopsInvStep ==
  AiopsInv /\ [Next]_aiovars => AiopsInv' /\ AbstractStep
  <1> SUFFICES ASSUME AiopsInv, [Next]_aiovars PROVE ThreadsInv' /\ AbstractStep
    BY OnePlaceStep DEF AiopsInv, AbstractStep
  <1>1. CASE MainStep
    BY <1>1, HandlersStep, PipeStep, NothingDoneStep, KickStep, PollStep,
       DropCancelledStep DEF MainStep
  <1>2. ASSUME NEW t \in Threads, ThreadStep(t) \/ RunRequest(t)
        PROVE  ThreadsInv' /\ AbstractStep
    BY <1>2, LockRequestsStep, TakeRequestStep, SleepStep, RunRequestStep,
       LockDoneStep, UnlockDoneStep, TestSignalledStep, SetSignalledStep,
       WritePipeStep DEF ThreadStep
  <1>3. ASSUME NEW r \in Requests, Submit(r) \/ Cancel(r) \/ Answer(r)
        PROVE  ThreadsInv' /\ AbstractStep
    BY <1>3, SubmitStep, CancelStep, AnswerStep
  <1>4. CASE UNCHANGED aiovars
    <2>1. /\ UNCHANGED <<pool, done_queue, done_requests, cancelled, thread,
                         done_signalled, pipe, main, back>>
      BY <1>4 DEF aiovars
    <2>2. TypeOK'
      BY <2>1 DEF AiopsInv, ThreadsInv, TypeOK, pool
    <2>3. ByteComing' = ByteComing /\ Announced' = Announced
      BY <2>1 DEF ByteComing, Announced, At
    <2>4. FlagHasByte' /\ SeenOrAnnounced'
      BY <2>1, <2>3 DEF AiopsInv, ThreadsInv, FlagHasByte, SeenOrAnnounced
    <2>. QED
      BY <2>1, <2>2, <2>4, QueuesAlone DEF ThreadsInv
  <1>. QED
    BY <1>1, <1>2, <1>3, <1>4 DEF Next

(* The invariant holds throughout.                                           *)
LEMMA AiopsInvAlways == Spec => []AiopsInv
  <1>1. Init => AiopsInv
    BY AiopsInvInit
  <1>2. AiopsInv /\ [Next]_aiovars => AiopsInv'
    BY AiopsInvStep
  <1>. QED
    BY <1>1, <1>2, PTL DEF Spec

(* What the runs check follows from the invariant.                           *)
LEMMA AiopsInvImplies ==
  AiopsInv => QueuesConsistent /\ WakeUpComing /\ SomeoneAwake
  BY DEF AiopsInv, ThreadsInv, QueuesConsistent, SeenOrAnnounced, Announced,
         ByteComing, WakeUpComing

(* A request structure is in one queue or one thread's hands, once, and      *)
(* request_queue_len, which the main thread keeps without a lock, counts     *)
(* exactly the requests not yet collected.                                   *)
THEOREM CountExact == Spec => []QueuesConsistent
  <1>1. AiopsInv => QueuesConsistent
    BY AiopsInvImplies
  <1>. QED
    BY <1>1, AiopsInvAlways, PTL

(* The main thread never sleeps in select beside a finished request for      *)
(* which no byte is in the pipe or on its way.                               *)
THEOREM NoLostWakeUp == Spec => []WakeUpComing
  <1>1. AiopsInv => WakeUpComing
    BY AiopsInvImplies
  <1>. QED
    BY <1>1, AiopsInvAlways, PTL

(* No request sits in the locked queue while every thread sleeps.            *)
THEOREM NeverAllAsleep == Spec => []SomeoneAwake
  <1>1. AiopsInv => SomeoneAwake
    BY AiopsInvImplies
  <1>. QED
    BY <1>1, AiopsInvAlways, PTL

(* The pool implements AsyncIo's queues: requests start in the order they    *)
(* were asked and are answered in the order they finished, each once.        *)
THEOREM ImplementsQueues == Spec => Abstract!Safety
  <1>1. Init => AiopsInv /\ Abstract!Init
    BY AiopsInvInit
  <1>2. AiopsInv /\ [Next]_aiovars => AiopsInv' /\ [Abstract!Next]_(Abstract!vars)
    BY AiopsInvStep DEF AbstractStep
  <1>. QED
    BY <1>1, <1>2, PTL DEF Spec, Abstract!Safety

-----------------------------------------------------------------------------
(* The files of the store, on top of the threads.                            *)

(* Requests in use have a control block, or have lost it to aioCancel, which *)
(* finds only closes that a thread has made.                                 *)
Blocks == /\ Live = used \cup cancelled /\ used \cap cancelled = {}
          /\ \A r \in cancelled : req[r].op = "close" /\ r \notin NotRun

(* What a request in use says.                                               *)
RequestOkay(r) ==
    \/ /\ req[r].op = "open" /\ req[r].fd = NoFd /\ r \in used
       /\ req[r].sio \in Sios /\ sio[req[r].sio].fd = NoFd
       /\ \/ sio[req[r].sio].state = "zombie"
          \/ sio[req[r].sio].state = "live" /\ sio[req[r].sio].opening
       /\ r \in NotRun => req[r].ret = NoFd
    \/ /\ req[r].op = "read" /\ req[r].fd \in Fds /\ req[r].ret = NoFd /\ r \in used
       /\ req[r].sio \in Sios /\ SioLive(req[r].sio)
       /\ sio[req[r].sio].fd = req[r].fd /\ sio[req[r].sio].reading
    \/ /\ req[r].op = "close" /\ req[r].sio = NoSio /\ req[r].fd \in Fds
       /\ req[r].ret = IF r \in NotRun THEN NoFd ELSE req[r].fd
    \/ /\ req[r].op = "unlink" /\ req[r].sio = NoSio /\ req[r].fd = NoFd
       /\ req[r].ret = NoFd

(* An object has one request at a time.                                      *)
OneRequest == \A r, q \in used :
    req[r].sio = req[q].sio /\ req[r].sio # NoSio => r = q

(* Its open, or its read.                                                    *)
Waits(s, op) == \E r \in used : req[r].op = op /\ req[r].sio = s

(* What the state of an object says.                                         *)
ObjectOkay(s) ==
    \/ sio[s] = FreeSio
    \/ sio[s] = [FreeSio EXCEPT !.state = "zombie"] /\ Waits(s, "open")
    \/ /\ SioLive(s) /\ (sio[s].opening <=> sio[s].fd = NoFd)
       /\ sio[s].opening => Waits(s, "open") /\ ~sio[s].reading
       /\ sio[s].reading => Waits(s, "read") /\ sio[s].mode = "R"
       /\ sio[s].reading => sio[s].user # "idle"
       /\ sio[s].close_request <=> sio[s].user = "gone"
       /\ sio[s].user = "reading" => sio[s].mode = "R"
       /\ sio[s].user = "reading" /\ ~sio[s].reading =>
              sio[s].opening /\ sio[s].pending_reads = 1
       /\ sio[s].user # "reading" \/ ~sio[s].opening => sio[s].pending_reads = 0

(* Every descriptor open is in one hand.                                     *)
OneHand == \A fd \in Fds : /\ fd \in fds <=> Hands(fd) # {}
                           /\ \A g, h \in Hands(fd) : g = h

FilesInv ==
    /\ AufsTypeOK /\ Blocks /\ OneRequest /\ OneHand /\ CountersExact
    /\ \A r \in Live : RequestOkay(r)
    /\ \A s \in Sios : ObjectOkay(s)

AufsInv == AiopsInv /\ FilesInv
-----------------------------------------------------------------------------
(* What the pool's steps do to the requests in use and to those not run. *)

(* The requests that threads are running.                                    *)
Running == {thread[t].req : t \in {u \in Threads : At(u, "busy")}}

(* The requests in use, by the queues of AsyncIo.                            *)
LEMMA InUse ==
  ASSUME AiopsInv
  PROVE  /\ TypeOK /\ HeldOnce
         /\ Live = Range(asked) \cup Taken \cup Range(done) /\ Live \subseteq Requests
         /\ NotRun = Range(asked) \cup Running /\ Running \subseteq Taken
         /\ cancelled \subseteq Live
         /\ IsInjective(asked) /\ IsInjective(done)
         /\ Range(asked) \cap Taken = {} /\ Range(asked) \cap Range(done) = {}
         /\ Taken \cap Range(done) = {}
  <1>1. TypeOK /\ HeldOnce /\ Abstract!OnePlace
    BY DEF AiopsInv, ThreadsInv
  <1>2. Live = Range(asked) \cup Taken \cup Range(done)
    BY <1>1, LiveSame
  <1>3. /\ asked \in Seq(Requests) /\ done \in Seq(Requests)
        /\ Taken \subseteq Requests
        /\ cancelled \subseteq Range(asked) \cup Taken \cup Range(done)
        /\ IsInjective(asked) /\ IsInjective(done)
        /\ Range(asked) \cap Taken = {} /\ Range(asked) \cap Range(done) = {}
        /\ Taken \cap Range(done) = {}
    BY <1>1 DEF asked, done, Abstract!OnePlace, Abstract!Live, Abstract!Range, Range,
                Abstract!IsInjective, IsInjective
  <1>4. Range(asked) = Queued
    BY <1>1, Typed, RangeConcatenation DEF asked, Queued
  <1>5. NotRun = Range(asked) \cup Running
    BY <1>4 DEF NotRun, Running
  <1>6. Running \subseteq Taken
    BY <1>1 DEF Running, Taken, HeldOnce
  <1>7. Range(asked) \subseteq Requests /\ Range(done) \subseteq Requests
    BY <1>3, RangeEquality
  <1>. QED
    BY <1>1, <1>2, <1>3, <1>5, <1>6, <1>7

(* The same after a step.                                                    *)
LEMMA InUseNext ==
  ASSUME TypeOK'
  PROVE  /\ Live' = Range(asked') \cup Taken' \cup Range(done')
         /\ NotRun' = Range(asked') \cup Running'
  <1>1. /\ request_queue' \in Seq(Requests) /\ request_queue2' \in Seq(Requests)
        /\ done_queue' \in Seq(Requests) /\ done_requests' \in Seq(Requests)
    BY DEF TypeOK
  <1>2. /\ Range(asked') = Range(request_queue') \cup Range(request_queue2')
        /\ Range(done') = Range(done_requests') \cup Range(done_queue')
    BY <1>1, RangeConcatenation DEF asked, done
  <1>. QED
    BY <1>2 DEF Live, NotRun, Queued, Running

(* What AsyncIo promises of the next state, in terms of the pool's own.      *)
LEMMA OnePlaceNext ==
  ASSUME asked' \in Seq(Requests), Taken' \subseteq Requests,
         done' \in Seq(Requests),
         cancelled' \subseteq Range(asked') \cup Taken' \cup Range(done'),
         IsInjective(asked'), IsInjective(done'),
         Range(asked') \cap Taken' = {}, Range(asked') \cap Range(done') = {},
         Taken' \cap Range(done') = {}
  PROVE  Abstract!OnePlace'
  BY DEF asked, done, Abstract!OnePlace, Abstract!Live, Abstract!Range, Range,
         Abstract!IsInjective, IsInjective

(* A signal changes nothing in what is being run.                            *)
LEMMA RunningSame ==
  ASSUME OnlyWoken
  PROVE  Running' = Running
  BY DEF OnlyWoken, Running, At

(* The main thread's own steps leave the requests in use where they are.     *)
LEMMA MainOwnStep ==
  ASSUME AiopsInv, MainStep, ~DropCancelled
  PROVE  AiopsInv' /\ Live' = Live /\ NotRun' = NotRun /\ cancelled' = cancelled
  <1>1. AiopsInv'
    <2>1. [Next]_aiovars
      BY DEF Next
    <2>. QED
      BY <2>1, AiopsInvStep
  <1>2. TypeOK /\ SomeoneAwake /\ LenExact /\ TypeOK'
    BY <1>1 DEF AiopsInv, ThreadsInv
  <1>3. cancelled' = cancelled
    BY DEF MainStep, SyncKick, SyncPoll, Select, squidaio_fdhandler, CheckCallbacks,
           ReadPipe, ResetSignalled, PollKick, PollCollect, NothingDone
  <1>4. asked' = asked /\ done' = done /\ Taken' = Taken /\ Running' = Running
    <2>1. CASE SyncKick \/ PollKick
      <3>1. KickRequests /\ done_queue' = done_queue /\ done_requests' = done_requests
        BY <2>1 DEF SyncKick, PollKick
      <3>2. asked' = asked /\ OnlyWoken
        BY <1>2, <3>1, Kick
      <3>. QED
        BY <3>1, <3>2, RunningSame, TakenSame DEF OnlyWoken, done
    <2>2. CASE SyncPoll \/ PollCollect
      <3>1. PollDoneQueue /\ UNCHANGED <<request_queue, request_queue2, thread>>
        BY <2>2 DEF SyncPoll, PollCollect
      <3>2. done' = done
        BY <1>2, <3>1, Poll
      <3>. QED
        BY <3>1, <3>2 DEF asked, Taken, Running, At
    <2>3. CASE \/ Select \/ squidaio_fdhandler \/ CheckCallbacks
               \/ ReadPipe \/ ResetSignalled \/ NothingDone
      <3>1. UNCHANGED <<pool, done_queue, done_requests, thread>>
        BY <2>3 DEF Select, squidaio_fdhandler, CheckCallbacks, ReadPipe,
                    ResetSignalled, NothingDone
      <3>. QED
        BY <3>1 DEF asked, done, Taken, Running, At, pool
    <2>. QED
      BY <2>1, <2>2, <2>3 DEF MainStep
  <1>. QED
    BY <1>1, <1>2, <1>3, <1>4, InUse, InUseNext

(* So do the threads' steps but the system call.                             *)
LEMMA ThreadOwnStep ==
  ASSUME AiopsInv, NEW t \in Threads, ThreadStep(t)
  PROVE  AiopsInv' /\ Live' = Live /\ NotRun' = NotRun /\ cancelled' = cancelled
  <1>1. AiopsInv'
    <2>1. [Next]_aiovars
      BY DEF Next
    <2>. QED
      BY <2>1, AiopsInvStep
  <1>2. TypeOK /\ HeldOnce /\ thread \in [Threads -> ThreadType]
    BY Typed DEF AiopsInv, ThreadsInv
  <1>3. cancelled' = cancelled
    BY DEF ThreadStep, LockRequests, TakeRequest, Sleep, LockDone, UnlockDone,
           TestSignalled, SetSignalled, WritePipe
  <1>4. CASE TakeRequest(t)
    <2>1. /\ thread[t].status = "locked" /\ request_queue # <<>>
          /\ thread' = [thread EXCEPT ![t] = [status |-> "busy",
                                              req |-> Head(request_queue)]]
          /\ request_queue' = Tail(request_queue)
          /\ UNCHANGED <<request_queue2, done_queue, done_requests>>
      BY <1>4 DEF TakeRequest, At
    <2>2. /\ Range(request_queue) = {Head(request_queue)} \cup Range(request_queue')
          /\ Head(request_queue) \in Requests
      BY <1>2, <2>1, Typed, RangeOfTail
    <2>3. /\ thread[t].req = NoRequest
          /\ thread'[t].req = Head(request_queue) /\ thread'[t].status = "busy"
          /\ \A u \in Threads \ {t} : thread'[u] = thread[u]
      BY <1>2, <2>1 DEF HeldOnce, At
    <2>4. Taken' = Taken \cup {Head(request_queue)}
      BY <1>2, <2>2, <2>3, TakenMore
    <2>5. Running' = Running \cup {Head(request_queue)}
      BY <2>1, <2>3 DEF Running, At
    <2>6. Queued = Queued' \cup {Head(request_queue)}
      BY <2>1, <2>2 DEF Queued
    <2>7. Live' = Live
      BY <2>1, <2>4, <2>6 DEF Live
    <2>8. NotRun' = NotRun
      <3>1. NotRun = Queued \cup Running /\ NotRun' = Queued' \cup Running'
        BY DEF NotRun, Running
      <3>. QED
        BY <2>5, <2>6, <3>1
    <2>. QED
      BY <1>1, <1>3, <2>7, <2>8
  <1>5. CASE LockDone(t)
    <2>1. /\ thread[t].status = "finished"
          /\ thread' = [thread EXCEPT ![t] = [status |-> "appending",
                                              req |-> NoRequest]]
          /\ done_queue' = Append(done_queue, thread[t].req)
          /\ UNCHANGED <<request_queue, request_queue2, done_requests>>
      BY <1>5 DEF LockDone, At, pool
    <2>2. /\ thread[t].req # NoRequest /\ thread[t].req \in Requests
          /\ thread'[t].req = NoRequest /\ thread'[t].status = "appending"
          /\ \A u \in Threads \ {t} : thread'[u] = thread[u]
      BY <1>2, <2>1, Typed DEF HeldOnce, At
    <2>3. Taken' = Taken \ {thread[t].req} /\ thread[t].req \in Taken
      BY <1>2, <2>2, TakenLess DEF Taken
    <2>4. Range(done_queue') = Range(done_queue) \cup {thread[t].req}
      BY <1>2, <2>1, <2>2, Typed, RangeOfAppend
    <2>5. Running' = Running
      BY <2>1, <2>2 DEF Running, At
    <2>6. Queued' = Queued
      BY <2>1 DEF Queued
    <2>7. Live' = Live
      BY <2>1, <2>3, <2>4, <2>6 DEF Live
    <2>8. NotRun' = NotRun
      <3>1. NotRun = Queued \cup Running /\ NotRun' = Queued' \cup Running'
        BY DEF NotRun, Running
      <3>. QED
        BY <2>5, <2>6, <3>1
    <2>. QED
      BY <1>1, <1>3, <2>7, <2>8
  <1>6. CASE \/ LockRequests(t) \/ Sleep(t) \/ UnlockDone(t)
             \/ TestSignalled(t) \/ SetSignalled(t) \/ WritePipe(t)
    <2>1. PICK s \in Status \ {"busy"} : Move(t, s)
      BY <1>6, Zenon DEF LockRequests, Sleep, UnlockDone, TestSignalled, SetSignalled,
                  WritePipe, Status
    <2>2. /\ thread[t].status # "busy"
          /\ UNCHANGED <<pool, done_queue, done_requests>>
      BY <1>6 DEF LockRequests, Sleep, UnlockDone, TestSignalled, SetSignalled,
                  WritePipe, At
    <2>3. /\ thread'[t].status # "busy"
          /\ \A u \in Threads : thread'[u].req = thread[u].req
          /\ \A u \in Threads \ {t} : thread'[u].status = thread[u].status
      BY <1>2, <2>1, Moved
    <2>4. Taken' = Taken /\ Running' = Running
      BY <2>2, <2>3, TakenSame DEF Running, At
    <2>. QED
      BY <1>1, <1>3, <2>2, <2>4 DEF Live, NotRun, Running, Queued, pool
  <1>. QED
    BY <1>4, <1>5, <1>6 DEF ThreadStep

(* The system call of a request: it has been run, and stays in use.          *)
LEMMA RunOwnStep ==
  ASSUME AiopsInv, NEW t \in Threads, RunRequest(t)
  PROVE  /\ AiopsInv' /\ Live' = Live /\ cancelled' = cancelled
         /\ thread[t].req \in NotRun /\ NotRun' = NotRun \ {thread[t].req}
  <1>1. AiopsInv'
    <2>1. [Next]_aiovars
      BY DEF Next
    <2>. QED
      BY <2>1, AiopsInvStep
  <1>2. TypeOK /\ HeldOnce /\ thread \in [Threads -> ThreadType]
    BY Typed DEF AiopsInv, ThreadsInv
  <1>3. /\ thread[t].status = "busy" /\ Move(t, "finished") /\ "finished" \in Status
        /\ UNCHANGED <<pool, done_queue, done_requests, cancelled>>
    BY DEF RunRequest, At, Status
  <1>4. /\ thread'[t].status = "finished"
        /\ \A u \in Threads : thread'[u].req = thread[u].req
        /\ \A u \in Threads \ {t} : thread'[u].status = thread[u].status
    BY <1>2, <1>3, Moved
  <1>5. Taken' = Taken
    BY <1>4, TakenSame
  <1>6. thread[t].req \in Running /\ Running' = Running \ {thread[t].req}
    BY <1>2, <1>3, <1>4 DEF Running, HeldOnce, At
  <1>7. thread[t].req \notin Range(asked)
    BY <1>6, InUse
  <1>8. asked' = asked /\ done' = done
    BY <1>3 DEF asked, done, pool
  <1>9. TypeOK'
    BY <1>1 DEF AiopsInv, ThreadsInv
  <1>. QED
    BY <1>1, <1>3, <1>5, <1>6, <1>7, <1>8, <1>9, InUse, InUseNext

(* The oldest finished request is no longer in use; it has been run.         *)
LEMMA OldestFreed ==
  ASSUME AiopsInv, done_requests # <<>>, done_requests' = Tail(done_requests),
         done_queue' = done_queue
  PROVE  LET r == Head(done_requests) IN
         /\ r \in Live /\ r \notin NotRun /\ r \in Requests
         /\ done_requests' \in Seq(Requests) /\ done' \in Seq(Requests)
         /\ IsInjective(done') /\ r \notin Range(done')
         /\ Range(done) = Range(done') \cup {r}
         /\ r \notin Range(asked) /\ r \notin Taken
  <1>0. TypeOK
    BY DEF AiopsInv, ThreadsInv
  <1>1. /\ done_requests' \in Seq(Requests) /\ Head(done_requests) \in Requests
        /\ done # <<>> /\ Head(done) = Head(done_requests) /\ done' = Tail(done)
    BY <1>0, OldestDone
  <1>2. done \in Seq(Requests) /\ IsInjective(done)
    BY <1>0, Typed, InUse
  <1>3. /\ Tail(done) \in Seq(Requests) /\ IsInjective(Tail(done))
        /\ Head(done) \notin Range(Tail(done))
        /\ Range(done) = {Head(done)} \cup Range(Tail(done))
    BY <1>1, <1>2, RangeOfTail, TailOnce
  <1>. QED
    BY <1>1, <1>3, InUse

(* A cancelled request is cleaned up.                                        *)
LEMMA DropOwnStep ==
  ASSUME AiopsInv, DropCancelled
  PROVE  LET r == Head(done_requests) IN
         /\ AiopsInv' /\ Live' = Live \ {r} /\ NotRun' = NotRun
         /\ cancelled' = cancelled \ {r} /\ r \in cancelled /\ r \notin NotRun
  <1>1. AiopsInv'
    <2>1. [Next]_aiovars
      BY DEF Next, MainStep
    <2>. QED
      BY <2>1, AiopsInvStep
  <1>2. /\ done_requests # <<>> /\ done_requests' = Tail(done_requests)
        /\ Head(done_requests) \in cancelled
        /\ cancelled' = cancelled \ {Head(done_requests)}
        /\ UNCHANGED <<pool, done_queue, thread>>
    BY DEF DropCancelled
  <1>3. /\ Head(done_requests) \notin NotRun /\ Head(done_requests) \notin Range(done')
        /\ Range(done) = Range(done') \cup {Head(done_requests)}
        /\ Head(done_requests) \notin Range(asked) /\ Head(done_requests) \notin Taken
    BY <1>2, OldestFreed
  <1>4. asked' = asked /\ Taken' = Taken /\ Running' = Running
    BY <1>2 DEF asked, Taken, Running, At, pool
  <1>5. TypeOK'
    BY <1>1 DEF AiopsInv, ThreadsInv
  <1>. QED
    BY <1>1, <1>2, <1>3, <1>4, <1>5, InUse, InUseNext

(* A handler cancels some of the requests in use.                            *)
LEMMA CancelOwnStep ==
  ASSUME AiopsInv, NoAsk, NoDone, cancelled' \subseteq Live
  PROVE  AiopsInv' /\ Live' = Live /\ NotRun' = NotRun
  <1>0. /\ TypeOK /\ HeldOnce /\ SomeoneAwake /\ LenExact /\ FlagHasByte
        /\ SeenOrAnnounced
    BY DEF AiopsInv, ThreadsInv
  <1>1. UNCHANGED <<pool, done_queue, done_requests, thread, done_signalled, pipe,
                    main, back>>
    BY DEF NoAsk, NoDone
  <1>2. asked' = asked /\ done' = done /\ Taken' = Taken /\ Running' = Running
    BY <1>1 DEF asked, done, Taken, Running, At, pool
  <1>3. TypeOK'
    <2>1. cancelled' \subseteq Requests
      BY InUse
    <2>. QED
      BY <1>0, <1>1, <2>1 DEF TypeOK, pool
  <1>4. HeldOnce' /\ SomeoneAwake' /\ LenExact'
    BY <1>0, <1>1, <1>2 DEF HeldOnce, SomeoneAwake, At, LenExact, pool
  <1>5. ByteComing' = ByteComing /\ Announced' = Announced
    BY <1>1 DEF ByteComing, Announced, At
  <1>6. FlagHasByte' /\ SeenOrAnnounced'
    BY <1>0, <1>1, <1>5 DEF FlagHasByte, SeenOrAnnounced
  <1>7. Abstract!OnePlace'
    <2>1. asked' \in Seq(Requests) /\ done' \in Seq(Requests) /\ Taken' \subseteq Requests
      BY <1>0, <1>2, Typed, InUse
    <2>. QED
      BY <1>2, <2>1, InUse, OnePlaceNext
  <1>. QED
    BY <1>2, <1>3, <1>4, <1>6, <1>7, InUse, InUseNext DEF AiopsInv, ThreadsInv

(* A handler asks for something, in a structure that is free.                *)
LEMMA AskOwnStep ==
  ASSUME AiopsInv, NEW q \in Requests, q \notin Live,
         squidaio_queue_request(q, "handlers"), NoDone, cancelled' = cancelled
  PROVE  AiopsInv' /\ Live' = Live \cup {q} /\ NotRun' = NotRun \cup {q}
  <1>0. TypeOK
    BY DEF AiopsInv, ThreadsInv
  <1>1. UNCHANGED <<done_queue, done_requests, done_signalled, pipe>>
    BY DEF NoDone
  <1>2. /\ ThreadsInv' /\ asked' = Append(asked, q) /\ Taken' = Taken
    BY <1>0, <1>1, Typed, QueueKeeps DEF TypeOK
  <1>3. Running' = Running
    BY <1>0, QueueRequest, RunningSame DEF AiopsInv, ThreadsInv
  <1>4. Abstract!Submit(q)
    BY <1>0, <1>1, <1>2, LiveSame DEF Abstract!Submit, asked
  <1>5. AiopsInv'
    BY <1>2, <1>4, OnePlaceStep DEF AiopsInv, Abstract!Next
  <1>6. TypeOK' /\ done' = done /\ Range(asked') = Range(asked) \cup {q}
    BY <1>0, <1>1, <1>2, Typed, RangeOfAppend DEF ThreadsInv, done
  <1>. QED
    BY <1>2, <1>3, <1>5, <1>6, InUse, InUseNext

(* The oldest finished request is answered and its callback asks nothing.    *)
LEMMA AnswerOwnStep ==
  ASSUME AiopsInv, NEW r, TakeDone(r), NoAskFrom(r), cancelled' \subseteq Live \ {r}
  PROVE  /\ AiopsInv' /\ Live' = Live \ {r} /\ NotRun' = NotRun
         /\ r \in Live /\ r \notin NotRun
  <1>0. TypeOK /\ HeldOnce /\ SomeoneAwake /\ LenExact
    BY DEF AiopsInv, ThreadsInv
  <1>1. /\ done_requests # <<>> /\ done_requests' = Tail(done_requests)
        /\ r = Head(done_requests) /\ main' = "check"
        /\ UNCHANGED <<pool, thread, back, done_queue, done_signalled, pipe>>
    BY DEF TakeDone, NoAskFrom
  <1>2. /\ r \in Live /\ r \notin NotRun /\ r \in Requests
        /\ done_requests' \in Seq(Requests) /\ done' \in Seq(Requests)
        /\ IsInjective(done') /\ r \notin Range(done')
        /\ Range(done) = Range(done') \cup {r}
        /\ r \notin Range(asked) /\ r \notin Taken
    BY <1>1, OldestFreed
  <1>3. asked' = asked /\ Taken' = Taken /\ Running' = Running
    BY <1>1 DEF asked, Taken, Running, At, pool
  <1>4. TypeOK'
    <2>1. cancelled' \subseteq Requests
      BY InUse
    <2>. QED
      BY <1>0, <1>1, <1>2, <2>1 DEF TypeOK, pool
  <1>5. HeldOnce' /\ SomeoneAwake' /\ LenExact'
    BY <1>0, <1>1, <1>3 DEF HeldOnce, SomeoneAwake, At, LenExact, pool
  <1>6. FlagHasByte' /\ SeenOrAnnounced'
    BY <1>1 DEF FlagHasByte, SeenOrAnnounced
  <1>7. Abstract!OnePlace'
    <2>1. asked' \in Seq(Requests) /\ Taken' \subseteq Requests
      BY <1>0, <1>3, Typed, InUse
    <2>2. cancelled' \subseteq Range(asked') \cup Taken' \cup Range(done')
      BY <1>2, <1>3, InUse
    <2>. QED
      BY <1>2, <1>3, <2>1, <2>2, InUse, OnePlaceNext
  <1>8. AiopsInv'
    BY <1>4, <1>5, <1>6, <1>7 DEF AiopsInv, ThreadsInv
  <1>9. Live' = Live \ {r}
    BY <1>2, <1>3, <1>4, InUse, InUseNext
  <1>. QED
    BY <1>2, <1>3, <1>4, <1>8, <1>9, InUse, InUseNext

(* It is answered and its callback asks for something, in a structure that   *)
(* is free by then.                                                          *)
LEMMA AnswerAskOwnStep ==
  ASSUME AiopsInv, NEW r, TakeDone(r), NEW q \in FreedBy(r),
         squidaio_queue_request(q, "check"), cancelled' \subseteq Live \ {r}
  PROVE  /\ AiopsInv' /\ Live' = (Live \ {r}) \cup {q} /\ NotRun' = NotRun \cup {q}
         /\ r \in Live /\ r \notin NotRun /\ q \in Requests
         /\ q \notin NotRun /\ (q = r \/ q \notin Live)
  <1>0. TypeOK
    BY DEF AiopsInv, ThreadsInv
  <1>1. /\ done_requests # <<>> /\ done_requests' = Tail(done_requests)
        /\ r = Head(done_requests)
        /\ UNCHANGED <<done_queue, done_signalled, pipe>>
    BY DEF TakeDone
  <1>2. /\ r \in Live /\ r \notin NotRun /\ r \in Requests
        /\ done_requests' \in Seq(Requests) /\ done' \in Seq(Requests)
        /\ IsInjective(done') /\ r \notin Range(done')
        /\ Range(done) = Range(done') \cup {r}
        /\ r \notin Range(asked) /\ r \notin Taken
    BY <1>1, OldestFreed
  <1>3. q \in Requests /\ (q = r \/ q \notin Live) /\ cancelled' \subseteq Requests
    BY <1>2, InUse DEF FreedBy
  <1>4. ThreadsInv' /\ asked' = Append(asked, q) /\ Taken' = Taken
    BY <1>1, <1>2, <1>3, QueueKeeps
  <1>5. Running' = Running
    BY <1>0, <1>3, QueueRequest, RunningSame DEF AiopsInv, ThreadsInv
  <1>6. q \notin Range(asked) /\ q \notin Taken /\ q \notin Range(done') /\ q \notin NotRun
    BY <1>2, <1>3, InUse
  <1>7. /\ asked' \in Seq(Requests) /\ IsInjective(asked')
        /\ Range(asked') = Range(asked) \cup {q}
    BY <1>0, <1>3, <1>4, <1>6, Typed, InUse, AppendProperties, AppendOnce, RangeOfAppend
  <1>8. cancelled' \subseteq Range(asked') \cup Taken' \cup Range(done')
    BY <1>2, <1>4, <1>7, InUse
  <1>9. Abstract!OnePlace'
    BY <1>2, <1>4, <1>6, <1>7, <1>8, InUse, OnePlaceNext
  <1>10. TypeOK'
    BY <1>4 DEF ThreadsInv
  <1>. QED
    BY <1>2, <1>3, <1>4, <1>5, <1>6, <1>7, <1>9, <1>10, InUse, InUseNext DEF AiopsInv
-----------------------------------------------------------------------------
(* The files. *)

(* A request that the step does not touch stays as it should be.             *)
LEMMA RequestKept ==
  ASSUME NEW r, RequestOkay(r), req'[r] = req[r], r \in NotRun' <=> r \in NotRun,
         req[r].op \in {"open", "read"} /\ r \in used =>
             r \in used' /\ sio'[req[r].sio] = sio[req[r].sio]
  PROVE  RequestOkay(r)'
  BY DEF RequestOkay, SioLive

(* So does an object that the step does not touch, if what it waits for      *)
(* stays.                                                                    *)
LEMMA ObjectKept ==
  ASSUME NEW s, ObjectOkay(s), sio'[s] = sio[s],
         \A r \in used : req[r].sio = s /\ req[r].op \in {"open", "read"} =>
             r \in used' /\ req'[r].op = req[r].op /\ req'[r].sio = s
  PROVE  ObjectOkay(s)'
  <1>1. Waits(s, "open") => Waits(s, "open")'
    BY DEF Waits
  <1>2. Waits(s, "read") => Waits(s, "read")'
    BY DEF Waits
  <1>. QED
    BY <1>1, <1>2 DEF ObjectOkay, SioLive

(* A request that has an object is its open or its read.                     *)
LEMMA Asker ==
  ASSUME FilesInv, NEW r \in used, NEW s \in Sios, req[r].sio = s
  PROVE  /\ r \in Live /\ r \in Requests
         /\ \/ req[r].op = "open" /\ sio[s].fd = NoFd /\ ~sio[s].reading
               /\ (sio[s].state = "zombie" \/ (SioLive(s) /\ sio[s].opening))
            \/ req[r].op = "read" /\ SioLive(s) /\ sio[s].fd = req[r].fd
               /\ sio[s].reading /\ ~sio[s].opening /\ sio[s].mode = "R"
  <1>1. r \in Live /\ r \in Requests
    BY DEF FilesInv, Blocks, AufsTypeOK
  <1>2. RequestOkay(r) /\ ObjectOkay(s)
    BY <1>1 DEF FilesInv
  <1>3. s # NoSio
    BY AufsAssumption
  <1>4. SioLive(s) => ObjectOkay(s)!3
    BY <1>2 DEF ObjectOkay, SioLive, FreeSio
  <1>5. sio[s].state = "zombie" => ~sio[s].reading
    BY <1>2 DEF ObjectOkay, SioLive, FreeSio
  <1>6. CASE req[r].op = "open"
    <2>1. /\ sio[s].fd = NoFd
          /\ sio[s].state = "zombie" \/ (SioLive(s) /\ sio[s].opening)
      BY <1>2, <1>6 DEF RequestOkay, SioLive
    <2>2. ~sio[s].reading
      BY <1>4, <1>5, <2>1
    <2>. QED
      BY <1>1, <1>6, <2>1, <2>2
  <1>7. CASE req[r].op = "read"
    <2>1. SioLive(s) /\ sio[s].fd = req[r].fd /\ sio[s].reading
      BY <1>2, <1>7 DEF RequestOkay
    <2>2. ~sio[s].opening /\ sio[s].mode = "R"
      BY <1>4, <2>1
    <2>. QED
      BY <1>1, <1>7, <2>1, <2>2
  <1>. QED
    BY <1>2, <1>3, <1>6, <1>7 DEF RequestOkay

(* A descriptor that is in one hand is open, and in no other.                *)
LEMMA InHand ==
  ASSUME FilesInv, NEW fd \in Fds, NEW h \in Hands(fd)
  PROVE  fd \in fds /\ Hands(fd) = {h}
  BY DEF FilesInv, OneHand

(* What aioCancel finds when a descriptor in the hand of h is closed: closes *)
(* that a thread has made, the read of h, or h itself.                       *)
LEMMA CancelFinds ==
  ASSUME FilesInv, NEW fd \in Fds, NEW h \in Hands(fd), NEW c \in CancelledBy(fd)
  PROVE  /\ c \in used /\ c \in Live
         /\ \/ req[c].op = "close" /\ c \notin NotRun
            \/ req[c].op = "close" /\ c = h
            \/ req[c].op = "read" /\ req[c].sio = h
  <1>1. /\ c \in used /\ req[c].fd = fd /\ req[c].op \in {"read", "close"}
    BY DEF CancelledBy
  <1>2. c \in Live /\ RequestOkay(c)
    BY <1>1 DEF FilesInv, Blocks
  <1>3. CASE req[c].op = "close" /\ c \in NotRun
    <2>1. c \in Hands(fd)
      BY <1>1, <1>3 DEF Hands
    <2>. QED
      BY <1>1, <1>2, <1>3, <2>1, InHand
  <1>4. CASE req[c].op = "read"
    <2>1. req[c].sio \in Sios /\ sio[req[c].sio].fd = fd
      BY <1>1, <1>2, <1>4 DEF RequestOkay
    <2>2. req[c].sio \in Hands(fd)
      BY <2>1 DEF Hands
    <2>. QED
      BY <1>1, <1>2, <1>4, <2>2, InHand
  <1>. QED
    BY <1>1, <1>2, <1>3, <1>4

(* One member more or less.                                                  *)
LEMMA OneMore ==
  ASSUME NEW S, NEW T, NEW x, IsFiniteSet(S), x \notin S, T = S \cup {x}
  PROVE  Cardinality(S) \in Nat /\ Cardinality(T) = Cardinality(S) + 1
  BY FS_AddElement, FS_CardinalityType

(* How the two counts of objects change when one object does.                *)
LEMMA Counted ==
  ASSUME FilesInv, NEW s \in Sios, \A x \in Sios \ {s} : sio'[x] = sio[x],
         sio'[s].opening \in BOOLEAN
  PROVE  LET n == Cardinality({x \in Sios : sio[x].opening})
             m == Cardinality({x \in Sios : sio'[x].opening})
             k == Cardinality({x \in Sios : sio[x].fd # NoFd})
             l == Cardinality({x \in Sios : sio'[x].fd # NoFd})
         IN  /\ n \in Nat /\ m \in Nat /\ k \in Nat /\ l \in Nat
             /\ sio[s].opening = sio'[s].opening => m = n
             /\ sio[s].opening /\ ~sio'[s].opening => n = m + 1
             /\ ~sio[s].opening /\ sio'[s].opening => m = n + 1
             /\ (sio[s].fd = NoFd <=> sio'[s].fd = NoFd) => l = k
             /\ sio[s].fd # NoFd /\ sio'[s].fd = NoFd => k = l + 1
             /\ sio[s].fd = NoFd /\ sio'[s].fd # NoFd => l = k + 1
  <1> DEFINE N == {x \in Sios : sio[x].opening}
             M == {x \in Sios : sio'[x].opening}
             K == {x \in Sios : sio[x].fd # NoFd}
             L == {x \in Sios : sio'[x].fd # NoFd}
  <1>1. IsFiniteSet(N) /\ IsFiniteSet(M) /\ IsFiniteSet(K) /\ IsFiniteSet(L)
    BY AufsAssumption, FS_Subset
  <1>2. /\ Cardinality(N) \in Nat /\ Cardinality(M) \in Nat
        /\ Cardinality(K) \in Nat /\ Cardinality(L) \in Nat
    BY <1>1, FS_CardinalityType
  <1>3. sio[s].opening = sio'[s].opening => M = N
    OBVIOUS
  <1>4. sio[s].opening /\ ~sio'[s].opening => s \notin M /\ N = M \cup {s}
    OBVIOUS
  <1>5. ~sio[s].opening /\ sio'[s].opening => s \notin N /\ M = N \cup {s}
    OBVIOUS
  <1>6. (sio[s].fd = NoFd <=> sio'[s].fd = NoFd) => L = K
    OBVIOUS
  <1>7. sio[s].fd # NoFd /\ sio'[s].fd = NoFd => s \notin L /\ K = L \cup {s}
    OBVIOUS
  <1>8. sio[s].fd = NoFd /\ sio'[s].fd # NoFd => s \notin K /\ L = K \cup {s}
    OBVIOUS
  <1> HIDE DEF N, M, K, L
  <1>9. /\ sio[s].opening = sio'[s].opening => Cardinality(M) = Cardinality(N)
        /\ sio[s].opening /\ ~sio'[s].opening => Cardinality(N) = Cardinality(M) + 1
        /\ ~sio[s].opening /\ sio'[s].opening => Cardinality(M) = Cardinality(N) + 1
    BY <1>1, <1>3, <1>4, <1>5, OneMore
  <1>10. /\ (sio[s].fd = NoFd <=> sio'[s].fd = NoFd) => Cardinality(L) = Cardinality(K)
         /\ sio[s].fd # NoFd /\ sio'[s].fd = NoFd => Cardinality(K) = Cardinality(L) + 1
         /\ sio[s].fd = NoFd /\ sio'[s].fd # NoFd => Cardinality(L) = Cardinality(K) + 1
    BY <1>1, <1>6, <1>7, <1>8, OneMore
  <1>. QED
    BY <1>2, <1>9, <1>10 DEF N, M, K, L

(* A system call is made for a request: nothing changes but its answer and   *)
(* the descriptors open.                                                     *)
LEMMA RunKeeps ==
  ASSUME AiopsInv, FilesInv, NEW r \in NotRun, Live' = Live, NotRun' = NotRun \ {r},
         UNCHANGED <<used, sio, cancelled, Opening_FD, store_open_disk_fd>>,
         req' \in [Requests -> RequestType], fds' \subseteq Fds,
         \A x \in Requests \ {r} : req'[x] = req[x],
         req'[r].op = req[r].op, req'[r].sio = req[r].sio,
         RequestOkay(r)', OneHand'
  PROVE  FilesInv'
  <1>0. /\ AufsTypeOK /\ Blocks /\ OneRequest /\ CountersExact
        /\ \A x \in Live : RequestOkay(x)
        /\ \A s \in Sios : ObjectOkay(s)
        /\ Live \subseteq Requests
    BY InUse DEF FilesInv
  <1>1. /\ \A x \in Requests : req'[x].op = req[x].op /\ req'[x].sio = req[x].sio
        /\ used \subseteq Requests /\ cancelled \subseteq Requests
    BY <1>0 DEF Blocks
  <1>2. AufsTypeOK'
    BY <1>0 DEF AufsTypeOK
  <1>3. Blocks'
    BY <1>0, <1>1 DEF Blocks
  <1>4. OneRequest'
    BY <1>0, <1>1 DEF OneRequest
  <1>5. CountersExact'
    BY <1>0 DEF CountersExact
  <1>6. ASSUME NEW x \in Live PROVE RequestOkay(x)'
    BY <1>0, RequestKept
  <1>7. ASSUME NEW s \in Sios PROVE ObjectOkay(s)'
    BY <1>0, <1>1, ObjectKept
  <1>. QED
    BY <1>2, <1>3, <1>4, <1>5, <1>6, <1>7 DEF FilesInv

(* The system calls: an open gives a descriptor that nobody holds to its     *)
(* request, a close takes one from it.                                       *)
LEMMA RunStep ==
  ASSUME AufsInv, NEW t \in Threads, Run(t)
  PROVE  AufsInv'
  <1>0. AiopsInv /\ FilesInv
    BY DEF AufsInv
  <1>1. RunRequest(t)
    BY DEF Run, squidaio_do_open, squidaio_do_close, RunOther
  <1>2. PICK r : /\ r = thread[t].req
                 /\ AiopsInv' /\ Live' = Live /\ cancelled' = cancelled
                 /\ r \in NotRun /\ NotRun' = NotRun \ {r}
    BY <1>0, <1>1, RunOwnStep
  <1>3. /\ UNCHANGED <<used, sio, Opening_FD, store_open_disk_fd>>
        /\ squidaio_do_open(t, r) \/ squidaio_do_close(t, r) \/ RunOther(t, r)
    BY <1>2 DEF Run
  <1>4. /\ r \in Live /\ r \in Requests /\ r \in used /\ r \notin cancelled
        /\ RequestOkay(r) /\ AufsTypeOK /\ OneHand /\ r \notin Sios
        /\ NotRun \subseteq Live /\ Live \subseteq Requests
    BY <1>0, <1>2, InUse, AufsAssumption DEF FilesInv, Blocks
  <1>5. /\ req \in [Requests -> RequestType] /\ fds \subseteq Fds
        /\ NoFd \notin Fds
    BY <1>4, AufsAssumption DEF AufsTypeOK
  <1>6. CASE UNCHANGED <<req, fds>> /\ req[r].op \in {"open", "read", "unlink"}
    <2>1. RequestOkay(r)'
      BY <1>2, <1>3, <1>4, <1>6 DEF RequestOkay, SioLive
    <2>2. \A fd : Hands(fd)' = Hands(fd)
      BY <1>2, <1>3, <1>6 DEF Hands
    <2>3. OneHand'
      BY <1>4, <1>6, <2>2 DEF OneHand
    <2>. QED
      BY <1>0, <1>2, <1>3, <1>5, <1>6, <2>1, <2>3, RunKeeps DEF AufsInv
  <1>7. ASSUME NEW f \in Fds \ fds, req[r].op = "open",
               req' = [req EXCEPT ![r].ret = f], fds' = fds \cup {f}
        PROVE  AufsInv'
    <2>1. /\ req' \in [Requests -> RequestType] /\ fds' \subseteq Fds
      BY <1>4, <1>5, <1>7 DEF RequestType
    <2>2. /\ \A x \in Requests \ {r} : req'[x] = req[x]
          /\ req'[r].op = "open" /\ req'[r].sio = req[r].sio
          /\ req'[r].fd = req[r].fd /\ req'[r].ret = f /\ req[r].ret = NoFd
      BY <1>2, <1>4, <1>5, <1>7 DEF RequestType, RequestOkay
    <2>3. RequestOkay(r)'
      BY <1>2, <1>3, <1>4, <1>7, <2>2 DEF RequestOkay, SioLive
    <2>4. \A fd \in Fds \ {f} : Hands(fd)' = Hands(fd)
      BY <1>2, <1>3, <1>4, <1>5, <1>7, <2>2 DEF Hands
    <2>5. Hands(f) = {} /\ Hands(f)' = Hands(f) \cup {r}
      BY <1>2, <1>3, <1>4, <1>5, <1>7, <2>2 DEF Hands, OneHand
    <2>6. OneHand'
      BY <1>4, <1>7, <2>4, <2>5 DEF OneHand
    <2>. QED
      BY <1>0, <1>2, <1>3, <1>7, <2>1, <2>2, <2>3, <2>6, RunKeeps DEF AufsInv
  <1>8. ASSUME req[r].op = "close", req' = [req EXCEPT ![r].ret = req[r].fd],
               fds' = fds \ {req[r].fd}
        PROVE  AufsInv'
    <2>0. PICK f \in Fds : f = req[r].fd /\ req[r].sio = NoSio
      BY <1>4, <1>8 DEF RequestOkay
    <2>1. /\ req' \in [Requests -> RequestType] /\ fds' \subseteq Fds
      BY <1>4, <1>5, <1>8, <2>0 DEF RequestType
    <2>2. /\ \A x \in Requests \ {r} : req'[x] = req[x]
          /\ req'[r].op = "close" /\ req'[r].sio = NoSio
          /\ req'[r].fd = f /\ req'[r].ret = f
      BY <1>4, <1>5, <1>8, <2>0 DEF RequestType
    <2>3. RequestOkay(r)'
      BY <1>2, <2>0, <2>2 DEF RequestOkay
    <2>4. r \in Hands(f)
      BY <1>2, <1>8, <2>0 DEF Hands
    <2>5. Hands(f) = {r}
      BY <1>0, <2>0, <2>4, InHand
    <2>6. \A fd \in Fds \ {f} : Hands(fd)' = Hands(fd)
      BY <1>2, <1>3, <1>4, <1>8, <2>0, <2>2 DEF Hands
    <2>7. Hands(f)' = Hands(f) \ {r}
      BY <1>2, <1>3, <1>4, <1>8, <2>0, <2>2 DEF Hands
    <2>8. OneHand'
      BY <1>4, <1>8, <2>0, <2>5, <2>6, <2>7 DEF OneHand
    <2>. QED
      BY <1>0, <1>2, <1>3, <1>8, <2>0, <2>1, <2>2, <2>3, <2>8, RunKeeps DEF AufsInv
  <1>. QED
    BY <1>3, <1>4, <1>6, <1>7, <1>8 DEF squidaio_do_open, squidaio_do_close, RunOther
-----------------------------------------------------------------------------
(* A step in which the requests of F are answered or dropped, those of N are *)
(* asked, those of C are cancelled, and no object but s changes.             *)
FileStep(F, N, C, s) ==
    /\ F \subseteq Live \ NotRun /\ N \subseteq Requests \ (Live \ F)
    /\ \A p, q \in N : p = q
    /\ Live' = (Live \ F) \cup N /\ NotRun' = NotRun \cup N
    /\ C \subseteq used \ F
    /\ \A c \in C : req[c].op = "close" /\ c \notin NotRun
    /\ used' = (used \ (F \cup C)) \cup N /\ cancelled' = (cancelled \cup C) \ F
    /\ \A x \in Requests \ (F \cup N) : req'[x] = req[x]
    /\ \A x \in Sios \ {s} : sio'[x] = sio[x]
    /\ \A r \in F : req[r].sio \in {s, NoSio}
    /\ \A q \in N : req'[q].ret = NoFd /\ req'[q].sio \in {s, NoSio}

(* The hands that hold a descriptor after such a step.                       *)
LEMMA HandsNext ==
  ASSUME AiopsInv, FilesInv, NEW F, NEW N, NEW C, NEW s, FileStep(F, N, C, s),
         NEW fd \in Fds, NEW h
  PROVE  h \in Hands(fd)' <=>
           \/ h \in Hands(fd) /\ h \notin Sios \cap {s} /\ h \notin F
           \/ h \in Sios /\ h = s /\ sio'[s].fd = fd
           \/ h \in N /\ req'[h].op = "close" /\ req'[h].fd = fd
  <1>1. /\ Live \subseteq Requests /\ NotRun \subseteq Live /\ Sios \cap Requests = {}
        /\ NoFd # fd
    BY InUse, AufsAssumption
  <1>2. h \in Hands(fd) <=> \/ h \in Sios /\ sio[h].fd = fd
                            \/ h \in Live /\ req[h].op = "open" /\ req[h].ret = fd
                            \/ h \in NotRun /\ req[h].op = "close" /\ req[h].fd = fd
    BY DEF Hands
  <1>3. h \in Hands(fd)' <=> \/ h \in Sios /\ sio'[h].fd = fd
                             \/ h \in Live' /\ req'[h].op = "open" /\ req'[h].ret = fd
                             \/ h \in NotRun' /\ req'[h].op = "close" /\ req'[h].fd = fd
    BY DEF Hands
  <1>4. CASE h \in Sios
    BY <1>1, <1>2, <1>3, <1>4 DEF FileStep
  <1>5. CASE h \in N
    BY <1>1, <1>2, <1>3, <1>5 DEF FileStep
  <1>6. CASE h \notin Sios /\ h \notin N
    BY <1>1, <1>2, <1>3, <1>6 DEF FileStep
  <1>. QED
    BY <1>4, <1>5, <1>6

(* Such a step keeps the files in order, if it does so for the object that   *)
(* changes, the request asked and the descriptors.                           *)
LEMMA FileStepKeeps ==
  ASSUME AiopsInv, FilesInv, NEW F, NEW N, NEW C, NEW s, FileStep(F, N, C, s),
         AufsTypeOK', CountersExact', OneHand',
         s \in Sios => ObjectOkay(s)',
         \A q \in N : RequestOkay(q)',
         \A x \in used \ F : req[x].sio = s /\ s \in Sios =>
             RequestOkay(x)' /\ \A q \in N : req'[q].sio = NoSio
  PROVE  FilesInv'
  <1>0. /\ AufsTypeOK /\ Blocks /\ OneRequest
        /\ \A x \in Live : RequestOkay(x)
        /\ \A x \in Sios : ObjectOkay(x)
        /\ Live \subseteq Requests /\ NotRun \subseteq Live
        /\ Live = used \cup cancelled /\ used \cap cancelled = {}
        /\ NoSio \notin Sios
    BY InUse, AufsAssumption DEF FilesInv, Blocks
  <1>1. /\ \A x \in used \ F : x \in Requests \ (F \cup N)
        /\ \A x \in Live \ F : x \in Requests \ (F \cup N)
    BY <1>0 DEF FileStep
  <1>2. Blocks'
    <2>1. Live' = used' \cup cancelled' /\ used' \cap cancelled' = {}
      BY <1>0, <1>1 DEF FileStep
    <2>2. ASSUME NEW c \in cancelled' PROVE req'[c].op = "close" /\ c \notin NotRun'
      <3>1. c \in Live \ F /\ req[c].op = "close" /\ c \notin NotRun
        BY <1>0 DEF FileStep, Blocks
      <3>2. req'[c] = req[c] /\ c \notin N
        BY <1>1, <3>1 DEF FileStep
      <3>. QED
        BY <3>1, <3>2 DEF FileStep
    <2>. QED
      BY <2>1, <2>2 DEF Blocks
  <1>3. ASSUME NEW x \in used \ (F \cup C)
        PROVE  x \in used' /\ req'[x] = req[x] /\ x \notin N
    BY <1>1 DEF FileStep
  <1>4. OneRequest'
    <2>1. SUFFICES ASSUME NEW x \in used', NEW y \in used',
                          req'[x].sio = req'[y].sio, req'[x].sio # NoSio
                   PROVE  x = y
      BY DEF OneRequest
    <2>2. x \in (used \ (F \cup C)) \cup N /\ y \in (used \ (F \cup C)) \cup N
      BY DEF FileStep
    <2>3. CASE x \in N /\ y \in N
      BY <2>3 DEF FileStep
    <2>4. CASE x \notin N /\ y \notin N
      BY <1>0, <1>3, <2>1, <2>2, <2>4 DEF OneRequest
    <2>5. ASSUME NEW q \in N, NEW z \in used \ (F \cup C),
                 req'[q].sio = req'[z].sio, req'[q].sio # NoSio
          PROVE  FALSE
      <3>1. req[z].sio = s /\ req'[z] = req[z]
        BY <1>3, <2>5 DEF FileStep
      <3>2. s \in Sios
        <4>1. z \in Live /\ z \in Requests
          BY <1>0
        <4>2. req[z].sio \in Sios \cup {NoSio}
          BY <1>0, <4>1 DEF AufsTypeOK, RequestType
        <4>. QED
          BY <2>5, <3>1, <4>2
      <3>. QED
        BY <2>5, <3>1, <3>2
    <2>. QED
      BY <2>1, <2>2, <2>3, <2>4, <2>5
  <1>5. ASSUME NEW x \in Live' PROVE RequestOkay(x)'
    <2>1. CASE x \in N
      BY <2>1
    <2>2. CASE x \in Live \ F /\ x \notin N
      <3>1. RequestOkay(x) /\ req'[x] = req[x] /\ (x \in NotRun' <=> x \in NotRun)
        BY <1>0, <1>1, <2>2 DEF FileStep
      <3>2. CASE x \in used /\ req[x].sio = s /\ s \in Sios
        BY <2>2, <3>2
      <3>3. CASE ~(x \in used /\ req[x].sio = s /\ s \in Sios)
        <4>1. ASSUME req[x].op \in {"open", "read"}, x \in used
              PROVE  x \in used' /\ sio'[req[x].sio] = sio[req[x].sio]
          <5>1. req[x].sio \in Sios \ {s}
            BY <3>1, <3>3, <4>1 DEF RequestOkay
          <5>2. x \notin C
            BY <4>1 DEF FileStep
          <5>. QED
            BY <1>3, <2>2, <4>1, <5>1, <5>2 DEF FileStep
        <4>. QED
          BY <3>1, <4>1, RequestKept
      <3>. QED
        BY <3>2, <3>3
    <2>. QED
      BY <2>1, <2>2 DEF FileStep
  <1>6. ASSUME NEW x \in Sios PROVE ObjectOkay(x)'
    <2>1. CASE x = s
      BY <2>1
    <2>2. CASE x # s
      <3>1. ObjectOkay(x) /\ sio'[x] = sio[x]
        BY <1>0, <2>2 DEF FileStep
      <3>2. ASSUME NEW r \in used, req[r].sio = x, req[r].op \in {"open", "read"}
            PROVE  r \in used' /\ req'[r].op = req[r].op /\ req'[r].sio = x
        <4>1. r \notin F /\ r \notin C
          BY <1>0, <2>2, <3>2 DEF FileStep
        <4>. QED
          BY <1>3, <3>2, <4>1
      <3>. QED
        BY <3>1, <3>2, ObjectKept
    <2>. QED
      BY <2>1, <2>2
  <1>. QED
    BY <1>2, <1>4, <1>5, <1>6 DEF FilesInv

(* What holds no descriptor before or after the step leaves the hands alone. *)
LEMMA HandsSame ==
  ASSUME AiopsInv, FilesInv, NEW F, NEW N, NEW C, NEW s, FileStep(F, N, C, s),
         s \in Sios => sio'[s].fd = sio[s].fd,
         \A r \in F : req[r].op = "open" => req[r].ret = NoFd,
         \A q \in N : req'[q].op # "close",
         fds' = fds
  PROVE  OneHand'
  <1>1. ASSUME NEW fd \in Fds PROVE Hands(fd)' = Hands(fd)
    <2>1. ASSUME NEW h PROVE h \in Hands(fd)' <=> h \in Hands(fd)
      <3>1. h \in F => h \notin Hands(fd)
        BY InUse, AufsAssumption DEF FileStep, Hands
      <3>2. h \in Sios /\ h = s => (h \in Hands(fd) <=> sio[s].fd = fd)
        BY InUse, AufsAssumption DEF Hands
      <3>. QED
        BY <3>1, <3>2, HandsNext
    <2>. QED
      BY <2>1
  <1>. QED
    BY <1>1 DEF FilesInv, OneHand

(* The hand that held f closes it.                                           *)
LEMMA HandCloses ==
  ASSUME AiopsInv, FilesInv, NEW F, NEW N, NEW C, NEW s, FileStep(F, N, C, s),
         NEW f \in Fds, NEW g \in Hands(f), g = s \/ g \in F, s \in Sios,
         sio'[s].fd = NoFd, sio[s].fd \in {NoFd, f},
         \A r \in F : req[r].op = "open" => req[r].ret \in {NoFd, f},
         \A q \in N : req'[q].op # "close",
         fds' = fds \ {f}
  PROVE  OneHand'
  <1>0. Hands(f) = {g} /\ f \in fds
    BY InHand
  <1>1. ASSUME NEW fd \in Fds \ {f} PROVE Hands(fd)' = Hands(fd)
    <2>1. ASSUME NEW h PROVE h \in Hands(fd)' <=> h \in Hands(fd)
      <3>1. h \in F => h \notin Hands(fd)
        BY InUse, AufsAssumption DEF FileStep, Hands
      <3>2. h = s => h \notin Hands(fd)
        BY InUse, AufsAssumption DEF Hands
      <3>. QED
        BY <3>1, <3>2, HandsNext, AufsAssumption
    <2>. QED
      BY <2>1
  <1>2. Hands(f)' = {}
    <2>1. ASSUME NEW h PROVE h \notin Hands(f)'
      BY <1>0, HandsNext, AufsAssumption
    <2>. QED
      BY <2>1
  <1>. QED
    BY <1>1, <1>2 DEF FilesInv, OneHand

(* The request that was given f by its open passes it on: to its object, or  *)
(* to the close that is asked for.                                           *)
LEMMA HandPasses ==
  ASSUME AiopsInv, FilesInv, NEW r, NEW N, NEW C, NEW s \in Sios,
         FileStep({r}, N, C, s),
         NEW f \in Fds, r \in Live, req[r].op = "open", req[r].ret = f,
         sio[s].fd = NoFd,
         \/ sio'[s].fd = f /\ \A q \in N : req'[q].op # "close"
         \/ /\ sio'[s].fd = NoFd
            /\ \E q \in N : N = {q} /\ req'[q].op = "close" /\ req'[q].fd = f,
         fds' = fds
  PROVE  OneHand'
  <1>0. r \in Hands(f) /\ NoFd \notin Fds
    BY AufsAssumption DEF Hands
  <1>1. Hands(f) = {r} /\ f \in fds
    BY <1>0, InHand
  <1>2. ASSUME NEW fd \in Fds \ {f} PROVE Hands(fd)' = Hands(fd)
    <2>1. ASSUME NEW h PROVE h \in Hands(fd)' <=> h \in Hands(fd)
      <3>1. r \notin Hands(fd)
        BY InUse, AufsAssumption DEF FileStep, Hands
      <3>2. s \notin Hands(fd)
        BY <1>0, InUse, AufsAssumption DEF Hands
      <3>. QED
        BY <1>0, <3>1, <3>2, HandsNext
    <2>. QED
      BY <2>1
  <1>3. \E g : Hands(f)' = {g}
    <2>1. CASE sio'[s].fd = f /\ \A q \in N : req'[q].op # "close"
      <3>1. ASSUME NEW h PROVE h \in Hands(f)' <=> h = s
        BY <1>1, <2>1, HandsNext
      <3>. QED
        BY <3>1
    <2>2. ASSUME NEW q \in N, sio'[s].fd = NoFd, N = {q},
                 req'[q].op = "close", req'[q].fd = f
          PROVE  \E g : Hands(f)' = {g}
      <3>1. ASSUME NEW h PROVE h \in Hands(f)' <=> h = q
        BY <1>0, <1>1, <2>2, HandsNext
      <3>. QED
        BY <3>1
    <2>. QED
      BY <2>1, <2>2
  <1>. QED
    BY <1>1, <1>2, <1>3 DEF FilesInv, OneHand

(* A handler asks for something.                                             *)
LEMMA AskStep ==
  ASSUME AiopsInv, FilesInv, NEW q \in Requests \ Live,
         NEW op \in {"open", "read", "close", "unlink"}, NEW s \in Sios \cup {NoSio},
         NEW fd \in Fds \cup {NoFd}, Ask(q, op, s, fd), NoDone,
         cancelled' = cancelled, used' = used \cup {q},
         \A x \in Sios \ {s} : sio'[x] = sio[x]
  PROVE  /\ AiopsInv' /\ FileStep({}, {q}, {}, s)
         /\ req' \in [Requests -> RequestType] /\ used' \subseteq Requests
         /\ req'[q] = [op |-> op, sio |-> s, fd |-> fd, ret |-> NoFd]
         /\ q \in NotRun' /\ q \in used'
  <1>1. /\ squidaio_queue_request(q, "handlers")
        /\ req' = [req EXCEPT ![q] = [op |-> op, sio |-> s, fd |-> fd, ret |-> NoFd]]
    BY DEF Ask, Queue
  <1>2. AiopsInv' /\ Live' = Live \cup {q} /\ NotRun' = NotRun \cup {q}
    BY <1>1, AskOwnStep
  <1>3. req \in [Requests -> RequestType] /\ used \subseteq Requests
    BY DEF FilesInv, AufsTypeOK
  <1>4. /\ req' \in [Requests -> RequestType]
        /\ req'[q] = [op |-> op, sio |-> s, fd |-> fd, ret |-> NoFd]
        /\ \A x \in Requests \ {q} : req'[x] = req[x]
    BY <1>1, <1>3 DEF RequestType
  <1>5. FileStep({}, {q}, {}, s)
    BY <1>2, <1>4 DEF FileStep
  <1>. QED
    BY <1>2, <1>3, <1>4, <1>5

(* A handler changes an object, and may close its file.                      *)
LEMMA PlainStep ==
  ASSUME AiopsInv, FilesInv, NEW C, NEW s, NoAsk, NoDone,
         C \subseteq used, \A c \in C : req[c].op = "close" /\ c \notin NotRun,
         cancelled' = cancelled \cup C, used' = used \ C,
         \A x \in Sios \ {s} : sio'[x] = sio[x]
  PROVE  /\ AiopsInv' /\ FileStep({}, {}, C, s)
         /\ req' \in [Requests -> RequestType] /\ used' \subseteq Requests
  <1>1. cancelled' \subseteq Live
    BY DEF FilesInv, Blocks
  <1>2. AiopsInv' /\ Live' = Live /\ NotRun' = NotRun
    BY <1>1, CancelOwnStep
  <1>3. req' = req
    BY DEF NoAsk
  <1>4. req \in [Requests -> RequestType] /\ used \subseteq Requests
    BY DEF FilesInv, AufsTypeOK
  <1>5. FileStep({}, {}, C, s)
    BY <1>2, <1>3 DEF FileStep
  <1>. QED
    BY <1>2, <1>3, <1>4, <1>5

(* A request is answered, its callback changes an object and may close a     *)
(* file, and nothing more is asked.                                          *)
LEMMA AnswerPlain ==
  ASSUME AiopsInv, FilesInv, NEW r \in used, TakeDone(r), NoAskFrom(r), NEW C, NEW s,
         C \subseteq used \ {r}, \A c \in C : req[c].op = "close" /\ c \notin NotRun,
         cancelled' = cancelled \cup C, used' = used \ (C \cup {r}),
         req[r].sio \in {s, NoSio},
         \A x \in Sios \ {s} : sio'[x] = sio[x]
  PROVE  /\ AiopsInv' /\ FileStep({r}, {}, C, s) /\ r \in Live /\ r \notin NotRun
         /\ req' \in [Requests -> RequestType] /\ used' \subseteq Requests
  <1>1. cancelled' \subseteq Live \ {r} /\ cancelled' = (cancelled \cup C) \ {r}
    BY DEF FilesInv, Blocks
  <1>2. /\ AiopsInv' /\ Live' = Live \ {r} /\ NotRun' = NotRun
        /\ r \in Live /\ r \notin NotRun
    BY <1>1, AnswerOwnStep
  <1>3. req' = [req EXCEPT ![r] = NoReq]
    BY DEF NoAskFrom
  <1>4. req \in [Requests -> RequestType] /\ used \subseteq Requests
    BY DEF FilesInv, AufsTypeOK
  <1>5. NoReq \in RequestType
    BY DEF NoReq, RequestType
  <1>6. /\ req' \in [Requests -> RequestType]
        /\ \A x \in Requests \ {r} : req'[x] = req[x]
    BY <1>3, <1>4, <1>5
  <1>7. FileStep({r}, {}, C, s)
    BY <1>1, <1>2, <1>6 DEF FileStep
  <1>. QED
    BY <1>2, <1>4, <1>6, <1>7

(* A request is answered and its callback asks for something else.           *)
LEMMA AnswerAsk ==
  ASSUME AiopsInv, FilesInv, NEW r \in used, TakeDone(r), NEW q \in FreedBy(r),
         squidaio_queue_request(q, "check"),
         NEW v \in RequestType, req' = [[req EXCEPT ![r] = NoReq] EXCEPT ![q] = v],
         NEW C, NEW s,
         C \subseteq used \ {r}, \A c \in C : req[c].op = "close" /\ c \notin NotRun,
         cancelled' = cancelled \cup C, used' = (used \ (C \cup {r})) \cup {q},
         req[r].sio \in {s, NoSio}, v.sio \in {s, NoSio}, v.ret = NoFd,
         \A x \in Sios \ {s} : sio'[x] = sio[x]
  PROVE  /\ AiopsInv' /\ FileStep({r}, {q}, C, s) /\ r \in Live /\ r \notin NotRun
         /\ req' \in [Requests -> RequestType] /\ used' \subseteq Requests
         /\ req'[q] = v /\ q \in NotRun' /\ q \in used'
  <1>1. cancelled' \subseteq Live \ {r} /\ cancelled' = (cancelled \cup C) \ {r}
    BY DEF FilesInv, Blocks
  <1>2. /\ AiopsInv' /\ Live' = (Live \ {r}) \cup {q} /\ NotRun' = NotRun \cup {q}
        /\ r \in Live /\ r \notin NotRun /\ q \in Requests
        /\ q \notin NotRun /\ (q = r \/ q \notin Live)
    BY <1>1, AnswerAskOwnStep
  <1>3. req \in [Requests -> RequestType] /\ used \subseteq Requests
    BY DEF FilesInv, AufsTypeOK
  <1>4. NoReq \in RequestType
    BY DEF NoReq, RequestType
  <1>5. /\ req' \in [Requests -> RequestType] /\ req'[q] = v
        /\ \A x \in Requests \ {r, q} : req'[x] = req[x]
    BY <1>2, <1>3, <1>4
  <1>6. FileStep({r}, {q}, C, s)
    BY <1>1, <1>2, <1>5 DEF FileStep
  <1>. QED
    BY <1>2, <1>3, <1>5, <1>6

(* The same, when no file is closed.                                         *)
LEMMA AnswerOnly ==
  ASSUME AiopsInv, FilesInv, NEW r \in used, TakeDone(r), NoAskFrom(r), NEW s,
         cancelled' = cancelled, used' = used \ {r}, req[r].sio \in {s, NoSio},
         \A x \in Sios \ {s} : sio'[x] = sio[x]
  PROVE  /\ AiopsInv' /\ FileStep({r}, {}, {}, s) /\ r \in Live /\ r \notin NotRun
         /\ req' \in [Requests -> RequestType] /\ used' \subseteq Requests
  <1>1. PICK C : C = {}
    OBVIOUS
  <1>2. /\ C \subseteq used \ {r} /\ cancelled' = cancelled \cup C
        /\ used' = used \ (C \cup {r})
        /\ \A c \in C : req[c].op = "close" /\ c \notin NotRun
    BY <1>1
  <1>3. /\ AiopsInv' /\ FileStep({r}, {}, C, s) /\ r \in Live /\ r \notin NotRun
        /\ req' \in [Requests -> RequestType] /\ used' \subseteq Requests
    BY <1>2, AnswerPlain
  <1>. QED
    BY <1>1, <1>3

(* And when the callback reads on.                                           *)
LEMMA AnswerRead ==
  ASSUME AiopsInv, FilesInv, NEW r \in used, TakeDone(r), NEW q \in FreedBy(r),
         NEW s \in Sios, NEW fd \in Fds, squidaio_queue_request(q, "check"),
         req' = [[req EXCEPT ![r] = NoReq] EXCEPT
                     ![q] = [op |-> "read", sio |-> s, fd |-> fd, ret |-> NoFd]],
         cancelled' = cancelled, used' = (used \ {r}) \cup {q}, req[r].sio = s,
         \A x \in Sios \ {s} : sio'[x] = sio[x]
  PROVE  /\ AiopsInv' /\ FileStep({r}, {q}, {}, s) /\ r \in Live /\ r \notin NotRun
         /\ req' \in [Requests -> RequestType] /\ used' \subseteq Requests
         /\ req'[q] = [op |-> "read", sio |-> s, fd |-> fd, ret |-> NoFd]
         /\ q \in NotRun' /\ q \in used'
  <1>1. PICK v : v = [op |-> "read", sio |-> s, fd |-> fd, ret |-> NoFd]
    OBVIOUS
  <1>2. v \in RequestType /\ v.sio = s /\ v.ret = NoFd
    BY <1>1 DEF RequestType
  <1>3. req' = [[req EXCEPT ![r] = NoReq] EXCEPT ![q] = v]
    BY <1>1
  <1>4. PICK C : C = {}
    OBVIOUS
  <1>5. /\ C \subseteq used \ {r} /\ cancelled' = cancelled \cup C
        /\ used' = (used \ (C \cup {r})) \cup {q}
        /\ \A c \in C : req[c].op = "close" /\ c \notin NotRun
    BY <1>4
  <1>6. /\ AiopsInv' /\ FileStep({r}, {q}, C, s) /\ r \in Live /\ r \notin NotRun
        /\ req' \in [Requests -> RequestType] /\ used' \subseteq Requests
        /\ req'[q] = v /\ q \in NotRun' /\ q \in used'
    BY <1>2, <1>3, <1>5, AnswerAsk
  <1>. QED
    BY <1>1, <1>4, <1>6
-----------------------------------------------------------------------------
(* The handlers. *)

(* A cancelled request, which is a close that a thread has made, is cleaned  *)
(* up without another close.                                                 *)
LEMMA CleanupStep ==
  ASSUME AufsInv, squidaio_cleanup_request
  PROVE  AufsInv'
  <1>0. AiopsInv /\ FilesInv /\ DropCancelled
    BY DEF AufsInv, squidaio_cleanup_request
  <1>1. PICK r : /\ r = Head(done_requests)
                 /\ AiopsInv' /\ Live' = Live \ {r} /\ NotRun' = NotRun
                 /\ cancelled' = cancelled \ {r} /\ r \in cancelled /\ r \notin NotRun
    BY <1>0, DropOwnStep
  <1>2. /\ r \in Live /\ r \notin used /\ req[r].op = "close" /\ RequestOkay(r)
        /\ r \in Requests /\ req \in [Requests -> RequestType]
    BY <1>0, <1>1, InUse DEF FilesInv, Blocks, AufsTypeOK
  <1>3. req[r].sio = NoSio /\ req[r].ret # NoFd
    BY <1>1, <1>2, AufsAssumption DEF RequestOkay
  <1>4. /\ fds' = fds /\ req' = [req EXCEPT ![r] = NoReq]
        /\ UNCHANGED <<used, sio, Opening_FD, store_open_disk_fd>>
    BY <1>1, <1>3 DEF squidaio_cleanup_request
  <1>5. /\ req' \in [Requests -> RequestType]
        /\ \A x \in Requests \ {r} : req'[x] = req[x]
    BY <1>2, <1>4 DEF NoReq, RequestType
  <1>6. FileStep({r}, {}, {}, NoSio)
    BY <1>1, <1>2, <1>3, <1>4, <1>5 DEF FileStep
  <1>7. OneHand'
    BY <1>0, <1>2, <1>4, <1>6, HandsSame, AufsAssumption
  <1>8. AufsTypeOK' /\ CountersExact'
    BY <1>0, <1>4, <1>5 DEF FilesInv, AufsTypeOK, CountersExact
  <1>9. FilesInv'
    BY <1>0, <1>6, <1>7, <1>8, FileStepKeeps, AufsAssumption
  <1>. QED
    BY <1>1, <1>9 DEF AufsInv

(* A file is unlinked by a thread.                                           *)
LEMMA UnlinkStep ==
  ASSUME AufsInv, NEW q \in Requests, storeAufsUnlink(q)
  PROVE  AufsInv'
  <1>0. /\ AiopsInv /\ FilesInv /\ q \in Requests \ Live
        /\ Ask(q, "unlink", NoSio, NoFd) /\ NoDone /\ used' = used \cup {q}
        /\ UNCHANGED <<cancelled, sio, fds, Opening_FD, store_open_disk_fd>>
    BY DEF AufsInv, storeAufsUnlink
  <1>1. /\ AiopsInv' /\ FileStep({}, {q}, {}, NoSio)
        /\ req' \in [Requests -> RequestType] /\ used' \subseteq Requests
        /\ req'[q] = [op |-> "unlink", sio |-> NoSio, fd |-> NoFd, ret |-> NoFd]
    BY <1>0, AskStep
  <1>2. RequestOkay(q)'
    BY <1>1 DEF RequestOkay
  <1>3. OneHand'
    BY <1>0, <1>1, HandsSame, AufsAssumption
  <1>4. AufsTypeOK' /\ CountersExact'
    BY <1>0, <1>1 DEF FilesInv, AufsTypeOK, CountersExact
  <1>5. FilesInv'
    BY <1>0, <1>1, <1>2, <1>3, <1>4, FileStepKeeps, AufsAssumption
  <1>. QED
    BY <1>1, <1>5 DEF AufsInv

(* The counters follow the object that changes.                              *)
LEMMA CountersNext ==
  ASSUME FilesInv, NEW s \in Sios, NEW o \in SioType, sio' = [sio EXCEPT ![s] = o],
         sio[s].opening = o.opening => Opening_FD' = Opening_FD,
         sio[s].opening /\ ~o.opening => Opening_FD' = Opening_FD - 1,
         ~sio[s].opening /\ o.opening => Opening_FD' = Opening_FD + 1,
         (sio[s].fd = NoFd <=> o.fd = NoFd) => store_open_disk_fd' = store_open_disk_fd,
         sio[s].fd # NoFd /\ o.fd = NoFd => store_open_disk_fd' = store_open_disk_fd - 1,
         sio[s].fd = NoFd /\ o.fd # NoFd => store_open_disk_fd' = store_open_disk_fd + 1
  PROVE  /\ CountersExact' /\ Opening_FD' \in Nat /\ store_open_disk_fd' \in Nat
         /\ sio' \in [Sios -> SioType] /\ sio'[s] = o
         /\ \A x \in Sios \ {s} : sio'[x] = sio[x]
  <1>1. /\ sio \in [Sios -> SioType]
        /\ Opening_FD = Cardinality({x \in Sios : sio[x].opening})
        /\ store_open_disk_fd = Cardinality({x \in Sios : sio[x].fd # NoFd})
    BY DEF FilesInv, AufsTypeOK, CountersExact
  <1>2. /\ sio' \in [Sios -> SioType] /\ sio'[s] = o
        /\ \A x \in Sios \ {s} : sio'[x] = sio[x]
    BY <1>1
  <1>3. o.opening \in BOOLEAN /\ sio[s].opening \in BOOLEAN
    BY <1>1 DEF SioType
  <1> DEFINE n == Cardinality({x \in Sios : sio[x].opening})
             m == Cardinality({x \in Sios : sio'[x].opening})
             k == Cardinality({x \in Sios : sio[x].fd # NoFd})
             l == Cardinality({x \in Sios : sio'[x].fd # NoFd})
  <1>4. /\ n \in Nat /\ m \in Nat /\ k \in Nat /\ l \in Nat
        /\ sio[s].opening = o.opening => m = n
        /\ sio[s].opening /\ ~o.opening => n = m + 1
        /\ ~sio[s].opening /\ o.opening => m = n + 1
        /\ (sio[s].fd = NoFd <=> o.fd = NoFd) => l = k
        /\ sio[s].fd # NoFd /\ o.fd = NoFd => k = l + 1
        /\ sio[s].fd = NoFd /\ o.fd # NoFd => l = k + 1
    BY <1>2, <1>3, Counted
  <1>5. SUFFICES Opening_FD' = m /\ store_open_disk_fd' = l
    BY <1>2, <1>4 DEF CountersExact
  <1>6. Opening_FD = n /\ store_open_disk_fd = k
    BY <1>1
  <1> HIDE DEF n, m, k, l
  <1>7. Opening_FD' = m
    <2>1. CASE sio[s].opening = o.opening
      BY <1>4, <1>6, <2>1
    <2>2. CASE sio[s].opening /\ ~o.opening
      <3>1. Opening_FD' = Opening_FD - 1 /\ n = m + 1
        BY <1>4, <2>2
      <3>. QED
        BY <1>4, <1>6, <3>1
    <2>3. CASE ~sio[s].opening /\ o.opening
      BY <1>4, <1>6, <2>3
    <2>. QED
      BY <1>3, <2>1, <2>2, <2>3
  <1>8. store_open_disk_fd' = l
    <2>1. CASE sio[s].fd = NoFd <=> o.fd = NoFd
      BY <1>4, <1>6, <2>1
    <2>2. CASE sio[s].fd # NoFd /\ o.fd = NoFd
      <3>1. store_open_disk_fd' = store_open_disk_fd - 1 /\ k = l + 1
        BY <1>4, <2>2
      <3>. QED
        BY <1>4, <1>6, <3>1
    <2>3. CASE sio[s].fd = NoFd /\ o.fd # NoFd
      BY <1>4, <1>6, <2>3
    <2>. QED
      BY <2>1, <2>2, <2>3
  <1>. QED
    BY <1>7, <1>8

(* An object that is free, or waits neither for an open nor for a read, has  *)
(* no request.                                                               *)
LEMMA NoAsker ==
  ASSUME FilesInv, NEW s \in Sios, sio[s].state # "zombie",
         sio[s].opening => ~SioLive(s), sio[s].reading => ~SioLive(s),
         NEW r \in used
  PROVE  req[r].sio # s
  BY Asker

(* Its state is one of three.                                                *)
LEMMA ObjectStates ==
  ASSUME FilesInv, NEW s \in Sios
  PROVE  /\ sio \in [Sios -> SioType] /\ sio[s] \in SioType /\ FreeSio \in SioType
         /\ [FreeSio EXCEPT !.state = "zombie"] \in SioType
         /\ sio[s].state = "free" => sio[s] = FreeSio
         /\ sio[s].state = "zombie" => sio[s] = [FreeSio EXCEPT !.state = "zombie"]
         /\ SioLive(s) => ObjectOkay(s)!3
  <1>1. sio \in [Sios -> SioType] /\ ObjectOkay(s)
    BY DEF FilesInv, AufsTypeOK
  <1>2. FreeSio \in SioType /\ [FreeSio EXCEPT !.state = "zombie"] \in SioType
    <2>1. 0 \in 0..1 /\ 0 \in 0..MaxWrites
      BY AufsAssumption
    <2>. QED
      BY <2>1 DEF FreeSio, SioType
  <1>3. /\ FreeSio.state = "free"
        /\ [FreeSio EXCEPT !.state = "zombie"].state = "zombie"
    BY DEF FreeSio
  <1>. QED
    BY <1>1, <1>2, <1>3 DEF ObjectOkay, SioLive

(* An object is opened: a free state takes one open.                         *)
LEMMA OpenStep ==
  ASSUME AufsInv, NEW s \in Sios, NEW q \in Requests, NEW mode \in {"R", "W"},
         OpenFile(s, mode, q)
  PROVE  AufsInv'
  <1> DEFINE o == [FreeSio EXCEPT !.state = "live", !.mode = mode,
                                  !.opening = TRUE, !.user = "idle"]
  <1>0. /\ AiopsInv /\ FilesInv /\ q \in Requests \ Live /\ sio[s].state = "free"
        /\ Ask(q, "open", s, NoFd) /\ NoDone /\ used' = used \cup {q}
        /\ sio' = [sio EXCEPT ![s] = o] /\ Opening_FD' = Opening_FD + 1
        /\ UNCHANGED <<cancelled, fds, store_open_disk_fd>>
    BY DEF AufsInv, OpenFile
  <1>1. sio[s] = FreeSio
    BY <1>0, ObjectStates
  <1>2. /\ o \in SioType /\ o.state = "live" /\ o.mode = mode /\ o.fd = NoFd
        /\ o.opening = TRUE /\ o.reading = FALSE /\ o.close_request = FALSE
        /\ o.pending_reads = 0 /\ o.user = "idle"
    <2>1. 0 \in 0..1 /\ 0 \in 0..MaxWrites
      BY AufsAssumption
    <2>. QED
      BY <2>1 DEF FreeSio, SioType
  <1>3. sio[s].opening = FALSE /\ sio[s].fd = NoFd /\ sio[s].reading = FALSE
    BY <1>1 DEF FreeSio
  <1> HIDE DEF o
  <1>4. /\ CountersExact' /\ Opening_FD' \in Nat /\ store_open_disk_fd' \in Nat
        /\ sio' \in [Sios -> SioType] /\ sio'[s] = o
        /\ \A x \in Sios \ {s} : sio'[x] = sio[x]
    BY <1>0, <1>2, <1>3, CountersNext
  <1>5. /\ AiopsInv' /\ FileStep({}, {q}, {}, s)
        /\ req' \in [Requests -> RequestType] /\ used' \subseteq Requests
        /\ req'[q] = [op |-> "open", sio |-> s, fd |-> NoFd, ret |-> NoFd]
        /\ q \in NotRun' /\ q \in used'
    BY <1>0, <1>4, AskStep
  <1>6. AufsTypeOK'
    BY <1>0, <1>4, <1>5 DEF FilesInv, AufsTypeOK
  <1>7. RequestOkay(q)'
    BY <1>2, <1>4, <1>5 DEF RequestOkay
  <1>8. ObjectOkay(s)'
    <2>1. Waits(s, "open")'
      BY <1>5 DEF Waits
    <2>. QED
      BY <1>2, <1>4, <2>1 DEF ObjectOkay, SioLive
  <1>9. OneHand'
    BY <1>0, <1>2, <1>3, <1>4, <1>5, HandsSame
  <1>10. \A x \in used : req[x].sio # s
    BY <1>0, <1>3, NoAsker
  <1>11. FilesInv'
    BY <1>0, <1>4, <1>5, <1>6, <1>7, <1>8, <1>9, <1>10, FileStepKeeps
  <1>. QED
    BY <1>5, <1>11 DEF AufsInv

(* A request of an object that changes in what is no concern of the request. *)
LEMMA RequestOf ==
  ASSUME NEW r, RequestOkay(r), req'[r] = req[r], r \in NotRun' <=> r \in NotRun,
         r \in used', sio'[req[r].sio].fd = sio[req[r].sio].fd,
         sio'[req[r].sio].state = sio[req[r].sio].state,
         sio'[req[r].sio].opening = sio[req[r].sio].opening,
         sio'[req[r].sio].reading = sio[req[r].sio].reading
  PROVE  RequestOkay(r)'
  BY DEF RequestOkay, SioLive

(* A handler changes an object in what is no concern of its request.         *)
LEMMA TouchStep ==
  ASSUME AufsInv, NEW s \in Sios, NEW o \in SioType, sio' = [sio EXCEPT ![s] = o],
         SioLive(s), o.state = "live", o.mode = sio[s].mode, o.fd = sio[s].fd,
         o.opening = sio[s].opening, o.reading = sio[s].reading,
         o.reading => o.user # "idle",
         o.close_request <=> o.user = "gone",
         o.user = "reading" => o.mode = "R",
         o.user = "reading" /\ ~o.reading => o.opening /\ o.pending_reads = 1,
         o.user # "reading" \/ ~o.opening => o.pending_reads = 0,
         NoAsk, NoDone,
         UNCHANGED <<cancelled, used, fds, Opening_FD, store_open_disk_fd>>
  PROVE  AufsInv'
  <1>0. /\ AiopsInv /\ FilesInv /\ ObjectOkay(s)!3
    BY ObjectStates DEF AufsInv
  <1>1. /\ CountersExact' /\ Opening_FD' \in Nat /\ store_open_disk_fd' \in Nat
        /\ sio' \in [Sios -> SioType] /\ sio'[s] = o
        /\ \A x \in Sios \ {s} : sio'[x] = sio[x]
    BY <1>0, CountersNext
  <1>2. /\ AiopsInv' /\ FileStep({}, {}, {}, s)
        /\ req' \in [Requests -> RequestType] /\ used' \subseteq Requests
    BY <1>0, <1>1, PlainStep
  <1>3. req' = req /\ NotRun' = NotRun
    BY <1>2 DEF NoAsk, FileStep
  <1>4. AufsTypeOK'
    BY <1>0, <1>1, <1>2 DEF FilesInv, AufsTypeOK
  <1>5. OneHand'
    BY <1>0, <1>1, <1>2, HandsSame
  <1>6. ASSUME NEW x \in used, req[x].sio = s PROVE RequestOkay(x)'
    <2>1. RequestOkay(x)
      BY <1>0, <1>6, Asker DEF FilesInv
    <2>. QED
      BY <1>1, <1>3, <1>6, <2>1, RequestOf DEF SioLive
  <1>7. ObjectOkay(s)'
    <2>1. /\ Waits(s, "open")' = Waits(s, "open")
          /\ Waits(s, "read")' = Waits(s, "read")
      BY <1>3 DEF Waits
    <2>2. /\ o.opening => Waits(s, "open")' /\ ~o.reading
          /\ o.reading => Waits(s, "read")' /\ o.mode = "R"
          /\ o.opening <=> o.fd = NoFd
      BY <1>0, <2>1
    <2>. QED
      BY <1>1, <2>2 DEF ObjectOkay, SioLive
  <1>8. FilesInv'
    BY <1>0, <1>1, <1>2, <1>4, <1>5, <1>6, <1>7, FileStepKeeps
  <1>. QED
    BY <1>2, <1>8 DEF AufsInv

(* A read waits for the open.                                                *)
LEMMA QueueReadStep ==
  ASSUME AufsInv, NEW s \in Sios, QueueRead(s)
  PROVE  AufsInv'
  <1>0. /\ FilesInv /\ SioLive(s) /\ sio[s].mode = "R" /\ sio[s].user = "idle"
        /\ sio[s].fd = NoFd /\ NoAsk /\ NoDone
        /\ UNCHANGED <<cancelled, used, fds, Opening_FD, store_open_disk_fd>>
    BY DEF AufsInv, QueueRead
  <1>1. sio \in [Sios -> SioType] /\ sio[s] \in SioType /\ ObjectOkay(s)!3
    BY <1>0, ObjectStates
  <1>2. sio[s].opening /\ sio[s].pending_reads = 0 /\ ~sio[s].close_request
        /\ ~sio[s].reading
    BY <1>0, <1>1
  <1>3. PICK o : /\ o = [sio[s] EXCEPT !.pending_reads = 1, !.user = "reading"]
                 /\ sio' = [sio EXCEPT ![s] = o]
    BY <1>1, <1>2 DEF QueueRead, SioType
  <1>4. /\ o \in SioType /\ o.state = "live" /\ o.mode = sio[s].mode
        /\ o.fd = sio[s].fd /\ o.opening = sio[s].opening
        /\ o.reading = sio[s].reading /\ o.user = "reading" /\ o.pending_reads = 1
        /\ o.close_request = sio[s].close_request
    <2>1. 1 \in 0..1
      OBVIOUS
    <2>. QED
      BY <1>0, <1>1, <1>3, <2>1 DEF SioType, SioLive
  <1>. QED
    BY <1>0, <1>2, <1>3, <1>4, TouchStep

(* A write waits for the open.                                               *)
LEMMA QueueWriteStep ==
  ASSUME AufsInv, NEW s \in Sios, QueueWrite(s)
  PROVE  AufsInv'
  <1>0. /\ FilesInv /\ SioLive(s) /\ sio[s].pending_writes < MaxWrites
        /\ NoAsk /\ NoDone
        /\ UNCHANGED <<cancelled, used, fds, Opening_FD, store_open_disk_fd>>
    BY DEF AufsInv, QueueWrite
  <1>1. sio \in [Sios -> SioType] /\ sio[s] \in SioType /\ ObjectOkay(s)!3
    BY <1>0, ObjectStates
  <1>2. PICK o : /\ o = [sio[s] EXCEPT !.pending_writes = sio[s].pending_writes + 1]
                 /\ sio' = [sio EXCEPT ![s] = o]
    BY <1>1 DEF QueueWrite, SioType
  <1>3. sio[s].pending_writes + 1 \in 0..MaxWrites
    BY <1>0, <1>1, AufsAssumption DEF SioType
  <1>4. /\ o \in SioType /\ o.state = "live" /\ o.mode = sio[s].mode
        /\ o.fd = sio[s].fd /\ o.opening = sio[s].opening
        /\ o.reading = sio[s].reading /\ o.user = sio[s].user
        /\ o.pending_reads = sio[s].pending_reads
        /\ o.close_request = sio[s].close_request
    BY <1>0, <1>1, <1>2, <1>3 DEF SioType, SioLive
  <1>. QED
    BY <1>0, <1>1, <1>2, <1>4, TouchStep

(* A read is given to the threads.                                           *)
LEMMA ReadStep ==
  ASSUME AufsInv, NEW s \in Sios, NEW q \in Requests, storeAufsRead(s, q)
  PROVE  AufsInv'
  <1>0. /\ AiopsInv /\ FilesInv /\ SioLive(s) /\ sio[s].mode = "R"
        /\ sio[s].user = "idle" /\ sio[s].fd # NoFd /\ q \in Requests \ Live
        /\ Ask(q, "read", s, sio[s].fd) /\ NoDone /\ used' = used \cup {q}
        /\ UNCHANGED <<cancelled, fds, Opening_FD, store_open_disk_fd>>
    BY DEF AufsInv, storeAufsRead
  <1>1. sio \in [Sios -> SioType] /\ sio[s] \in SioType /\ ObjectOkay(s)!3
    BY <1>0, ObjectStates
  <1>2. PICK f \in Fds : f = sio[s].fd
    BY <1>0, <1>1 DEF SioType
  <1>3. ~sio[s].opening /\ ~sio[s].reading /\ sio[s].pending_reads = 0
        /\ ~sio[s].close_request
    BY <1>0, <1>1
  <1>4. PICK o : /\ o = [sio[s] EXCEPT !.reading = TRUE, !.user = "reading"]
                 /\ sio' = [sio EXCEPT ![s] = o]
    BY <1>1 DEF storeAufsRead, SioType
  <1>5. /\ o \in SioType /\ o.state = "live" /\ o.mode = "R" /\ o.fd = f
        /\ o.opening = sio[s].opening /\ o.reading = TRUE /\ o.user = "reading"
        /\ o.pending_reads = sio[s].pending_reads
        /\ o.close_request = sio[s].close_request
    BY <1>0, <1>1, <1>2, <1>4 DEF SioType, SioLive
  <1>6. /\ CountersExact' /\ Opening_FD' \in Nat /\ store_open_disk_fd' \in Nat
        /\ sio' \in [Sios -> SioType] /\ sio'[s] = o
        /\ \A x \in Sios \ {s} : sio'[x] = sio[x]
    BY <1>0, <1>2, <1>4, <1>5, CountersNext
  <1>7. /\ AiopsInv' /\ FileStep({}, {q}, {}, s)
        /\ req' \in [Requests -> RequestType] /\ used' \subseteq Requests
        /\ req'[q] = [op |-> "read", sio |-> s, fd |-> f, ret |-> NoFd]
        /\ q \in NotRun' /\ q \in used'
    <2>1. Ask(q, "read", s, f)
      BY <1>0, <1>2
    <2>. QED
      BY <1>0, <1>6, <2>1, AskStep
  <1>8. AufsTypeOK'
    BY <1>0, <1>6, <1>7 DEF FilesInv, AufsTypeOK
  <1>9. RequestOkay(q)'
    BY <1>5, <1>6, <1>7 DEF RequestOkay, SioLive
  <1>10. ObjectOkay(s)'
    <2>1. Waits(s, "read")'
      BY <1>7 DEF Waits
    <2>2. ~o.opening /\ o.fd # NoFd /\ o.pending_reads = 0 /\ ~o.close_request
      BY <1>0, <1>2, <1>3, <1>5
    <2>. QED
      BY <1>5, <1>6, <2>1, <2>2 DEF ObjectOkay, SioLive
  <1>11. OneHand'
    BY <1>0, <1>2, <1>5, <1>6, <1>7, HandsSame
  <1>12. \A x \in used : req[x].sio # s
    BY <1>0, <1>3, NoAsker DEF SioLive
  <1>13. FilesInv'
    BY <1>0, <1>6, <1>7, <1>8, <1>9, <1>10, <1>11, <1>12, FileStepKeeps
  <1>. QED
    BY <1>7, <1>13 DEF AufsInv

(* The file of an object with no read in flight is closed: aioCancel finds   *)
(* closes that threads have made, of files that had the same descriptor.     *)
LEMMA CloseFileStep ==
  ASSUME AufsInv, NEW s \in Sios, SioLive(s), sio[s].fd # NoFd, ~sio[s].reading,
         sio' = [sio EXCEPT ![s] = FreeSio], Opening_FD' = Opening_FD,
         cancelled' = cancelled \cup CancelledBy(sio[s].fd),
         used' = used \ CancelledBy(sio[s].fd), fds' = fds \ {sio[s].fd},
         store_open_disk_fd' = store_open_disk_fd - 1, NoAsk, NoDone
  PROVE  AufsInv'
  <1>0. AiopsInv /\ FilesInv
    BY DEF AufsInv
  <1>1. sio \in [Sios -> SioType] /\ sio[s] \in SioType /\ ObjectOkay(s)!3
        /\ FreeSio \in SioType
    BY <1>0, ObjectStates
  <1>2. PICK f \in Fds : f = sio[s].fd
    BY <1>1 DEF SioType
  <1>3. ~sio[s].opening
    BY <1>1
  <1>4. FreeSio.opening = FALSE /\ FreeSio.fd = NoFd
    BY DEF FreeSio
  <1>5. /\ CountersExact' /\ Opening_FD' \in Nat /\ store_open_disk_fd' \in Nat
        /\ sio' \in [Sios -> SioType] /\ sio'[s] = FreeSio
        /\ \A x \in Sios \ {s} : sio'[x] = sio[x]
    BY <1>0, <1>1, <1>3, <1>4, CountersNext
  <1>6. \A x \in used : req[x].sio # s
    BY <1>0, <1>3, NoAsker DEF SioLive
  <1>7. s \in Hands(f)
    BY <1>2 DEF Hands
  <1>8. /\ CancelledBy(f) \subseteq used
        /\ \A c \in CancelledBy(f) : req[c].op = "close" /\ c \notin NotRun
    <2>1. s \notin Requests
      BY AufsAssumption
    <2>2. used \subseteq Requests
      BY <1>0 DEF FilesInv, AufsTypeOK
    <2>. QED
      BY <1>0, <1>6, <1>7, <2>1, <2>2, CancelFinds
  <1> DEFINE C == CancelledBy(f)
  <1>9. PICK D : D = C
    OBVIOUS
  <1>10. /\ AiopsInv' /\ FileStep({}, {}, D, s)
         /\ req' \in [Requests -> RequestType] /\ used' \subseteq Requests
    BY <1>0, <1>2, <1>5, <1>8, <1>9, PlainStep
  <1>11. AufsTypeOK'
    BY <1>0, <1>5, <1>10 DEF FilesInv, AufsTypeOK
  <1>12. OneHand'
    BY <1>0, <1>2, <1>4, <1>5, <1>7, <1>10, HandCloses
  <1>13. ObjectOkay(s)'
    BY <1>5 DEF ObjectOkay
  <1>14. FilesInv'
    BY <1>0, <1>5, <1>6, <1>10, <1>11, <1>12, <1>13, FileStepKeeps
  <1>. QED
    BY <1>10, <1>14 DEF AufsInv

(* A write fails: the file is closed.                                        *)
LEMMA WriteFailsStep ==
  ASSUME AufsInv, NEW s \in Sios, storeAufsWriteFails(s)
  PROVE  AufsInv'
  <1>1. /\ SioLive(s) /\ sio[s].mode = "W" /\ sio[s].fd # NoFd /\ NoAsk /\ NoDone
        /\ storeAufsIOCallback(s, sio[s].fd, FALSE, store_open_disk_fd, FALSE)
    BY DEF storeAufsWriteFails
  <1>2. ~sio[s].reading
    <2>1. FilesInv
      BY DEF AufsInv
    <2>. QED
      BY <1>1, <2>1, ObjectStates
  <1>3. /\ sio' = [sio EXCEPT ![s] = FreeSio]
        /\ Opening_FD' = Opening_FD - 0
        /\ cancelled' = cancelled \cup CancelledBy(sio[s].fd)
        /\ used' = used \ CancelledBy(sio[s].fd) /\ fds' = fds \ {sio[s].fd}
        /\ store_open_disk_fd' = store_open_disk_fd - 1
    BY <1>1 DEF storeAufsIOCallback, Freed
  <1>4. Opening_FD' = Opening_FD
    <2>1. Opening_FD \in Nat
      BY DEF AufsInv, FilesInv, AufsTypeOK
    <2>. QED
      BY <1>3, <2>1
  <1>. QED
    BY <1>1, <1>2, <1>3, <1>4, CloseFileStep

(* The user closes: at once, after the request it waits for, or, leaving an  *)
(* open behind, with a state that stays until that is answered.              *)
LEMMA CloseStep ==
  ASSUME AufsInv, NEW s \in Sios, storeAufsClose(s)
  PROVE  AufsInv'
  <1>0. /\ AiopsInv /\ FilesInv /\ SioLive(s) /\ ~sio[s].close_request
        /\ NoAsk /\ NoDone /\ Opening_FD \in Nat
    BY DEF AufsInv, storeAufsClose, FilesInv, AufsTypeOK
  <1>1. /\ sio \in [Sios -> SioType] /\ sio[s] \in SioType /\ ObjectOkay(s)!3
        /\ FreeSio \in SioType /\ [FreeSio EXCEPT !.state = "zombie"] \in SioType
    BY <1>0, ObjectStates
  <1>2. CASE storeAufsNeedCompletion(s)
    <2>1. UNCHANGED <<cancelled, used, fds, Opening_FD, store_open_disk_fd>>
      BY <1>2 DEF storeAufsClose
    <2>2. PICK o : /\ o = [sio[s] EXCEPT !.close_request = TRUE, !.user = "gone"]
                   /\ sio' = [sio EXCEPT ![s] = o]
      BY <1>1, <1>2 DEF storeAufsClose, SioType
    <2>3. /\ o \in SioType /\ o.state = "live" /\ o.mode = sio[s].mode
          /\ o.fd = sio[s].fd /\ o.opening = sio[s].opening
          /\ o.reading = sio[s].reading /\ o.user = "gone"
          /\ o.pending_reads = sio[s].pending_reads /\ o.close_request = TRUE
      BY <1>0, <1>1, <2>2 DEF SioType, SioLive
    <2>4. sio[s].pending_reads = 0
      <3>1. (sio[s].opening /\ sio[s].mode = "W") \/ sio[s].reading
        BY <1>2 DEF storeAufsNeedCompletion
      <3>2. sio[s].user # "reading" \/ ~sio[s].opening
        BY <1>1, <3>1
      <3>. QED
        BY <1>1, <3>2
    <2>. QED
      BY <1>0, <2>1, <2>2, <2>3, <2>4, TouchStep
  <1>3. CASE ~storeAufsNeedCompletion(s) /\ sio[s].fd # NoFd
    <2>1. ~sio[s].opening /\ ~sio[s].reading
      BY <1>1, <1>3 DEF storeAufsNeedCompletion
    <2>2. storeAufsIOCallback(s, sio[s].fd, sio[s].opening, store_open_disk_fd,
                              sio[s].opening)
      BY <1>3 DEF storeAufsClose
    <2>3. /\ sio' = [sio EXCEPT ![s] = FreeSio]
          /\ Opening_FD' = Opening_FD - 0
          /\ cancelled' = cancelled \cup CancelledBy(sio[s].fd)
          /\ used' = used \ CancelledBy(sio[s].fd) /\ fds' = fds \ {sio[s].fd}
          /\ store_open_disk_fd' = store_open_disk_fd - 1
      BY <1>3, <2>1, <2>2 DEF storeAufsIOCallback, Freed
    <2>4. Opening_FD' = Opening_FD
      BY <1>0, <2>3
    <2>. QED
      BY <1>0, <1>3, <2>1, <2>3, <2>4, CloseFileStep
  <1>4. CASE ~storeAufsNeedCompletion(s) /\ sio[s].fd = NoFd
    <2>1. sio[s].opening /\ sio[s].opening = TRUE
      BY <1>1, <1>4 DEF SioType
    <2>2. storeAufsIOCallback(s, sio[s].fd, sio[s].opening, store_open_disk_fd,
                              sio[s].opening)
      BY <1>4 DEF storeAufsClose
    <2>3. PICK o : o = [FreeSio EXCEPT !.state = "zombie"]
      OBVIOUS
    <2>4. /\ sio' = [sio EXCEPT ![s] = o]
          /\ Opening_FD' = Opening_FD - 1
          /\ UNCHANGED <<cancelled, used, fds, store_open_disk_fd>>
      BY <1>4, <2>1, <2>2, <2>3 DEF storeAufsIOCallback, Freed
    <2>5. o \in SioType /\ o.state = "zombie" /\ o.fd = NoFd /\ o.opening = FALSE
      BY <1>1, <2>3 DEF FreeSio
    <2>6. /\ CountersExact' /\ Opening_FD' \in Nat /\ store_open_disk_fd' \in Nat
          /\ sio' \in [Sios -> SioType] /\ sio'[s] = o
          /\ \A x \in Sios \ {s} : sio'[x] = sio[x]
      BY <1>0, <1>4, <2>1, <2>4, <2>5, CountersNext
    <2>7. /\ AiopsInv' /\ FileStep({}, {}, {}, s)
          /\ req' \in [Requests -> RequestType] /\ used' \subseteq Requests
      <3>1. PICK C : C = {}
        OBVIOUS
      <3>2. /\ C \subseteq used /\ \A c \in C : req[c].op = "close" /\ c \notin NotRun
            /\ cancelled' = cancelled \cup C /\ used' = used \ C
        BY <2>4, <3>1
      <3>3. /\ AiopsInv' /\ FileStep({}, {}, C, s)
            /\ req' \in [Requests -> RequestType] /\ used' \subseteq Requests
        BY <1>0, <2>6, <3>2, PlainStep
      <3>. QED
        BY <3>1, <3>3
    <2>8. AufsTypeOK'
      BY <1>0, <2>4, <2>6, <2>7 DEF FilesInv, AufsTypeOK
    <2>9. OneHand'
      BY <1>0, <1>4, <2>4, <2>5, <2>6, <2>7, HandsSame
    <2>10. req' = req /\ NotRun' = NotRun
      BY <1>0, <2>7 DEF NoAsk, FileStep
    <2>11. ASSUME NEW x \in used, req[x].sio = s PROVE RequestOkay(x)'
      <3>1. RequestOkay(x) /\ req[x].op = "open"
        BY <1>0, <2>1, <2>11, Asker DEF FilesInv
      <3>. QED
        BY <2>4, <2>5, <2>6, <2>10, <2>11, <3>1 DEF RequestOkay
    <2>12. ObjectOkay(s)'
      <3>1. Waits(s, "open")
        BY <1>1, <2>1
      <3>2. Waits(s, "open")'
        BY <2>4, <2>10, <3>1 DEF Waits
      <3>. QED
        BY <2>3, <2>6, <3>2 DEF ObjectOkay
    <2>13. FilesInv'
      BY <1>0, <2>6, <2>7, <2>8, <2>9, <2>11, <2>12, FileStepKeeps
    <2>. QED
      BY <2>7, <2>13 DEF AufsInv
  <1>. QED
    BY <1>2, <1>3, <1>4
-----------------------------------------------------------------------------
(* The answers. *)

(* The request answered is the only one of its object.                       *)
LEMMA Answered ==
  ASSUME FilesInv, NEW r, NEW op \in {"open", "read"}, NEW state, AnswerTo(r, op, state)
  PROVE  \E s \in Sios :
           /\ s = req[r].sio /\ req[r].op = op /\ sio[s].state = state
           /\ r \in used /\ r \in Live /\ r \in Requests /\ TakeDone(r)
           /\ req[r].ret \in Fds \cup {NoFd}
           /\ \A x \in used \ {r} : req[x].sio # s
           /\ op = "open" => /\ sio[s].fd = NoFd
                             /\ state = "live" => sio[s].opening /\ ~sio[s].reading
           /\ op = "read" => /\ sio[s].fd \in Fds /\ sio[s].reading /\ ~sio[s].opening
                             /\ sio[s].mode = "R"
  <1>1. /\ TakeDone(r) /\ r \in used /\ req[r].op = op
        /\ sio[req[r].sio].state = state
    BY DEF AnswerTo
  <1>2. r \in Live /\ r \in Requests /\ RequestOkay(r) /\ OneRequest
        /\ req[r].ret \in Fds \cup {NoFd}
    BY <1>1 DEF FilesInv, Blocks, AufsTypeOK, RequestType
  <1>3. PICK s \in Sios : s = req[r].sio
    BY <1>1, <1>2 DEF RequestOkay
  <1>4. \A x \in used \ {r} : req[x].sio # s
    BY <1>1, <1>2, <1>3, AufsAssumption DEF OneRequest
  <1>5. op = "open" => /\ sio[s].fd = NoFd
                       /\ state = "live" => sio[s].opening /\ ~sio[s].reading
    BY <1>1, <1>3, Asker
  <1>6. op = "read" => /\ sio[s].fd \in Fds /\ sio[s].reading /\ ~sio[s].opening
                       /\ sio[s].mode = "R"
    <2>1. op = "read" => req[r].fd \in Fds
      BY <1>1, <1>2 DEF RequestOkay
    <2>. QED
      BY <1>1, <1>3, <2>1, Asker
  <1>. QED
    BY <1>1, <1>2, <1>3, <1>4, <1>5, <1>6

(* An open has failed.                                                       *)
LEMMA OpenFailedStep ==
  ASSUME AufsInv, NEW r \in Requests, OpenFailed(r)
  PROVE  AufsInv'
  <1>0. /\ AiopsInv /\ FilesInv /\ AnswerTo(r, "open", "live") /\ req[r].ret = NoFd
        /\ Opening_FD' = Opening_FD - 1 /\ used' = used \ {r} /\ NoAskFrom(r)
        /\ UNCHANGED <<cancelled, fds, store_open_disk_fd>>
    BY DEF AufsInv, OpenFailed
  <1>1. PICK s \in Sios :
           /\ s = req[r].sio /\ req[r].op = "open" /\ r \in used /\ TakeDone(r)
           /\ sio[s].fd = NoFd /\ sio[s].opening /\ r \in Live
           /\ \A x \in used \ {r} : req[x].sio # s
    BY <1>0, Answered
  <1>2. sio' = [sio EXCEPT ![s] = FreeSio]
    BY <1>1 DEF OpenFailed
  <1>3. FreeSio \in SioType /\ FreeSio.opening = FALSE /\ FreeSio.fd = NoFd
        /\ sio[s].opening \in BOOLEAN
    <2>1. FreeSio \in SioType /\ sio[s] \in SioType
      BY <1>0, ObjectStates
    <2>. QED
      BY <2>1 DEF FreeSio, SioType
  <1>4. /\ CountersExact' /\ Opening_FD' \in Nat /\ store_open_disk_fd' \in Nat
        /\ sio' \in [Sios -> SioType] /\ sio'[s] = FreeSio
        /\ \A x \in Sios \ {s} : sio'[x] = sio[x]
    BY <1>0, <1>1, <1>2, <1>3, CountersNext
  <1>5. /\ AiopsInv' /\ FileStep({r}, {}, {}, s)
        /\ req' \in [Requests -> RequestType] /\ used' \subseteq Requests
    BY <1>0, <1>1, <1>4, AnswerOnly
  <1>6. AufsTypeOK'
    BY <1>0, <1>4, <1>5 DEF FilesInv, AufsTypeOK
  <1>7. OneHand'
    BY <1>0, <1>1, <1>3, <1>4, <1>5, HandsSame
  <1>8. ObjectOkay(s)'
    BY <1>4 DEF ObjectOkay
  <1>9. FilesInv'
    BY <1>0, <1>1, <1>4, <1>5, <1>6, <1>7, <1>8, FileStepKeeps
  <1>. QED
    BY <1>5, <1>9 DEF AufsInv

(* A file is open for a reader, whose read, if it waited, is asked for.      *)
LEMMA OpenedToReadStep ==
  ASSUME AufsInv, NEW r \in Requests, OpenedToRead(r)
  PROVE  AufsInv'
  <1>0. /\ AiopsInv /\ FilesInv /\ AnswerTo(r, "open", "live") /\ req[r].ret # NoFd
        /\ Opening_FD' = Opening_FD - 1
        /\ store_open_disk_fd' = store_open_disk_fd + 1
        /\ UNCHANGED <<cancelled, fds>>
    BY DEF AufsInv, OpenedToRead
  <1>1. PICK s \in Sios :
           /\ s = req[r].sio /\ req[r].op = "open" /\ r \in used /\ TakeDone(r)
           /\ sio[s].state = "live" /\ sio[s].fd = NoFd
           /\ sio[s].opening /\ ~sio[s].reading /\ r \in Live
           /\ req[r].ret \in Fds \cup {NoFd}
           /\ \A x \in used \ {r} : req[x].sio # s
    BY <1>0, Answered
  <1>2. PICK f \in Fds : f = req[r].ret
    BY <1>0, <1>1
  <1>3. sio \in [Sios -> SioType] /\ sio[s] \in SioType /\ ObjectOkay(s)!3
    BY <1>0, <1>1, ObjectStates DEF SioLive
  <1>4. sio[s].mode = "R"
    BY <1>1 DEF OpenedToRead
  <1>5. NoFd \notin Fds
    BY AufsAssumption
  <1>6. CASE /\ sio[s].pending_reads = 0
             /\ sio' = [sio EXCEPT ![s].opening = FALSE, ![s].fd = f]
             /\ used' = used \ {r} /\ NoAskFrom(r)
    <2>1. PICK o : /\ o = [sio[s] EXCEPT !.opening = FALSE, !.fd = f]
                   /\ sio' = [sio EXCEPT ![s] = o]
      BY <1>3, <1>6 DEF SioType
    <2>2. /\ o \in SioType /\ o.state = "live" /\ o.mode = "R" /\ o.fd = f
          /\ o.opening = FALSE /\ o.reading = sio[s].reading
          /\ o.user = sio[s].user /\ o.pending_reads = sio[s].pending_reads
          /\ o.close_request = sio[s].close_request /\ sio[s].opening \in BOOLEAN
      BY <1>1, <1>3, <1>4, <2>1 DEF SioType
    <2>3. /\ CountersExact' /\ Opening_FD' \in Nat /\ store_open_disk_fd' \in Nat
          /\ sio' \in [Sios -> SioType] /\ sio'[s] = o
          /\ \A x \in Sios \ {s} : sio'[x] = sio[x]
      BY <1>0, <1>1, <1>5, <2>1, <2>2, CountersNext
    <2>4. /\ AiopsInv' /\ FileStep({r}, {}, {}, s)
          /\ req' \in [Requests -> RequestType] /\ used' \subseteq Requests
      BY <1>0, <1>1, <1>6, <2>3, AnswerOnly
    <2>5. AufsTypeOK'
      BY <1>0, <2>3, <2>4 DEF FilesInv, AufsTypeOK
    <2>6. OneHand'
      BY <1>0, <1>1, <1>2, <2>2, <2>3, <2>4, HandPasses
    <2>7. ObjectOkay(s)'
      <3>1. /\ ~o.opening /\ o.fd # NoFd /\ ~o.reading /\ o.pending_reads = 0
            /\ o.user # "reading" /\ (o.close_request <=> o.user = "gone")
        BY <1>1, <1>3, <1>5, <1>6, <2>2
      <3>. QED
        BY <2>2, <2>3, <3>1 DEF ObjectOkay, SioLive
    <2>8. FilesInv'
      BY <1>0, <1>1, <2>3, <2>4, <2>5, <2>6, <2>7, FileStepKeeps
    <2>. QED
      BY <2>4, <2>8 DEF AufsInv
  <1>7. ASSUME NEW q \in FreedBy(r), sio[s].pending_reads > 0,
               sio' = [sio EXCEPT ![s].opening = FALSE, ![s].fd = f,
                           ![s].pending_reads = @ - 1, ![s].reading = TRUE],
               AskFrom(r, q, "read", s, f), used' = (used \ {r}) \cup {q}
        PROVE  AufsInv'
    <2>0. sio[s].pending_reads = 1 /\ sio[s].user = "reading"
      <3>1. sio[s].pending_reads \in 0..1
        BY <1>3 DEF SioType
      <3>2. sio[s].pending_reads = 1
        BY <1>7, <3>1
      <3>. QED
        BY <1>3, <3>2
    <2>1. PICK o : /\ o = [sio[s] EXCEPT !.opening = FALSE, !.fd = f,
                               !.pending_reads = 0, !.reading = TRUE]
                   /\ sio' = [sio EXCEPT ![s] = o]
      BY <1>3, <1>7, <2>0 DEF SioType
    <2>2. /\ o \in SioType /\ o.state = "live" /\ o.mode = "R" /\ o.fd = f
          /\ o.opening = FALSE /\ o.reading = TRUE
          /\ o.user = "reading" /\ o.pending_reads = 0
          /\ o.close_request = sio[s].close_request /\ sio[s].opening \in BOOLEAN
      <3>1. 0 \in 0..1
        OBVIOUS
      <3>. QED
        BY <1>1, <1>3, <1>4, <2>0, <2>1, <3>1 DEF SioType
    <2>3. /\ CountersExact' /\ Opening_FD' \in Nat /\ store_open_disk_fd' \in Nat
          /\ sio' \in [Sios -> SioType] /\ sio'[s] = o
          /\ \A x \in Sios \ {s} : sio'[x] = sio[x]
      BY <1>0, <1>1, <1>5, <2>1, <2>2, CountersNext
    <2>4. /\ AiopsInv' /\ FileStep({r}, {q}, {}, s)
          /\ req' \in [Requests -> RequestType] /\ used' \subseteq Requests
          /\ req'[q] = [op |-> "read", sio |-> s, fd |-> f, ret |-> NoFd]
          /\ q \in NotRun' /\ q \in used'
      <3>1. /\ r \in used /\ TakeDone(r) /\ req[r].sio = s /\ cancelled' = cancelled
            /\ squidaio_queue_request(q, "check") /\ used' = (used \ {r}) \cup {q}
            /\ req' = [[req EXCEPT ![r] = NoReq] EXCEPT
                           ![q] = [op |-> "read", sio |-> s, fd |-> f, ret |-> NoFd]]
        BY <1>0, <1>1, <1>7 DEF AskFrom, Queue
      <3>. QED
        BY <1>0, <2>3, <3>1, AnswerRead
    <2>5. AufsTypeOK'
      BY <1>0, <2>3, <2>4 DEF FilesInv, AufsTypeOK
    <2>6. OneHand'
      BY <1>0, <1>1, <1>2, <2>2, <2>3, <2>4, HandPasses
    <2>7. RequestOkay(q)'
      BY <2>2, <2>3, <2>4 DEF RequestOkay, SioLive
    <2>8. ObjectOkay(s)'
      <3>1. Waits(s, "read")'
        BY <2>4 DEF Waits
      <3>2. /\ ~o.opening /\ o.fd # NoFd /\ ~o.close_request
        BY <1>3, <1>5, <2>0, <2>2
      <3>. QED
        BY <2>2, <2>3, <3>1, <3>2 DEF ObjectOkay, SioLive
    <2>9. FilesInv'
      BY <1>0, <1>1, <2>3, <2>4, <2>5, <2>6, <2>7, <2>8, FileStepKeeps
    <2>. QED
      BY <2>4, <2>9 DEF AufsInv
  <1>. QED
    BY <1>1, <1>2, <1>6, <1>7 DEF OpenedToRead

(* aioCancel of the descriptor that a request got from its open finds only   *)
(* closes that threads have made.                                            *)
LEMMA CancelOpened ==
  ASSUME AiopsInv, FilesInv, NEW r \in Live, NEW f \in Fds, req[r].op = "open",
         req[r].ret = f
  PROVE  /\ r \in Hands(f)
         /\ CancelledBy(f) \subseteq used \ {r}
         /\ \A c \in CancelledBy(f) : req[c].op = "close" /\ c \notin NotRun
  <1>1. r \in Hands(f)
    BY DEF Hands
  <1>2. r \notin Sios
    BY InUse, AufsAssumption
  <1>3. ASSUME NEW c \in CancelledBy(f)
        PROVE  c \in used /\ c # r /\ req[c].op = "close" /\ c \notin NotRun
    <2>1. /\ c \in used /\ c \in Live
          /\ \/ req[c].op = "close" /\ c \notin NotRun
             \/ req[c].op = "close" /\ c = r
             \/ req[c].op = "read" /\ req[c].sio = r
      BY <1>1, CancelFinds
    <2>2. req[c].op = "read" => req[c].sio \in Sios
      BY <2>1 DEF FilesInv, RequestOkay
    <2>. QED
      BY <1>2, <2>1, <2>2
  <1>. QED
    BY <1>1, <1>3

(* A file is open for a writer: the writes that waited are made; the file is *)
(* closed if one of them fails, or if a close waits too.                     *)
LEMMA OpenedToWriteStep ==
  ASSUME AufsInv, NEW r \in Requests, OpenedToWrite(r)
  PROVE  AufsInv'
  <1>0. /\ AiopsInv /\ FilesInv /\ AnswerTo(r, "open", "live") /\ req[r].ret # NoFd
        /\ Opening_FD' = Opening_FD - 1 /\ NoAskFrom(r)
    BY DEF AufsInv, OpenedToWrite
  <1>1. PICK s \in Sios :
           /\ s = req[r].sio /\ req[r].op = "open" /\ r \in used /\ TakeDone(r)
           /\ sio[s].state = "live" /\ sio[s].fd = NoFd
           /\ sio[s].opening /\ ~sio[s].reading /\ r \in Live
           /\ req[r].ret \in Fds \cup {NoFd}
           /\ \A x \in used \ {r} : req[x].sio # s
    BY <1>0, Answered
  <1>2. PICK f \in Fds : f = req[r].ret
    BY <1>0, <1>1
  <1>3. /\ sio \in [Sios -> SioType] /\ sio[s] \in SioType /\ ObjectOkay(s)!3
        /\ FreeSio \in SioType
    BY <1>0, <1>1, ObjectStates DEF SioLive
  <1>4. sio[s].mode = "W" /\ NoFd \notin Fds
    BY <1>1, AufsAssumption DEF OpenedToWrite
  <1>5. CASE /\ sio' = [sio EXCEPT ![s] = FreeSio]
             /\ cancelled' = cancelled \cup CancelledBy(f)
             /\ used' = used \ (CancelledBy(f) \cup {r})
             /\ fds' = fds \ {f} /\ store_open_disk_fd' = store_open_disk_fd
    <2>1. FreeSio.opening = FALSE /\ FreeSio.fd = NoFd /\ sio[s].opening \in BOOLEAN
      BY <1>3 DEF FreeSio, SioType
    <2>2. /\ CountersExact' /\ Opening_FD' \in Nat /\ store_open_disk_fd' \in Nat
          /\ sio' \in [Sios -> SioType] /\ sio'[s] = FreeSio
          /\ \A x \in Sios \ {s} : sio'[x] = sio[x]
      BY <1>0, <1>1, <1>3, <1>5, <2>1, CountersNext
    <2>3. PICK C : C = CancelledBy(f)
      OBVIOUS
    <2>4. /\ r \in Hands(f) /\ C \subseteq used \ {r}
          /\ \A c \in C : req[c].op = "close" /\ c \notin NotRun
      BY <1>0, <1>1, <1>2, <2>3, CancelOpened
    <2>5. /\ AiopsInv' /\ FileStep({r}, {}, C, s)
          /\ req' \in [Requests -> RequestType] /\ used' \subseteq Requests
      <3>1. /\ r \in used /\ TakeDone(r) /\ NoAskFrom(r) /\ req[r].sio \in {s, NoSio}
            /\ cancelled' = cancelled \cup C /\ used' = used \ (C \cup {r})
        BY <1>0, <1>1, <1>5, <2>3
      <3>. QED
        BY <1>0, <2>2, <2>4, <3>1, AnswerPlain
    <2>6. AufsTypeOK'
      BY <1>0, <1>5, <2>2, <2>5 DEF FilesInv, AufsTypeOK
    <2>7. OneHand'
      BY <1>0, <1>1, <1>2, <1>5, <2>1, <2>2, <2>4, <2>5, HandCloses
    <2>8. ObjectOkay(s)'
      BY <2>2 DEF ObjectOkay
    <2>9. FilesInv'
      BY <1>0, <1>1, <2>2, <2>5, <2>6, <2>7, <2>8, FileStepKeeps
    <2>. QED
      BY <2>5, <2>9 DEF AufsInv
  <1>6. CASE /\ ~sio[s].close_request
             /\ sio' = [sio EXCEPT ![s].opening = FALSE, ![s].fd = f,
                            ![s].pending_writes = 0]
             /\ used' = used \ {r} /\ store_open_disk_fd' = store_open_disk_fd + 1
             /\ UNCHANGED <<cancelled, fds>>
    <2>0. /\ used' = used \ {r} /\ store_open_disk_fd' = store_open_disk_fd + 1
          /\ cancelled' = cancelled /\ fds' = fds
      BY <1>6
    <2>1. PICK o : /\ o = [sio[s] EXCEPT !.opening = FALSE, !.fd = f,
                               !.pending_writes = 0]
                   /\ sio' = [sio EXCEPT ![s] = o]
      BY <1>3, <1>6 DEF SioType
    <2>2. /\ o \in SioType /\ o.state = "live" /\ o.mode = "W" /\ o.fd = f
          /\ o.opening = FALSE /\ o.reading = sio[s].reading
          /\ o.user = sio[s].user /\ o.pending_reads = sio[s].pending_reads
          /\ o.close_request = sio[s].close_request /\ sio[s].opening \in BOOLEAN
      <3>1. 0 \in 0..MaxWrites
        BY AufsAssumption
      <3>. QED
        BY <1>1, <1>3, <1>4, <2>1, <3>1 DEF SioType
    <2>3. /\ CountersExact' /\ Opening_FD' \in Nat /\ store_open_disk_fd' \in Nat
          /\ sio' \in [Sios -> SioType] /\ sio'[s] = o
          /\ \A x \in Sios \ {s} : sio'[x] = sio[x]
      BY <1>0, <1>1, <1>4, <2>0, <2>1, <2>2, CountersNext
    <2>4. /\ AiopsInv' /\ FileStep({r}, {}, {}, s)
          /\ req' \in [Requests -> RequestType] /\ used' \subseteq Requests
      BY <1>0, <1>1, <2>0, <2>3, AnswerOnly
    <2>5. AufsTypeOK'
      BY <1>0, <2>0, <2>3, <2>4 DEF FilesInv, AufsTypeOK
    <2>6. OneHand'
      BY <1>0, <1>1, <1>2, <2>0, <2>2, <2>3, <2>4, HandPasses
    <2>7. ObjectOkay(s)'
      <3>1. sio[s].user # "reading" /\ sio[s].pending_reads = 0
        BY <1>3, <1>4
      <3>2. /\ ~o.opening /\ o.fd # NoFd /\ ~o.reading /\ o.pending_reads = 0
            /\ o.user # "reading" /\ (o.close_request <=> o.user = "gone")
        BY <1>1, <1>3, <1>4, <2>2, <3>1
      <3>. QED
        BY <2>2, <2>3, <3>2 DEF ObjectOkay, SioLive
    <2>8. FilesInv'
      BY <1>0, <1>1, <2>3, <2>4, <2>5, <2>6, <2>7, FileStepKeeps
    <2>. QED
      BY <2>4, <2>8 DEF AufsInv
  <1>. QED
    BY <1>1, <1>2, <1>5, <1>6 DEF OpenedToWrite

(* The user has gone: the file that was opened for it is closed by a thread. *)
LEMMA OpenAbortedStep ==
  ASSUME AufsInv, NEW r \in Requests, OpenAborted(r)
  PROVE  AufsInv'
  <1>0. /\ AiopsInv /\ FilesInv /\ AnswerTo(r, "open", "zombie")
        /\ UNCHANGED <<fds, Opening_FD, store_open_disk_fd>>
    BY DEF AufsInv, OpenAborted
  <1>1. PICK s \in Sios :
           /\ s = req[r].sio /\ req[r].op = "open" /\ r \in used /\ TakeDone(r)
           /\ sio[s].state = "zombie" /\ sio[s].fd = NoFd /\ r \in Live
           /\ req[r].ret \in Fds \cup {NoFd}
           /\ \A x \in used \ {r} : req[x].sio # s
    BY <1>0, Answered
  <1>2. /\ sio[s] = [FreeSio EXCEPT !.state = "zombie"] /\ FreeSio \in SioType
    BY <1>0, <1>1, ObjectStates
  <1>3. /\ sio[s].opening = FALSE /\ FreeSio.opening = FALSE /\ FreeSio.fd = NoFd
        /\ NoFd \notin Fds
    BY <1>2, AufsAssumption DEF FreeSio
  <1>4. sio' = [sio EXCEPT ![s] = FreeSio]
    BY <1>1 DEF OpenAborted
  <1>5. /\ CountersExact' /\ Opening_FD' \in Nat /\ store_open_disk_fd' \in Nat
        /\ sio' \in [Sios -> SioType] /\ sio'[s] = FreeSio
        /\ \A x \in Sios \ {s} : sio'[x] = sio[x]
    BY <1>0, <1>1, <1>2, <1>3, <1>4, CountersNext
  <1>6. ObjectOkay(s)'
    BY <1>5 DEF ObjectOkay
  <1>7. CASE /\ req[r].ret = NoFd /\ used' = used \ {r} /\ NoAskFrom(r)
             /\ cancelled' = cancelled
    <2>1. /\ AiopsInv' /\ FileStep({r}, {}, {}, s)
          /\ req' \in [Requests -> RequestType] /\ used' \subseteq Requests
      BY <1>0, <1>1, <1>5, <1>7, AnswerOnly
    <2>2. AufsTypeOK'
      BY <1>0, <1>5, <2>1 DEF FilesInv, AufsTypeOK
    <2>3. OneHand'
      BY <1>0, <1>1, <1>3, <1>5, <1>7, <2>1, HandsSame
    <2>4. FilesInv'
      BY <1>0, <1>1, <1>5, <1>6, <2>1, <2>2, <2>3, FileStepKeeps
    <2>. QED
      BY <2>1, <2>4 DEF AufsInv
  <1>8. ASSUME NEW q \in FreedBy(r), NEW f \in Fds, f = req[r].ret,
               cancelled' = cancelled \cup CancelledBy(f),
               AskFrom(r, q, "close", NoSio, f),
               used' = (used \ (CancelledBy(f) \cup {r})) \cup {q}
        PROVE  AufsInv'
    <2>1. PICK v : v = [op |-> "close", sio |-> NoSio, fd |-> f, ret |-> NoFd]
      OBVIOUS
    <2>2. v \in RequestType /\ v.sio = NoSio /\ v.ret = NoFd /\ v.op = "close" /\ v.fd = f
      BY <2>1 DEF RequestType
    <2>3. /\ squidaio_queue_request(q, "check")
          /\ req' = [[req EXCEPT ![r] = NoReq] EXCEPT ![q] = v]
      BY <1>8, <2>1 DEF AskFrom, Queue
    <2>4. PICK C : C = CancelledBy(f)
      OBVIOUS
    <2>5. /\ C \subseteq used \ {r}
          /\ \A c \in C : req[c].op = "close" /\ c \notin NotRun
      BY <1>0, <1>1, <1>8, <2>4, CancelOpened
    <2>6. /\ AiopsInv' /\ FileStep({r}, {q}, C, s)
          /\ req' \in [Requests -> RequestType] /\ used' \subseteq Requests
          /\ req'[q] = v /\ q \in NotRun' /\ q \in used'
      <3>1. /\ r \in used /\ TakeDone(r) /\ req[r].sio \in {s, NoSio}
            /\ cancelled' = cancelled \cup C /\ used' = (used \ (C \cup {r})) \cup {q}
        BY <1>0, <1>1, <1>8, <2>4
      <3>. QED
        BY <1>0, <1>5, <2>2, <2>3, <2>5, <3>1, AnswerAsk
    <2>7. AufsTypeOK'
      BY <1>0, <1>5, <2>6 DEF FilesInv, AufsTypeOK
    <2>8. OneHand'
      <3>1. \E p \in {q} : {q} = {p} /\ req'[p].op = "close" /\ req'[p].fd = f
        BY <2>2, <2>6
      <3>. QED
        BY <1>0, <1>1, <1>3, <1>5, <1>8, <2>6, <3>1, HandPasses
    <2>9. RequestOkay(q)'
      BY <2>2, <2>6 DEF RequestOkay
    <2>10. FilesInv'
      BY <1>0, <1>1, <1>5, <1>6, <2>6, <2>7, <2>8, <2>9, FileStepKeeps
    <2>. QED
      BY <2>6, <2>10 DEF AufsInv
  <1>. QED
    BY <1>1, <1>7, <1>8 DEF OpenAborted

(* A read is answered: the user stays, reads on, or closes.                  *)
LEMMA ReadDoneStep ==
  ASSUME AufsInv, NEW r \in Requests, ReadDone(r)
  PROVE  AufsInv'
  <1>0. AiopsInv /\ FilesInv /\ AnswerTo(r, "read", "live")
    BY DEF AufsInv, ReadDone
  <1>1. PICK s \in Sios :
           /\ s = req[r].sio /\ req[r].op = "read" /\ r \in used /\ TakeDone(r)
           /\ sio[s].state = "live" /\ r \in Live
           /\ \A x \in used \ {r} : req[x].sio # s
           /\ sio[s].fd \in Fds /\ sio[s].reading /\ ~sio[s].opening
           /\ sio[s].mode = "R"
    BY <1>0, Answered
  <1>2. PICK f \in Fds : f = sio[s].fd
    BY <1>1
  <1>3. /\ sio \in [Sios -> SioType] /\ sio[s] \in SioType /\ ObjectOkay(s)!3
        /\ FreeSio \in SioType
    BY <1>0, <1>1, ObjectStates DEF SioLive
  <1>4. NoFd \notin Fds
    BY AufsAssumption
  <1>5. CASE /\ ~sio[s].close_request
             /\ sio' = [sio EXCEPT ![s].reading = FALSE, ![s].user = "idle"]
             /\ used' = used \ {r} /\ NoAskFrom(r)
             /\ UNCHANGED <<cancelled, fds, Opening_FD, store_open_disk_fd>>
    <2>0. /\ used' = used \ {r} /\ NoAskFrom(r)
          /\ UNCHANGED <<cancelled, fds, Opening_FD, store_open_disk_fd>>
      BY <1>5
    <2>1. PICK o : /\ o = [sio[s] EXCEPT !.reading = FALSE, !.user = "idle"]
                   /\ sio' = [sio EXCEPT ![s] = o]
      BY <1>3, <1>5 DEF SioType
    <2>2. /\ o \in SioType /\ o.state = "live" /\ o.mode = "R" /\ o.fd = f
          /\ o.opening = sio[s].opening /\ o.reading = FALSE /\ o.user = "idle"
          /\ o.pending_reads = sio[s].pending_reads
          /\ o.close_request = sio[s].close_request
      BY <1>1, <1>2, <1>3, <2>1 DEF SioType
    <2>3. /\ CountersExact' /\ Opening_FD' \in Nat /\ store_open_disk_fd' \in Nat
          /\ sio' \in [Sios -> SioType] /\ sio'[s] = o
          /\ \A x \in Sios \ {s} : sio'[x] = sio[x]
      <3>1. /\ sio' = [sio EXCEPT ![s] = o] /\ o \in SioType
            /\ sio[s].opening = o.opening /\ (sio[s].fd = NoFd <=> o.fd = NoFd)
            /\ Opening_FD' = Opening_FD /\ store_open_disk_fd' = store_open_disk_fd
        BY <1>2, <2>0, <2>1, <2>2
      <3>. QED
        BY <1>0, <3>1, CountersNext
    <2>4. /\ AiopsInv' /\ FileStep({r}, {}, {}, s)
          /\ req' \in [Requests -> RequestType] /\ used' \subseteq Requests
      BY <1>0, <1>1, <2>0, <2>3, AnswerOnly
    <2>5. AufsTypeOK'
      BY <1>0, <2>0, <2>3, <2>4 DEF FilesInv, AufsTypeOK
    <2>6. OneHand'
      BY <1>0, <1>1, <1>2, <2>0, <2>2, <2>3, <2>4, HandsSame
    <2>7. ObjectOkay(s)'
      <3>1. /\ ~o.opening /\ o.fd # NoFd /\ o.pending_reads = 0 /\ ~o.close_request
        BY <1>1, <1>3, <1>4, <1>5, <2>2
      <3>. QED
        BY <2>2, <2>3, <3>1 DEF ObjectOkay, SioLive
    <2>8. FilesInv'
      BY <1>0, <1>1, <2>3, <2>4, <2>5, <2>6, <2>7, FileStepKeeps
    <2>. QED
      BY <2>4, <2>8 DEF AufsInv
  <1>6. ASSUME NEW q \in FreedBy(r), sio' = sio, AskFrom(r, q, "read", s, sio[s].fd),
               used' = (used \ {r}) \cup {q},
               UNCHANGED <<cancelled, fds, Opening_FD, store_open_disk_fd>>
        PROVE  AufsInv'
    <2>1. /\ AiopsInv' /\ FileStep({r}, {q}, {}, s)
          /\ req' \in [Requests -> RequestType] /\ used' \subseteq Requests
          /\ req'[q] = [op |-> "read", sio |-> s, fd |-> f, ret |-> NoFd]
          /\ q \in NotRun' /\ q \in used'
      <3>1. /\ r \in used /\ TakeDone(r) /\ req[r].sio = s /\ cancelled' = cancelled
            /\ squidaio_queue_request(q, "check") /\ used' = (used \ {r}) \cup {q}
            /\ req' = [[req EXCEPT ![r] = NoReq] EXCEPT
                           ![q] = [op |-> "read", sio |-> s, fd |-> f, ret |-> NoFd]]
        BY <1>1, <1>2, <1>6 DEF AskFrom, Queue
      <3>2. \A x \in Sios \ {s} : sio'[x] = sio[x]
        BY <1>6
      <3>. QED
        BY <1>0, <3>1, <3>2, AnswerRead
    <2>2. AufsTypeOK' /\ CountersExact'
      BY <1>0, <1>6, <2>1 DEF FilesInv, AufsTypeOK, CountersExact
    <2>3. OneHand'
      BY <1>0, <1>1, <1>6, <2>1, HandsSame
    <2>4. RequestOkay(q)'
      BY <1>1, <1>2, <1>6, <2>1 DEF RequestOkay, SioLive
    <2>5. ObjectOkay(s)'
      <3>1. Waits(s, "read")'
        BY <2>1 DEF Waits
      <3>. QED
        BY <1>1, <1>3, <1>6, <3>1 DEF ObjectOkay, SioLive
    <2>6. FilesInv'
      BY <1>0, <1>1, <2>1, <2>2, <2>3, <2>4, <2>5, FileStepKeeps
    <2>. QED
      BY <2>1, <2>6 DEF AufsInv
  <1>7. CASE /\ sio' = [sio EXCEPT ![s] = FreeSio]
             /\ cancelled' = cancelled \cup (CancelledBy(f) \ {r})
             /\ used' = used \ ((CancelledBy(f) \ {r}) \cup {r})
             /\ fds' = fds \ {f} /\ store_open_disk_fd' = store_open_disk_fd - 1
             /\ NoAskFrom(r) /\ UNCHANGED Opening_FD
    <2>1. FreeSio.opening = FALSE /\ FreeSio.fd = NoFd
      BY DEF FreeSio
    <2>2. /\ CountersExact' /\ Opening_FD' \in Nat /\ store_open_disk_fd' \in Nat
          /\ sio' \in [Sios -> SioType] /\ sio'[s] = FreeSio
          /\ \A x \in Sios \ {s} : sio'[x] = sio[x]
      BY <1>0, <1>1, <1>2, <1>3, <1>4, <1>7, <2>1, CountersNext
    <2>3. PICK C : C = CancelledBy(f) \ {r}
      OBVIOUS
    <2>4. s \in Hands(f)
      BY <1>2 DEF Hands
    <2>5. C \subseteq used \ {r} /\ \A c \in C : req[c].op = "close" /\ c \notin NotRun
      <3>1. s \notin Requests /\ used \subseteq Requests
        BY <1>0, AufsAssumption DEF FilesInv, AufsTypeOK
      <3>. QED
        BY <1>0, <1>1, <2>3, <2>4, <3>1, CancelFinds
    <2>6. /\ AiopsInv' /\ FileStep({r}, {}, C, s)
          /\ req' \in [Requests -> RequestType] /\ used' \subseteq Requests
      <3>1. /\ r \in used /\ TakeDone(r) /\ NoAskFrom(r) /\ req[r].sio \in {s, NoSio}
            /\ cancelled' = cancelled \cup C /\ used' = used \ (C \cup {r})
        BY <1>1, <1>7, <2>3
      <3>. QED
        BY <1>0, <2>2, <2>5, <3>1, AnswerPlain
    <2>7. AufsTypeOK'
      BY <1>0, <1>7, <2>2, <2>6 DEF FilesInv, AufsTypeOK
    <2>8. OneHand'
      BY <1>0, <1>1, <1>2, <1>7, <2>1, <2>2, <2>4, <2>6, HandCloses
    <2>9. ObjectOkay(s)'
      BY <2>2 DEF ObjectOkay
    <2>10. FilesInv'
      BY <1>0, <1>1, <2>2, <2>6, <2>7, <2>8, <2>9, FileStepKeeps
    <2>. QED
      BY <2>6, <2>10 DEF AufsInv
  <1>. QED
    BY <1>1, <1>2, <1>5, <1>6, <1>7 DEF ReadDone

(* A close or an unlink is answered: nobody is told.                         *)
LEMMA DoneSilentlyStep ==
  ASSUME AufsInv, NEW r \in Requests, DoneSilently(r)
  PROVE  AufsInv'
  <1>0. /\ AiopsInv /\ FilesInv /\ TakeDone(r) /\ r \in used
        /\ req[r].op \in {"close", "unlink"} /\ used' = used \ {r} /\ NoAskFrom(r)
        /\ UNCHANGED <<cancelled, sio, fds, Opening_FD, store_open_disk_fd>>
    BY DEF AufsInv, DoneSilently, AnswerTo
  <1>1. req[r].sio = NoSio
    <2>1. RequestOkay(r)
      BY <1>0 DEF FilesInv, Blocks
    <2>. QED
      BY <1>0, <2>1 DEF RequestOkay
  <1>2. /\ AiopsInv' /\ FileStep({r}, {}, {}, NoSio)
        /\ req' \in [Requests -> RequestType] /\ used' \subseteq Requests
    BY <1>0, <1>1, AnswerOnly
  <1>3. OneHand'
    BY <1>0, <1>2, HandsSame, AufsAssumption
  <1>4. AufsTypeOK' /\ CountersExact'
    BY <1>0, <1>2 DEF FilesInv, AufsTypeOK, CountersExact
  <1>5. FilesInv'
    BY <1>0, <1>2, <1>3, <1>4, FileStepKeeps, AufsAssumption
  <1>. QED
    BY <1>2, <1>5 DEF AufsInv
-----------------------------------------------------------------------------
(* The theorems. *)

(* Nothing changes in the files when only the pool moves.                    *)
LEMMA FilesAlone ==
  ASSUME FilesInv, UNCHANGED filevars, Live' = Live, NotRun' = NotRun,
         cancelled' = cancelled
  PROVE  FilesInv'
  <1>1. UNCHANGED <<req, used, sio, fds, Opening_FD, store_open_disk_fd>>
    BY DEF filevars
  <1>2. AufsTypeOK' /\ Blocks' /\ OneRequest' /\ CountersExact'
    BY <1>1 DEF FilesInv, AufsTypeOK, Blocks, OneRequest, CountersExact
  <1>3. \A fd : Hands(fd)' = Hands(fd)
    BY <1>1 DEF Hands
  <1>4. OneHand'
    BY <1>1, <1>3 DEF FilesInv, OneHand
  <1>5. ASSUME NEW r \in Live' PROVE RequestOkay(r)'
    BY <1>1, RequestKept DEF FilesInv
  <1>6. ASSUME NEW s \in Sios PROVE ObjectOkay(s)'
    BY <1>1, ObjectKept DEF FilesInv
  <1>. QED
    BY <1>2, <1>4, <1>5, <1>6 DEF FilesInv

(* The store starts with nothing open and nothing asked.                     *)
LEMMA AufsInvInit == AufsInit => AufsInv
  <1> SUFFICES ASSUME AufsInit PROVE AufsInv
    OBVIOUS
  <1>1. AiopsInv
    BY AiopsInvInit DEF AufsInit, Init
  <1>2. /\ req = [r \in Requests |-> NoReq] /\ used = {}
        /\ sio = [s \in Sios |-> FreeSio]
        /\ fds = {} /\ Opening_FD = 0 /\ store_open_disk_fd = 0
        /\ request_queue = <<>> /\ request_queue2 = <<>>
        /\ done_queue = <<>> /\ done_requests = <<>> /\ cancelled = {}
        /\ thread = [t \in Threads |-> [status |-> "waiting", req |-> NoRequest]]
    BY DEF AufsInit, AioInit
  <1>3. Live = {} /\ NotRun = {}
    <2>1. Taken = {} /\ Running = {}
      BY <1>2 DEF Taken, Running, At
    <2>2. asked = <<>> /\ done = <<>>
      BY <1>2, ConcatEmptySeq DEF asked, done
    <2>. QED
      BY <1>1, <2>1, <2>2, InUse, EmptyQueue
  <1>4. \A s \in Sios : sio[s] = FreeSio /\ sio[s].opening = FALSE /\ sio[s].fd = NoFd
    BY <1>2 DEF FreeSio
  <1>5. AufsTypeOK
    <2>1. 0 \in 0..1 /\ 0 \in 0..MaxWrites
      BY AufsAssumption
    <2>2. FreeSio \in SioType /\ NoReq \in RequestType
      BY <2>1 DEF FreeSio, SioType, NoReq, RequestType
    <2>. QED
      BY <1>2, <2>2 DEF AufsTypeOK
  <1>6. Blocks /\ OneRequest
    BY <1>2, <1>3 DEF Blocks, OneRequest
  <1>7. OneHand
    <2>1. \A fd \in Fds : Hands(fd) = {}
      BY <1>3, <1>4, AufsAssumption DEF Hands
    <2>. QED
      BY <1>2, <2>1 DEF OneHand
  <1>8. CountersExact
    <2>1. {s \in Sios : sio[s].opening} = {} /\ {s \in Sios : sio[s].fd # NoFd} = {}
      BY <1>4
    <2>. QED
      BY <1>2, <2>1, FS_EmptySet DEF CountersExact
  <1>9. \A s \in Sios : ObjectOkay(s)
    BY <1>4 DEF ObjectOkay
  <1>. QED
    BY <1>1, <1>3, <1>5, <1>6, <1>7, <1>8, <1>9 DEF AufsInv, FilesInv

(* Every step of the store keeps its files in order.                         *)
LEMMA AufsInvStep == AufsInv /\ [AufsNext]_aufsvars => AufsInv'
  <1> SUFFICES ASSUME AufsInv, [AufsNext]_aufsvars PROVE AufsInv'
    OBVIOUS
  <1>1. CASE MainOther
    BY <1>1, MainOwnStep, FilesAlone DEF MainOther, AufsInv
  <1>2. CASE squidaio_cleanup_request
    BY <1>2, CleanupStep
  <1>3. ASSUME NEW t \in Threads, Run(t) \/ (ThreadStep(t) /\ UNCHANGED filevars)
        PROVE  AufsInv'
    <2>1. CASE Run(t)
      BY <2>1, RunStep
    <2>2. CASE ThreadStep(t) /\ UNCHANGED filevars
      BY <2>2, ThreadOwnStep, FilesAlone DEF AufsInv
    <2>. QED
      BY <1>3, <2>1, <2>2
  <1>4. ASSUME NEW s \in Sios, \/ QueueRead(s) \/ QueueWrite(s)
                               \/ storeAufsWriteFails(s) \/ storeAufsClose(s)
        PROVE  AufsInv'
    BY <1>4, QueueReadStep, QueueWriteStep, WriteFailsStep, CloseStep
  <1>5. ASSUME NEW s \in Sios, NEW r \in Requests,
               storeAufsOpen(s, r) \/ storeAufsCreate(s, r) \/ storeAufsRead(s, r)
        PROVE  AufsInv'
    BY <1>5, OpenStep, ReadStep DEF storeAufsOpen, storeAufsCreate
  <1>6. ASSUME NEW r \in Requests,
               \/ storeAufsUnlink(r) \/ OpenFailed(r) \/ OpenedToRead(r)
               \/ OpenedToWrite(r) \/ OpenAborted(r) \/ ReadDone(r)
               \/ DoneSilently(r)
        PROVE  AufsInv'
    BY <1>6, UnlinkStep, OpenFailedStep, OpenedToReadStep, OpenedToWriteStep,
       OpenAbortedStep, ReadDoneStep, DoneSilentlyStep
  <1>7. CASE UNCHANGED aufsvars
    <2>1. UNCHANGED aiovars /\ UNCHANGED filevars
      BY <1>7 DEF aufsvars
    <2>2. AiopsInv'
      BY <2>1, AiopsInvStep DEF AufsInv
    <2>3. Live' = Live /\ NotRun' = NotRun /\ cancelled' = cancelled
      BY <2>1 DEF aiovars, pool, Live, NotRun, Queued, Taken, At
    <2>. QED
      BY <2>1, <2>2, <2>3, FilesAlone DEF AufsInv
  <1>. QED
    BY <1>1, <1>2, <1>3, <1>4, <1>5, <1>6, <1>7 DEF AufsNext

(* The invariant holds throughout.                                           *)
LEMMA AufsInvAlways == AufsSpec => []AufsInv
  <1>1. AufsInit => AufsInv
    BY AufsInvInit
  <1>2. AufsInv /\ [AufsNext]_aufsvars => AufsInv'
    BY AufsInvStep
  <1>. QED
    BY <1>1, <1>2, PTL DEF AufsSpec

(* What the run checks follows from the invariant.                           *)
LEMMA AufsInvImplies ==
  AufsInv => DescriptorsExact /\ CancelHarmless /\ ReadsOwnFile /\ ReaderServed
  <1> SUFFICES ASSUME AufsInv
               PROVE  DescriptorsExact /\ CancelHarmless /\ ReadsOwnFile /\ ReaderServed
    OBVIOUS
  <1>0. /\ AiopsInv /\ FilesInv /\ AufsTypeOK /\ Blocks /\ OneRequest /\ OneHand
        /\ CountersExact /\ \A r \in Live : RequestOkay(r)
        /\ \A s \in Sios : ObjectOkay(s)
    BY DEF AufsInv, FilesInv
  <1>1. DescriptorsHeldOnce
    <2>1. SUFFICES ASSUME NEW fd \in Fds
                   PROVE  Cardinality(Hands(fd)) = IF fd \in fds THEN 1 ELSE 0
      BY DEF DescriptorsHeldOnce
    <2>2. CASE fd \in fds
      <3>1. PICK h : h \in Hands(fd)
        BY <1>0, <2>2 DEF OneHand
      <3>2. Hands(fd) = {h}
        BY <1>0, <3>1, InHand
      <3>3. Cardinality({h}) = 1
        BY FS_Singleton
      <3>. QED
        BY <2>2, <3>2, <3>3
    <2>3. CASE fd \notin fds
      <3>1. Hands(fd) = {}
        BY <1>0, <2>3 DEF OneHand
      <3>. QED
        BY <2>3, <3>1, FS_EmptySet
    <2>. QED
      BY <2>2, <2>3
  <1>2. CancelHarmless
    BY <1>0 DEF Blocks, CancelHarmless
  <1>3. ReadsOwnFile
    <2>1. SUFFICES ASSUME NEW r \in used, NEW s, s = req[r].sio
                   PROVE  /\ req[r].op = "read" =>
                                SioLive(s) /\ sio[s].fd = req[r].fd /\ sio[s].reading
                          /\ req[r].op = "open" => sio[s].state # "free"
      BY DEF ReadsOwnFile
    <2>2. RequestOkay(r)
      BY <1>0 DEF Blocks
    <2>. QED
      BY <2>1, <2>2 DEF RequestOkay, SioLive
  <1>4. ReaderServed
    <2>1. SUFFICES ASSUME NEW s \in Sios
                   PROVE  /\ sio[s].user = "reading" =>
                                \/ sio[s].opening /\ sio[s].pending_reads = 1
                                \/ Waits(s, "read")
                          /\ SioLive(s) => (sio[s].fd = NoFd <=> sio[s].opening)
                          /\ Cardinality({r \in used : req[r].sio = s}) <= 1
      BY DEF ReaderServed, Waits
    <2>2. /\ sio[s].state = "free" => sio[s] = FreeSio
          /\ sio[s].state = "zombie" => sio[s] = [FreeSio EXCEPT !.state = "zombie"]
          /\ SioLive(s) => ObjectOkay(s)!3 /\ sio[s] \in SioType
      BY <1>0, ObjectStates
    <2>3. sio[s].user = "reading" => SioLive(s)
      <3>1. FreeSio.user = "none" /\ [FreeSio EXCEPT !.state = "zombie"].user = "none"
        BY DEF FreeSio
      <3>2. sio[s].state \in {"free", "live", "zombie"}
        BY <1>0 DEF AufsTypeOK, SioType
      <3>. QED
        BY <2>2, <3>1, <3>2 DEF SioLive
    <2>4. ASSUME SioLive(s), sio[s].user = "reading"
          PROVE  \/ sio[s].opening /\ sio[s].pending_reads = 1
                 \/ Waits(s, "read")
      BY <2>2, <2>4
    <2>5. SioLive(s) => (sio[s].fd = NoFd <=> sio[s].opening)
      BY <2>2
    <2>6. Cardinality({r \in used : req[r].sio = s}) <= 1
      <3> DEFINE S == {r \in used : req[r].sio = s}
      <3>1. CASE S = {}
        BY <3>1, FS_EmptySet
      <3>2. ASSUME NEW x \in S PROVE Cardinality(S) <= 1
        <4>1. S = {x}
          BY <1>0, <3>2, AufsAssumption DEF OneRequest
        <4>2. Cardinality({x}) = 1
          BY FS_Singleton
        <4> HIDE DEF S
        <4>. QED
          BY <4>1, <4>2
      <3>. QED
        BY <3>1, <3>2
    <2>. QED
      BY <2>3, <2>4, <2>5, <2>6
  <1>. QED
    BY <1>0, <1>1, <1>2, <1>3, <1>4 DEF DescriptorsExact

(* Every open descriptor is in one hand, no hand holds a closed one, and the *)
(* counters by which squid limits its descriptors are exact.                 *)
THEOREM DescriptorsAccounted == AufsSpec => []DescriptorsExact
  <1>1. AufsInv => DescriptorsExact
    BY AufsInvImplies
  <1>. QED
    BY <1>1, AufsInvAlways, PTL

(* aioCancel, which frees a control block and its buffer under the threads,  *)
(* only ever finds closes that a thread has made.                            *)
THEOREM CancelIsHarmless == AufsSpec => []CancelHarmless
  <1>1. AufsInv => CancelHarmless
    BY AufsInvImplies
  <1>. QED
    BY <1>1, AufsInvAlways, PTL

(* A read in flight is of a live object that still has the read's            *)
(* descriptor, and no answer finds its object's state reused.                *)
THEOREM ReadsGoHome == AufsSpec => []ReadsOwnFile
  <1>1. AufsInv => ReadsOwnFile
    BY AufsInvImplies
  <1>. QED
    BY <1>1, AufsInvAlways, PTL

(* A user that waits for a read has one queued or in the threads' hands, and *)
(* an object has one request at a time.                                      *)
THEOREM NoReaderForgotten == AufsSpec => []ReaderServed
  <1>1. AufsInv => ReaderServed
    BY AufsInvImplies
  <1>. QED
    BY <1>1, AufsInvAlways, PTL
=============================================================================
