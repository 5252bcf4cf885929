------------------------------ MODULE AsyncIo ------------------------------
(* What the aufs store expects of its I/O threads, without threads, locks or *)
(* pipes: requests are started in the order they were asked, run in any      *)
(* number at a time, and are answered in the order they finished, each once. *)
(* A cancelled request runs its course and is answered by silence.           *)
EXTENDS Sequences, Functions

CONSTANT Requests       \* the request structures of squidaio_request_pool

VARIABLES
    asked,              \* asked and not yet started, oldest first
    running,            \* in the hands of a thread
    done,               \* finished and not yet answered, oldest first
    cancelled           \* asked, and no longer wanted by the asker

vars == <<asked, running, done, cancelled>>

Live == Range(asked) \cup running \cup Range(done)

Init == /\ asked = <<>> /\ done = <<>>
        /\ running = {} /\ cancelled = {}

Start == /\ asked # <<>>
         /\ running' = running \cup {Head(asked)}
         /\ asked' = Tail(asked)
         /\ UNCHANGED <<done, cancelled>>

Finish(r) == /\ r \in running
             /\ running' = running \ {r}
             /\ done' = Append(done, r)
             /\ UNCHANGED <<asked, cancelled>>

Submit(r) == /\ r \notin Live
             /\ asked' = Append(asked, r)
             /\ UNCHANGED <<running, done, cancelled>>

Cancel(r) == /\ r \in Live \ cancelled
             /\ cancelled' = cancelled \cup {r}
             /\ UNCHANGED <<asked, running, done>>

(* The oldest finished request is answered, or dropped if it was cancelled; *)
(* whoever is answered may ask for something else at once.                  *)
Answer == /\ done # <<>>
          /\ done' = Tail(done)
          /\ cancelled' = cancelled \ {Head(done)}
          /\ running' = running
          /\ \/ asked' = asked
             \/ /\ Head(done) \notin cancelled
                /\ \E r \in (Requests \ Live) \cup {Head(done)} :
                       asked' = Append(asked, r)

Next == \/ Start \/ Answer
        \/ \E r \in Requests : Submit(r) \/ Finish(r) \/ Cancel(r)

Safety == Init /\ [][Next]_vars

Spec == /\ Safety
        /\ WF_vars(Start) /\ WF_vars(Answer)
        /\ \A r \in Requests : WF_vars(Finish(r))
-----------------------------------------------------------------------------
(* A request structure is in one place, once: waiting, in the hands of one  *)
(* thread, or finished; and only such a one can be cancelled, so that a     *)
(* structure taken from the pool for a new request is not.                  *)
OnePlace ==
    /\ asked \in Seq(Requests) /\ running \subseteq Requests
    /\ done \in Seq(Requests) /\ cancelled \subseteq Live
    /\ IsInjective(asked) /\ IsInjective(done)
    /\ Range(asked) \cap running = {} /\ Range(asked) \cap Range(done) = {}
    /\ running \cap Range(done) = {}
=============================================================================
