------------------------------- MODULE Helper -------------------------------
(* Helper processes (helper.c) and their user, the URL rewriter              *)
(* (redirect.c): requests are given to the least loaded process or queued,   *)
(* written to it through one write at a time, and answered, by channel       *)
(* number and in any order, or by nothing when the process dies.  Processes  *)
(* die at any time, are restarted when too few are left, and are replaced at *)
(* every reconfiguration, when the old ones finish what they have.           *)
(*                                                                           *)
(* squid is one thread: the loops of helperHandleRead and helperKickQueue    *)
(* are steps between which only the processes move.  A process answers every *)
(* line it reads once, or dies (external).  Time is the choice of whether    *)
(* the last restart, or the last warning, is recent.                         *)
EXTENDS Naturals, Sequences, SequencesExt, FiniteSets, Lists

CONSTANTS
    Servers,            \* the helper_server structures
    Requests,           \* the helper_request structures
    None,
    n_to_start,         \* processes to start (url_rewrite_children)
    MaxAsking           \* for each concurrency, a bound on the requesters

ASSUME HelperAssumption ==
    /\ IsFiniteSet(Servers) /\ IsFiniteSet(Requests)
    /\ None \notin Servers /\ None \notin Requests
    /\ n_to_start \in 1..Cardinality(Servers)
    /\ MaxAsking \in Seq(1..Cardinality(Requests))

VARIABLES
    servers,            \* hlp->servers, in order
    srv,                \* each helper_server
    child,              \* each process: what it read, and what it answered
    queue,              \* hlp->queue
    n_running, n_active,
    recent,             \* the last restart was less than 30 seconds ago
    asking,             \* the requests whose requester waits
    main,               \* the loop squid is in, on which server, how often more
    concurrency,        \* requests a process takes (1 if not configured)
    bypass,             \* redirector_bypass
    fatal               \* why squid exited

config == <<concurrency, bypass>>
vars == <<servers, srv, child, queue, n_running, n_active, recent, asking,
          main, config, fatal>>

Slots == 0..(concurrency - 1)
AllSlots == 0..(Len(MaxAsking) - 1)
Idle == [loop |-> "none", srv |-> None, left |-> 0]

NewServer == [requests |-> [i \in Slots |-> None], pending |-> 0,
              shutdown |-> FALSE, writing |-> <<>>, wqueue |-> <<>>]
NewChild == [alive |-> TRUE, got |-> {}, said |-> <<>>]

Listed(s) == s \in Range(servers)
\* requests written to a server and not yet answered there
Held(s) == {srv[s].requests[i] : i \in Slots} \ {None}
Running == fatal = "" /\ main.loop = "none"
-----------------------------------------------------------------------------
\* The first server takes it unless a later one has less to do; servers being
\* shut down are passed over.
GetFirstAvailable(list, sv) ==
    LET open == Kept(list, {s \in Servers : ~sv[s].shutdown})
        less == Kept(open, {s \in Servers : sv[s].pending < sv[open[1]].pending})
        selected == IF less = <<>> THEN open[1] ELSE less[1]
    IN  IF open = <<>> \/ sv[selected].pending >= concurrency
        THEN None ELSE selected

\* The lowest free channel; written now unless a write is under way.
helperDispatch(sv, s, r) ==
    LET slot == CHOOSE i \in Slots : /\ sv[s].requests[i] = None
                                     /\ \A j \in Slots : j < i =>
                                            sv[s].requests[j] # None
        line == <<slot, r>>
    IN  [sv EXCEPT ![s].requests[slot] = r, ![s].pending = @ + 1,
                   ![s].writing = IF @ = <<>> THEN <<line>> ELSE @,
                   ![s].wqueue = IF sv[s].writing = <<>> THEN @
                                 ELSE Append(@, line)]

\* helperSubmit and Enqueue: queued when everybody is busy, and the end of
\* squid when too many are queued and the last warning is old
helperSubmit(r) ==
    LET s == GetFirstAvailable(servers, srv) IN
    IF s # None
    THEN /\ srv' = helperDispatch(srv, s, r)
         /\ UNCHANGED <<queue, fatal>>
    ELSE /\ srv' = srv /\ queue' = Append(queue, r)
         /\ fatal' \in IF Len(queue') > 2 * n_running
                       THEN {"", "too many queued"} ELSE {""}

\* redirectStart: skipped, with redirector_bypass, when something is queued.
\* Any free structure will do: they differ in nothing.
redirectStart ==
    LET r == CHOOSE r \in Requests : r \notin asking IN
    /\ Running
    /\ Cardinality(asking) < MaxAsking[concurrency]
    /\ ~(bypass /\ queue # <<>>)
    /\ asking' = asking \cup {r}
    /\ helperSubmit(r)
    /\ UNCHANGED <<servers, child, n_running, n_active, recent, main, config>>

\* a mutant of the next definition: what was queued meanwhile is lost
helperDispatch_doneOnce(s) ==
    /\ Running /\ Listed(s) /\ srv[s].writing # <<>> /\ child[s].alive
    /\ child' = [child EXCEPT ![s].got = @ \cup Range(srv[s].writing)]
    /\ srv' = [srv EXCEPT ![s].writing = <<>>, ![s].wqueue = <<>>]
    /\ UNCHANGED <<servers, queue, n_running, n_active, recent, asking, main,
                   config, fatal>>

\* comm_write has written; what was queued meanwhile is written next
helperDispatch_done(s) ==
    /\ Running /\ Listed(s) /\ srv[s].writing # <<>> /\ child[s].alive
    /\ child' = [child EXCEPT ![s].got = @ \cup Range(srv[s].writing)]
    /\ srv' = [srv EXCEPT ![s].writing = srv[s].wqueue, ![s].wqueue = <<>>]
    /\ UNCHANGED <<servers, queue, n_running, n_active, recent, asking, main,
                   config, fatal>>
-----------------------------------------------------------------------------
(* The processes (external). *)
Answer(s, i) ==
    /\ child[s].alive /\ \E r \in Requests :
       /\ <<i, r>> \in child[s].got
       /\ child' = [child EXCEPT ![s].got = @ \ {<<i, r>>},
                                 ![s].said = Append(@, <<i, r>>)]
    /\ UNCHANGED <<servers, srv, queue, n_running, n_active, recent, asking,
                   main, config, fatal>>

Die(s) ==
    /\ Listed(s) /\ child[s].alive /\ fatal = ""
    /\ child' = [child EXCEPT ![s].alive = FALSE, ![s].got = {}]
    /\ UNCHANGED <<servers, srv, queue, n_running, n_active, recent, asking,
                   main, config, fatal>>
-----------------------------------------------------------------------------
\* New processes at the end of the list; then the queue is kicked.
helperOpenServers(list, sv, ch) ==
    LET free == Servers \ Range(list)
        new == CHOOSE x \in SUBSET free : Cardinality(x) = n_to_start
    IN  /\ Cardinality(free) >= n_to_start
        /\ servers' = list \o SetToSeq(new)
        /\ srv' = [s \in Servers |-> IF s \in new THEN NewServer ELSE sv[s]]
        /\ child' = [s \in Servers |-> IF s \in new THEN NewChild ELSE ch[s]]
        /\ recent' = TRUE
        /\ main' = [loop |-> "kick", srv |-> None, left |-> 0]

\* a mutant of the next definition: nobody is told of the death
helperServerFreeSilent(s, sv) ==
    LET list == Kept(servers, Servers \ {s})
        active == n_active - (IF sv[s].shutdown THEN 0 ELSE 1)
        gone == [sv EXCEPT ![s] = NewServer]
        dead == [child EXCEPT ![s] = [NewChild EXCEPT !.alive = FALSE]]
        restart == ~sv[s].shutdown /\ active * 2 <= n_to_start
    IN  /\ asking' = asking
        /\ IF restart /\ ~recent
           THEN /\ helperOpenServers(list, gone, dead)
                /\ n_running' = n_running - 1 + n_to_start
                /\ n_active' = active + n_to_start
                /\ fatal' = fatal
           ELSE /\ servers' = list /\ srv' = gone /\ child' = dead
                /\ n_running' = n_running - 1 /\ n_active' = active
                /\ main' = Idle /\ recent' = recent
                /\ fatal' = IF restart THEN "crashing too rapidly" ELSE fatal
        /\ UNCHANGED <<queue, config>>

\* The close handler: whoever waits on s is answered by nothing, and if too
\* few processes are left new ones are started, or squid gives up.
helperServerFree(s, sv) ==
    LET list == Kept(servers, Servers \ {s})
        active == n_active - (IF sv[s].shutdown THEN 0 ELSE 1)
        gone == [sv EXCEPT ![s] = NewServer]
        dead == [child EXCEPT ![s] = [NewChild EXCEPT !.alive = FALSE]]
        restart == ~sv[s].shutdown /\ active * 2 <= n_to_start
    IN  /\ asking' = asking \ ({sv[s].requests[i] : i \in Slots} \ {None})
        /\ IF restart /\ ~recent
           THEN /\ helperOpenServers(list, gone, dead)
                /\ n_running' = n_running - 1 + n_to_start
                /\ n_active' = active + n_to_start
                /\ fatal' = fatal
           ELSE /\ servers' = list /\ srv' = gone /\ child' = dead
                /\ n_running' = n_running - 1 /\ n_active' = active
                /\ main' = Idle /\ recent' = recent
                /\ fatal' = IF restart THEN "crashing too rapidly" ELSE fatal
        /\ UNCHANGED <<queue, config>>

\* helperHandleRead at the end of file
ReadEof(s) ==
    /\ Running /\ Listed(s) /\ ~child[s].alive /\ child[s].said = <<>>
    /\ helperServerFree(s, srv)

\* helperHandleRead: some of the answers are read at once
helperHandleRead(s) ==
    /\ Running /\ Listed(s)
    /\ \E k \in 1..Len(child[s].said) :
           main' = [loop |-> "read", srv |-> s, left |-> k]
    /\ UNCHANGED <<servers, srv, child, queue, n_running, n_active, recent,
                   asking, config, fatal>>

\* a mutant of the next definition: answers are taken to come in order
ReadAnswerInOrder(s) ==
    LET slot == CHOOSE i \in Slots : \A j \in Slots :
                    srv[s].requests[i] # None /\
                        (srv[s].requests[j] # None => i <= j)
        r == srv[s].requests[slot]
    IN  /\ main.loop = "read" /\ main.srv = s /\ main.left > 0
        /\ child' = [child EXCEPT ![s].said = Tail(@)]
        /\ main' = [main EXCEPT !.left = @ - 1]
        /\ IF r = None
           THEN UNCHANGED <<srv, asking>>
           ELSE /\ srv' = [srv EXCEPT ![s].requests[slot] = None,
                                      ![s].pending = @ - 1]
                /\ asking' = asking \ {r}
        /\ UNCHANGED <<servers, queue, n_running, n_active, recent, config,
                       fatal>>

\* one answer of the loop
ReadAnswer(s) ==
    LET slot == child[s].said[1][1]
        r == srv[s].requests[slot]
    IN  /\ main.loop = "read" /\ main.srv = s /\ main.left > 0
        /\ child' = [child EXCEPT ![s].said = Tail(@)]
        /\ main' = [main EXCEPT !.left = @ - 1]
        /\ IF r = None
           THEN UNCHANGED <<srv, asking>>
           ELSE /\ srv' = [srv EXCEPT ![s].requests[slot] = None,
                                      ![s].pending = @ - 1]
                /\ asking' = asking \ {r}
        /\ UNCHANGED <<servers, queue, n_running, n_active, recent, config,
                       fatal>>

\* a mutant of the next definition: the queue is not kicked
ReadEndOnly(s) ==
    /\ main.loop = "read" /\ main.srv = s /\ main.left = 0
    /\ IF srv[s].shutdown /\ srv[s].pending = 0
       THEN helperServerFree(s, srv)
       ELSE /\ main' = Idle
            /\ UNCHANGED <<servers, srv, child, queue, n_running, n_active,
                           recent, asking, config, fatal>>

\* the end of helperHandleRead: close, or kick the queue
ReadEnd(s) ==
    /\ main.loop = "read" /\ main.srv = s /\ main.left = 0
    /\ IF srv[s].shutdown /\ srv[s].pending = 0
       THEN helperServerFree(s, srv)
       ELSE /\ main' = [loop |-> "kick", srv |-> None, left |-> 0]
            /\ UNCHANGED <<servers, srv, child, queue, n_running, n_active,
                           recent, asking, config, fatal>>

helperKickQueue ==
    LET s == GetFirstAvailable(servers, srv) IN
    /\ main.loop = "kick"
    /\ IF s # None /\ queue # <<>>
       THEN /\ srv' = helperDispatch(srv, s, Head(queue))
            /\ queue' = Tail(queue) /\ main' = main
       ELSE main' = Idle /\ UNCHANGED <<srv, queue>>
    /\ UNCHANGED <<servers, child, n_running, n_active, recent, asking,
                   config, fatal>>

\* helperShutdown, then helperOpenServers: idle servers are closed at once,
\* the others when they have answered
redirectReconfigure ==
    LET busy == Kept(servers, {s \in Servers :
                    srv[s].shutdown \/ srv[s].writing # <<>> \/ srv[s].pending > 0})
    IN  /\ Running
        /\ n_running' = Len(busy) + n_to_start /\ n_active' = n_to_start
        /\ helperOpenServers(busy,
               [s \in Servers |-> IF s \in Range(busy)
                                  THEN [srv[s] EXCEPT !.shutdown = TRUE]
                                  ELSE NewServer],
               [s \in Servers |-> IF s \in Range(busy) THEN child[s]
                                  ELSE [NewChild EXCEPT !.alive = FALSE]])
        /\ UNCHANGED <<queue, asking, config, fatal>>

TimePasses ==
    /\ Running /\ recent /\ recent' = FALSE
    /\ UNCHANGED <<servers, srv, child, queue, n_running, n_active, asking,
                   main, config, fatal>>

\* squid has exited
Exited == fatal # "" /\ UNCHANGED vars

Init ==
    /\ concurrency \in DOMAIN MaxAsking
    /\ LET new == CHOOSE x \in SUBSET Servers : Cardinality(x) = n_to_start IN
        /\ servers = SetToSeq(new)
        /\ child = [s \in Servers |->
                       IF s \in new THEN NewChild
                       ELSE [NewChild EXCEPT !.alive = FALSE]]
    /\ srv = [s \in Servers |-> NewServer]
    /\ queue = <<>> /\ n_running = n_to_start /\ n_active = n_to_start
    /\ recent = TRUE /\ asking = {} /\ main = Idle
    /\ bypass \in BOOLEAN /\ fatal = ""

Next ==
    \/ redirectStart
    \/ \E s \in Servers :
           \/ helperDispatch_done(s) \/ Die(s) \/ ReadEof(s)
           \/ helperHandleRead(s) \/ ReadAnswer(s) \/ ReadEnd(s)
           \/ \E i \in Slots : Answer(s, i)
    \/ helperKickQueue \/ redirectReconfigure \/ TimePasses \/ Exited

Spec == Init /\ [][Next]_vars

(* The select loop serves every descriptor that stays ready, reconfigured or *)
(* not; squid goes on with its loops; and a process that read a line answers *)
(* it or dies.                                                               *)
FairSpec ==
    /\ Spec
    /\ WF_vars(helperKickQueue)
    /\ \A s \in Servers :
           /\ SF_vars(helperDispatch_done(s))
           /\ SF_vars(helperHandleRead(s) \/ ReadEof(s))
           /\ WF_vars(ReadAnswer(s) \/ ReadEnd(s))
           /\ \A i \in AllSlots : WF_vars(Answer(s, i))
-----------------------------------------------------------------------------
ServerType == [requests : [Slots -> Requests \cup {None}], pending : 0..concurrency,
               shutdown : BOOLEAN, writing : Seq(Slots \X Requests),
               wqueue : Seq(Slots \X Requests)]
ChildType == [alive : BOOLEAN, got : SUBSET (Slots \X Requests),
              said : Seq(Slots \X Requests)]

TypeOK ==
    /\ servers \in Seq(Servers) /\ queue \in Seq(Requests)
    /\ srv \in [Servers -> ServerType] /\ child \in [Servers -> ChildType]
    /\ n_running \in Nat /\ n_active \in Nat /\ recent \in BOOLEAN
    /\ asking \subseteq Requests
    /\ concurrency \in DOMAIN MaxAsking /\ bypass \in BOOLEAN
    /\ main \in [loop : {"none", "read", "kick"}, srv : Servers \cup {None},
                 left : Nat]
    /\ fatal \in {"", "too many queued", "crashing too rapidly"}

(* n_running and n_active, which decide about restarts and about the end of  *)
(* squid, count the processes and those not being shut down, and pending the *)
(* channels in use, through crashes, restarts and reconfigurations.          *)
CountsExact ==
    /\ IsInjective(servers) /\ n_running = Len(servers)
    /\ n_active = Cardinality({s \in Range(servers) : ~srv[s].shutdown})
    /\ \A s \in Servers : srv[s].pending = Cardinality(Held(s))

(* Whatever is on its way to or from a process is on the channel of the      *)
(* request it belongs to: no answer reaches another requester, although      *)
(* channels are reused and answers come in any order.                        *)
OwnAnswers ==
    \A s \in Servers :
        \A line \in child[s].got \cup Range(child[s].said)
                     \cup Range(srv[s].writing) \cup Range(srv[s].wqueue) :
            srv[s].requests[line[1]] = line[2]

(* A requester that waits is in the queue or on one channel, once.           *)
WaitingOnce ==
    /\ asking = Range(queue) \cup UNION {Held(s) : s \in Servers}
    /\ Len(queue) + Cardinality(UNION {Held(s) : s \in Servers})
           = Cardinality(asking)

(* The bookkeeping of helper.c agrees with itself through crashes, restarts  *)
(* and reconfigurations: the counters, and who waits where.                  *)
ServersConsistent == TypeOK /\ CountsExact /\ WaitingOnce

(* Requests are queued only while every process that may take them is full,  *)
(* and there is one whose answer will kick the queue: helperServerFree()     *)
(* does not kick it unless it starts new processes.                          *)
SomeoneKicks ==
    Running /\ queue # <<>> =>
        /\ GetFirstAvailable(servers, srv) = None
        /\ \E s \in Range(servers) : ~srv[s].shutdown /\ srv[s].pending > 0

(* Every requester is answered in the end, if only by nothing: no crash,     *)
(* restart or reconfiguration leaves it behind.                              *)
EveryoneAnswered ==
    \A r \in Requests : r \in asking ~> (r \notin asking \/ fatal # "")
=============================================================================
