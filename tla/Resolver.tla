------------------------------ MODULE Resolver ------------------------------
(* The internal DNS client (dns_internal.c) under the IP cache (ipcache.c).  *)
(* A lookup is answered by the cache, joins the query under way for its      *)
(* name, or sends a query of its own, which is retried through the search    *)
(* path, over TCP, with a new identifier after a server failure, and again   *)
(* after a time that doubles, until it is answered or given up.              *)
(*                                                                           *)
(* A name is the sequence of its labels.  Replies are lost, late or          *)
(* duplicated: any true statement about any name may arrive at any time      *)
(* under any identifier (external).  Time is counted in retransmission       *)
(* intervals, as the checks of the queue that find a query due.  A handler   *)
(* that looks up another name does so after the callback that called it.     *)
EXTENDS Integers, Sequences, SequencesExt, FiniteSets, Lists

CONSTANTS
    Lookups,            \* callers of ipcache_nbgethostbyname
    Asked,              \* the names they ask for
    SearchPath,         \* searchpath, of npc domains
    Ids,                \* query identifiers
    nns,                \* nameservers
    ndots,
    MAX_ATTEMPT,
    QueryTimeout,       \* Config.Timeout.idns_query, in intervals
    MaxSends,           \* a bound on nsends, which only sets the interval
    MaxTruncated,       \* a bound on the truncated replies to one query
    None

npc == Len(SearchPath)

ASSUME ResolverAssumption ==
    /\ IsFiniteSet(Lookups) /\ Cardinality(Ids) >= Cardinality(Lookups)
    /\ npc \in Nat \ {0} /\ nns \in Nat \ {0} /\ MAX_ATTEMPT \in Nat \ {0}
    /\ MaxSends \in Nat \ {0} /\ QueryTimeout \in Nat \ {0} /\ MaxTruncated \in Nat

VARIABLES
    asked,              \* the name each caller waits for
    query,              \* the idns_query of each caller that has one
    lru,                \* lru_list, head first
    table,              \* idns_lookup_hash, newest first
    cache,              \* ip_table
    event_queued,
    zone                \* the names that exist

vars == <<asked, query, lru, table, cache, event_queued, zone>>

\* the names idnsALookup and idnsGrokReply form from the one asked for
Searched(n) == {n} \cup {Append(n, SearchPath[i]) : i \in 1..npc}
Names == UNION {Searched(n) : n \in Asked}
Messages == [id : Ids, name : Names, n : {-3, -2, 0, 1}, tc : BOOLEAN]
\* what is cached: an address of a name, or an error, and who said so
Results == [kind : {"address", "none", "fail", "nx", "timeout"},
            name : Names, by : {"reply", "timer"}]
QueryType == [orig : Asked, name : Names, domain : 0..npc,
              attempt : 0..MAX_ATTEMPT, id : Ids, nsends : 1..MaxSends,
              waits : Nat, age : 0..QueryTimeout,
              late : BOOLEAN, rcode : {0, 2, 3}, tcp : BOOLEAN,
              cut : 0..MaxTruncated, queue : Seq(Lookups)]

ASSUME NoneAssumption == None \notin Lookups \cup Asked \cup QueryType \cup Results

Result(k, n, b) == [kind |-> k, name |-> n, by |-> b]

Waiting == {l \in Lookups : asked[l] # None}
Active == {l \in Lookups : query[l] # None}
state == [asked |-> asked, query |-> query, lru |-> lru, table |-> table,
          cache |-> cache]
Becomes(st) == /\ asked' = st.asked /\ query' = st.query /\ lru' = st.lru
               /\ table' = st.table /\ cache' = st.cache
Drop(seq, l) == Kept(seq, Lookups \ {l})
-----------------------------------------------------------------------------
\* idnsFindQuery: the oldest query with the identifier
idnsFindQuery(list, qs, id) ==
    LET same == {i \in DOMAIN list : qs[list[i]].id = id}
    IN  IF same = {} THEN None ELSE list[Max(same)]

\* idnsQueryID: a random identifier no query in the list has
idnsQueryID(list, qs) == {id \in Ids : idnsFindQuery(list, qs, id) = None}

\* idnsSendQuery: to the next nameserver, which may fail; the TCP connection
\* is closed and the query is the newest
Sent(q) == [q EXCEPT !.nsends = IF @ < MaxSends THEN @ + 1 ELSE @,
                     !.waits = 0, !.late = FALSE, !.tcp = FALSE]
idnsSendQuery(st, l) == [st EXCEPT !.query[l] = Sent(@), !.lru = <<l>> \o @]

\* ipcacheHandleReply of each caller: the cache has the last answer, the
\* handler is called
ipcacheHandleReply(st, callers, r) ==
    [st EXCEPT
        !.cache = [n \in Asked |-> IF \E x \in callers : st.asked[x] = n
                                   THEN r ELSE st.cache[n]],
        !.asked = [x \in Lookups |-> IF x \in callers THEN None ELSE st.asked[x]]]

\* a mutant of the next definition: the lookups that joined are forgotten
CallbackOwner(st, l, r) ==
    [ipcacheHandleReply(st, {l}, r) EXCEPT !.table = Drop(@, l), !.query[l] = None]

\* idnsCallback, idnsTcpCleanup and cbdataFree: everybody is told the same
idnsCallback(st, l, r) ==
    [ipcacheHandleReply(st, {l} \cup ToSet(st.query[l].queue), r)
        EXCEPT !.table = Drop(@, l), !.query[l] = None]
-----------------------------------------------------------------------------
\* idnsCachedLookup: the newest query that asks for the name now
idnsCachedLookup(n) ==
    LET same == {i \in DOMAIN table : query[table[i]].name = n}
    IN  IF same = {} THEN None ELSE table[Min(same)]

\* its own query, the first domain appended to a short name
NewQuery(n, id) ==
    [orig |-> n,
     name |-> IF Len(n) - 1 < ndots THEN Append(n, SearchPath[1]) ELSE n,
     domain |-> 0, attempt |-> 0, id |-> id, nsends |-> 0, waits |-> 0,
     age |-> 0, late |-> FALSE, rcode |-> 0, tcp |-> FALSE, cut |-> 0,
     queue |-> <<>>]

idnsALookup(st, l, n, id) ==
    idnsSendQuery([st EXCEPT !.asked[l] = n, !.query[l] = NewQuery(n, id),
                             !.table = <<l>> \o @], l)

\* ipcache_nbgethostbyname: a hit is answered at once
ipcache_nbgethostbyname(l, n) ==
    LET old == idnsCachedLookup(n) IN
    /\ l \notin Waiting /\ cache[n] = None
    /\ zone' = zone
    /\ IF old # None
       THEN /\ asked' = [asked EXCEPT ![l] = n]
            /\ query' = [query EXCEPT ![old].queue = <<l>> \o @]
            /\ UNCHANGED <<lru, table, cache, event_queued>>
       ELSE \E id \in idnsQueryID(lru, query) :
            /\ Becomes(idnsALookup(state, l, n, id))
            /\ event_queued' = TRUE

\* ipcacheExpiredEntry and ipcache_purgelru: old entries are released
ipcacheRelease(n) ==
    /\ cache[n] # None
    /\ cache' = [cache EXCEPT ![n] = None]
    /\ UNCHANGED <<asked, query, lru, table, event_queued, zone>>
-----------------------------------------------------------------------------
\* the connection is opened; the query is the newest, its age goes on
Cut(q) == [q EXCEPT !.tcp = TRUE, !.waits = 0, !.late = FALSE, !.cut = @ + 1]
idnsRetryTcp(st, l) == [st EXCEPT !.query[l] = Cut(@), !.lru = <<l>> \o @]

\* a new identifier and a new start; st has the query out of the list
SentAs(st, l, id) ==
    idnsSendQuery([st EXCEPT !.query[l] = [@ EXCEPT !.id = id, !.age = 0]], l)
SendAgain(st, l) == {SentAs(st, l, id) : id \in idnsQueryID(st.lru, st.query)}

\* the next domain of the search path, then the bare name
NextName(q) ==
    IF q.domain < npc
    THEN [q EXCEPT !.name = Append(q.orig, SearchPath[q.domain + 1]),
                   !.domain = @ + 1]
    ELSE [q EXCEPT !.name = q.orig, !.attempt = @ + 1]

\* the server failed: one attempt more
Failed(q) == [q EXCEPT !.rcode = 2, !.attempt = @ + 1]

KindOf(n) == CASE n = -3 -> "nx" [] n = -2 -> "fail" [] n = 0 -> "none"
               [] n = 1 -> "address"

\* the states a reply to the query of l leads to
Replied(l, m) ==
    LET q == query[l]
        missing == NextName([q EXCEPT !.rcode = 3])
        s0 == [state EXCEPT !.lru = Drop(@, l)]
        next == [s0 EXCEPT !.query[l] = missing, !.table = <<l>> \o Drop(@, l)]
    IN  CASE m.tc /\ ~q.tcp -> {idnsRetryTcp(s0, l)}
          [] m.n = -2 /\ Failed(q).attempt < MAX_ATTEMPT ->
                SendAgain([s0 EXCEPT !.query[l] = Failed(q)], l)
          [] m.n = -3 /\ q.attempt < MAX_ATTEMPT -> SendAgain(next, l)
          [] OTHER -> {idnsCallback(s0, l, Result(KindOf(m.n), m.name, "reply"))}

\* a mutant of the next definition: the question is not compared
GrokReplyUnchecked(m) ==
    LET l == idnsFindQuery(lru, query, m.id) IN
    /\ l # None
    /\ m.tc => query[l].tcp \/ query[l].cut < MaxTruncated
    /\ \E st \in Replied(l, m) : Becomes(st)
    /\ UNCHANGED <<event_queued, zone>>

\* idnsGrokReply: late and mismatched replies change nothing
idnsGrokReply(m) ==
    LET l == idnsFindQuery(lru, query, m.id) IN
    /\ l # None /\ query[l].name = m.name
    /\ m.tc => query[l].tcp \/ query[l].cut < MaxTruncated
    /\ \E st \in Replied(l, m) : Becomes(st)
    /\ UNCHANGED <<event_queued, zone>>

\* What a nameserver may say, by UDP (idnsRead) or TCP (idnsReadTcp): that a
\* name does not exist, that it failed, the address, or part of the answer.
Honest(m) == \/ m.n = -2 /\ ~m.tc
             \/ m.n = -3 /\ m.name \notin zone /\ ~m.tc
             \/ m.n = 1 /\ m.name \in zone
             \/ m.n = 0 /\ m.name \in zone /\ m.tc

idnsRead == \E m \in Messages : Honest(m) /\ idnsGrokReply(m)

\* connecting, writing or reading fails: idnsSendTcpQuery,
\* idnsSendTcpQueryDone, idnsReadTcp; the query waits for its timer
idnsTcpCleanup(l) ==
    /\ l \in Active /\ query[l].tcp
    /\ query' = [query EXCEPT ![l].tcp = FALSE]
    /\ UNCHANGED <<asked, lru, table, cache, event_queued, zone>>
-----------------------------------------------------------------------------
\* the time to wait for an answer doubles each time all nameservers were asked
Intervals(nsends) == 2 ^ ((nsends - 1) \div nns)

\* a mutant of the next definition: an interval waited for is forgotten
WaitedAnew(q) == [q EXCEPT !.waits = 0, !.late = FALSE,
                           !.age = IF @ < QueryTimeout THEN @ + 1 ELSE @]

\* the interval that is over is counted
Waited(q) == [q EXCEPT !.waits = @ + 1, !.late = FALSE,
                       !.age = IF @ < QueryTimeout THEN @ + 1 ELSE @]

\* One query that is due: left for another interval, sent again, or given up
\* with the last error.
CheckQuery(st, l) ==
    LET q == st.query[l]
        s0 == [st EXCEPT !.lru = Drop(@, l), !.query[l] = Waited(@)]
        kind == IF q.rcode = 0 THEN "timeout" ELSE KindOf(-q.rcode)
    IN  CASE q.waits + 1 < Intervals(q.nsends) -> [s0 EXCEPT !.lru = <<l>> \o @]
          [] OTHER -> IF q.age + 1 < QueryTimeout THEN idnsSendQuery(s0, l)
                      ELSE idnsCallback(s0, l, Result(kind, q.name, "timer"))

\* the k oldest queries, from the oldest
Checked(k) ==
    LET after[i \in 0..k] == IF i = 0 THEN state
                             ELSE CheckQuery(after[i - 1], lru[Len(lru) + 1 - i])
    IN  after[k]
NotDue(k) == {lru[i] : i \in 1..(Len(lru) - k)}

\* a mutant of the next definition: the event is not added again
CheckQueueOnce ==
    \E k \in 0..Len(lru) :
    LET st == Checked(k)
    IN  /\ event_queued
        /\ \A l \in NotDue(k) : ~query[l].late
        /\ Becomes([st EXCEPT !.query = [l \in Lookups |->
              IF l \in NotDue(k) THEN [st.query[l] EXCEPT !.late = TRUE]
              ELSE st.query[l]]])
        /\ event_queued' = FALSE
        /\ zone' = zone

\* idnsCheckQueue and idnsTickleQueue: from the oldest to the first that is
\* not due; one passed over once is due the next time
idnsCheckQueue ==
    \E k \in 0..Len(lru) :
    LET st == Checked(k)
    IN  /\ event_queued
        /\ \A l \in NotDue(k) : ~query[l].late
        /\ Becomes([st EXCEPT !.query = [l \in Lookups |->
              IF l \in NotDue(k) THEN [st.query[l] EXCEPT !.late = TRUE]
              ELSE st.query[l]]])
        /\ event_queued' = (st.lru # <<>>)
        /\ zone' = zone
-----------------------------------------------------------------------------
Init == /\ asked = [l \in Lookups |-> None]
        /\ query = [l \in Lookups |-> None]
        /\ lru = <<>> /\ table = <<>>
        /\ cache = [n \in Asked |-> None]
        /\ event_queued = FALSE
        /\ zone \in SUBSET Names

Next == \/ \E l \in Lookups, n \in Asked : ipcache_nbgethostbyname(l, n)
        \/ \E n \in Asked : ipcacheRelease(n)
        \/ idnsRead
        \/ \E l \in Lookups : idnsTcpCleanup(l)
        \/ idnsCheckQueue

Spec == Init /\ [][Next]_vars
\* Weak fairness of idnsCheckQueue, which can run when it is queued: the event
\* list runs what is due.
FairSpec == Spec /\ ([]<>~event_queued \/ []<><<idnsCheckQueue>>_vars)
-----------------------------------------------------------------------------
(* The attempts, sends and waits of a query stay within their limits.        *)
TypeOK == /\ asked \in [Lookups -> Asked \cup {None}]
          /\ query \in [Lookups -> QueryType \cup {None}]
          /\ lru \in Seq(Lookups) /\ table \in Seq(Lookups)
          /\ cache \in [Asked -> Results \cup {None}]
          /\ event_queued \in BOOLEAN /\ zone \subseteq Names
          /\ \A l \in Active : query[l].waits = 0
                                \/ query[l].waits < Intervals(query[l].nsends)

\* how often a caller is to be called back: for its own query, and for its
\* places in the queues of others
Held(l) == Cardinality({o \in Active : o = l})
           + Cardinality({x \in Active \X (1..Cardinality(Lookups)) :
                /\ x[2] \in 1..Len(query[x[1]].queue)
                /\ query[x[1]].queue[x[2]] = l})

(* Whatever is retried, rehashed, joined or given up, a caller that waits is *)
(* to be called back exactly once, and every query is in the list that times *)
(* it out and in the table that lets others join it, once.                   *)
CalledBackOnce ==
    /\ \A l \in Lookups : Held(l) = IF l \in Waiting THEN 1 ELSE 0
    /\ \A list \in {lru, table} : IsInjective(list) /\ ToSet(list) = Active

(* A query in the list has its timer running, so none is left behind.        *)
TimerRuns == lru # <<>> => event_queued

(* A reply to a query finds that query: no two queries in the list share an  *)
(* identifier, whatever was sent again.                                      *)
RepliesFind == \A l \in ToSet(lru) : idnsFindQuery(lru, query, query[l].id) = l

(* The list, the timer that walks it and the identifiers agree: every query  *)
(* is timed out or found by its reply.                                       *)
QueriesConsistent == TypeOK /\ TimerRuns /\ RepliesFind

(* A name is cached with the address of that name or of one the search path  *)
(* makes of it.                                                              *)
OwnAddress == \A n \in Asked : cache[n] # None /\ cache[n].kind = "address" =>
                                   cache[n].name \in Searched(n) \cap zone

(* A name that a reply made "does not exist" exists under no domain of the   *)
(* search path and not by itself, failures and retries between them or not.  *)
NxMeansNone == \A n \in Asked :
    cache[n] # None /\ cache[n].kind = "nx" /\ cache[n].by = "reply" =>
        Searched(n) \cap zone = {}

(* Every lookup is answered, if no reply ever arrives too.                   *)
EveryLookupAnswered == \A l \in Lookups : asked[l] # None ~> asked[l] = None
=============================================================================
