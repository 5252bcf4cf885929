--------------------------- MODULE ResolverProofs ---------------------------
(* What Resolver promises for every set of lookups, names, identifiers and   *)
(* domains.  A query is looked at by itself (QueryOkay), with the others     *)
(* (ListsOkay, IdsOkay) and with the callers it is for (OneQuery).           *)
EXTENDS Resolver, QueueLemmas, TLAPS

\* the names a lookup can be confused about: no caller asks for what the search
\* path makes of another caller's name
Unambiguous == \A m, n \in Asked : n \in Searched(m) => n = m

\* what the operators of Resolver work on
States == [asked : [Lookups -> Asked \cup {None}],
           query : [Lookups -> QueryType \cup {None}],
           lru : Seq(Lookups), table : Seq(Lookups),
           cache : [Asked -> Results \cup {None}]]

Live(st) == {l \in Lookups : st.query[l] # None}
Callers(st, o) == {o} \cup Range(st.query[o].queue)

\* every query is in the list and in the table, once
ListsOkay(st) == \A list \in {st.lru, st.table} :
                     IsInjective(list) /\ Range(list) = Live(st)

\* no two queries have the same identifier
IdsOkay(st) == \A l, m \in Live(st) : st.query[l].id = st.query[m].id => l = m

\* a caller that waits is a caller of one query, and once
OneQuery(st) ==
    /\ \A l \in Lookups : st.asked[l] # None <=> \E o \in Live(st) : l \in Callers(st, o)
    /\ \A o, p \in Live(st) : Callers(st, o) \cap Callers(st, p) # {} => o = p
    /\ \A o \in Live(st) : IsInjective(st.query[o].queue)
                           /\ o \notin Range(st.query[o].queue)

\* the domains of the search path up to the present one have been tried in
\* vain; the last attempt is for the bare name
Tried(q, z) ==
    /\ \A i \in 1..q.domain : \/ Append(q.orig, SearchPath[i]) \notin z
                              \/ i = q.domain /\ q.name = Append(q.orig, SearchPath[i])
    /\ q.attempt = MAX_ATTEMPT =>
          /\ q.name = q.orig
          /\ \A i \in 1..npc : Append(q.orig, SearchPath[i]) \notin z

QueryOkay(q, z) == /\ q.name \in Searched(q.orig)
                   /\ q.waits = 0 \/ q.waits < Intervals(q.nsends)
                   /\ Tried(q, z)

\* what a caller asked for is what the query is for, or what it was called
\* when the caller joined
CallersOkay(st) == \A o \in Live(st) :
    /\ st.asked[o] = st.query[o].orig
    /\ \A l \in Callers(st, o) : st.asked[l] \in Searched(st.query[o].orig)

\* what is said of a name in the cache is true of it
CacheOkay(st, z) == \A n \in Asked : st.cache[n] # None =>
    /\ st.cache[n].kind = "address" => st.cache[n].name \in Searched(n) \cap z
    /\ st.cache[n].kind = "nx" /\ st.cache[n].by = "reply" => Searched(n) \cap z = {}

Good(st, z) == /\ st \in States
               /\ ListsOkay(st) /\ IdsOkay(st) /\ OneQuery(st) /\ CallersOkay(st)
               /\ \A l \in Live(st) : QueryOkay(st.query[l], z)
               /\ Unambiguous => CacheOkay(st, z)

ResolverInv == /\ Good(state, zone) /\ zone \subseteq Names
               /\ event_queued \in BOOLEAN /\ TimerRuns
-----------------------------------------------------------------------------
(* A list without a query has the others, in it once as before.              *)
LEMMA DropOkay ==
  ASSUME NEW list \in Seq(Lookups), NEW l \in Lookups
  PROVE  /\ Drop(list, l) \in Seq(Lookups)
         /\ Range(Drop(list, l)) = Range(list) \ {l}
         /\ IsInjective(list) => IsInjective(Drop(list, l))
  <1>1. Range(list) \subseteq Lookups
    BY RangeEquality DEF Range
  <1> QED
    BY <1>1, KeptProperties DEF Drop

(* A query put in front of the list is in it once.                           *)
LEMMA FrontOkay ==
  ASSUME NEW list \in Seq(Lookups), NEW l \in Lookups, IsInjective(list),
         l \notin Range(list)
  PROVE  /\ <<l>> \o list \in Seq(Lookups) /\ IsInjective(<<l>> \o list)
         /\ Range(<<l>> \o list) = Range(list) \cup {l}
  <1> DEFINE p == <<l>>
  <1>1. /\ p \in Seq(Lookups) /\ Range(p) = {l} /\ IsInjective(p)
    BY DEF Range, IsInjective
  <1> HIDE DEF p
  <1>2. Range(p) \cap Range(list) = {}
    BY <1>1
  <1>3. /\ p \o list \in Seq(Lookups) /\ IsInjective(p \o list)
        /\ Range(p \o list) = Range(p) \cup Range(list)
    BY <1>1, <1>2, ConcatOnce
  <1> QED
    BY <1>1, <1>3 DEF p

\* moving a query to the front of a list
ToFront(list, l) == <<l>> \o Drop(list, l)

(* A query moved to the front leaves the list with the same queries.         *)
LEMMA ToFrontOkay ==
  ASSUME NEW list \in Seq(Lookups), NEW l \in Range(list), IsInjective(list)
  PROVE  /\ ToFront(list, l) \in Seq(Lookups) /\ IsInjective(ToFront(list, l))
         /\ Range(ToFront(list, l)) = Range(list)
  <1>1. l \in Lookups
    BY RangeEquality DEF Range
  <1>2. l \notin Range(Drop(list, l))
    BY <1>1, DropOkay
  <1> DEFINE d == Drop(list, l)
  <1>3. d \in Seq(Lookups) /\ IsInjective(d) /\ Range(d) = Range(list) \ {l}
    BY <1>1, DropOkay
  <1> HIDE DEF d
  <1>4. /\ <<l>> \o d \in Seq(Lookups) /\ IsInjective(<<l>> \o d)
        /\ Range(<<l>> \o d) = Range(d) \cup {l}
    BY <1>1, <1>3, FrontOkay
  <1> QED
    BY <1>3, <1>4 DEF ToFront, d

\* the query of l has become q and is the newest, in the list t of the table
Requeue(st, l, q, t) ==
    [asked |-> st.asked, query |-> [st.query EXCEPT ![l] = q],
     lru |-> ToFront(st.lru, l), table |-> t, cache |-> st.cache]

(* A query that is sent again, for the same callers, under the same or a     *)
(* free identifier, leaves everything in order.                              *)
LEMMA RequeueGood ==
  ASSUME NEW st, NEW z, Good(st, z), NEW l \in Live(st), NEW q \in QueryType,
         q.queue = st.query[l].queue, q.orig = st.query[l].orig, QueryOkay(q, z),
         \A m \in Live(st) \ {l} : st.query[m].id # q.id,
         NEW t \in {st.table, ToFront(st.table, l)}
  PROVE  /\ Good(Requeue(st, l, q, t), z) /\ Live(Requeue(st, l, q, t)) = Live(st)
         /\ Requeue(st, l, q, t).lru # <<>>
  <1> DEFINE s == Requeue(st, l, q, t)
  <1>0. /\ l \in Lookups /\ st \in States /\ q # None
        /\ Range(st.lru) = Live(st) /\ Range(st.table) = Live(st)
        /\ IsInjective(st.lru) /\ IsInjective(st.table)
        /\ st.lru \in Seq(Lookups) /\ st.table \in Seq(Lookups)
    BY NoneAssumption DEF Good, Live, ListsOkay, States
  <1>1. /\ ToFront(st.lru, l) \in Seq(Lookups) /\ IsInjective(ToFront(st.lru, l))
        /\ Range(ToFront(st.lru, l)) = Live(st)
        /\ t \in Seq(Lookups) /\ IsInjective(t) /\ Range(t) = Live(st)
    BY <1>0, ToFrontOkay
  <1>2. /\ s.asked = st.asked /\ s.cache = st.cache /\ s.table = t
        /\ s.lru = ToFront(st.lru, l)
        /\ s.query = [st.query EXCEPT ![l] = q]
    BY DEF Requeue
  <1>3. /\ s.query[l] = q
        /\ \A m \in Lookups \ {l} : s.query[m] = st.query[m]
    BY <1>0, <1>2 DEF States
  <1>4. Live(s) = Live(st)
    BY <1>0, <1>3 DEF Live
  <1>5. \A m \in Lookups : /\ s.query[m].queue = st.query[m].queue
                           /\ s.query[m].orig = st.query[m].orig
    BY <1>3
  <1>6. \A m \in Lookups : Callers(s, m) = Callers(st, m)
    BY <1>5 DEF Callers
  <1>7. s \in States
    BY <1>0, <1>1, <1>2 DEF States, Requeue
  <1>8. ListsOkay(s)
    BY <1>1, <1>2, <1>4 DEF ListsOkay
  <1>9. IdsOkay(s)
    BY <1>0, <1>3, <1>4 DEF IdsOkay, Good, Live
  <1>10. OneQuery(s)
    <2>1. OneQuery(st) /\ Live(st) \subseteq Lookups
      BY DEF Good, Live
    <2> QED
      BY <2>1, <1>2, <1>4, <1>5, <1>6 DEF OneQuery
  <1>11. CallersOkay(s)
    <2>1. CallersOkay(st) /\ Live(st) \subseteq Lookups
      BY DEF Good, Live
    <2> QED
      BY <2>1, <1>2, <1>4, <1>5, <1>6 DEF CallersOkay
  <1>12. \A m \in Live(s) : QueryOkay(s.query[m], z)
    BY <1>3, <1>4 DEF Good, Live
  <1>13. Unambiguous => CacheOkay(s, z)
    BY <1>2 DEF Good, CacheOkay
  <1>14. s.lru # <<>>
    BY <1>1, <1>2, EmptyQueue
  <1> QED
    BY <1>4, <1>7, <1>8, <1>9, <1>10, <1>11, <1>12, <1>13, <1>14 DEF Good

\* the callers of the query of l have been told r
Answered(st, l, r) ==
    [asked |-> [x \in Lookups |-> IF x \in Callers(st, l) THEN None ELSE st.asked[x]],
     query |-> [st.query EXCEPT ![l] = None],
     lru |-> Drop(st.lru, l), table |-> Drop(st.table, l),
     cache |-> [n \in Asked |-> IF \E x \in Callers(st, l) : st.asked[x] = n
                                THEN r ELSE st.cache[n]]]

\* r is true of the name n
TrueOf(r, n, z) == /\ r.kind = "address" => r.name \in Searched(n) \cap z
                   /\ r.kind = "nx" /\ r.by = "reply" => Searched(n) \cap z = {}

(* A query that is answered with something true of the name it is for leaves *)
(* everything in order.                                                      *)
LEMMA AnsweredGood ==
  ASSUME NEW st, NEW z, Good(st, z), NEW l \in Live(st), NEW r \in Results,
         TrueOf(r, st.query[l].orig, z)
  PROVE  Good(Answered(st, l, r), z) /\ Live(Answered(st, l, r)) = Live(st) \ {l}
  <1> DEFINE s == Answered(st, l, r)
             C == Callers(st, l)
  <1>0. /\ l \in Lookups /\ st \in States
        /\ Range(st.lru) = Live(st) /\ Range(st.table) = Live(st)
        /\ IsInjective(st.lru) /\ IsInjective(st.table)
        /\ st.lru \in Seq(Lookups) /\ st.table \in Seq(Lookups)
    BY DEF Good, Live, ListsOkay, States
  <1>1. \A list \in {st.lru, st.table} :
           /\ Drop(list, l) \in Seq(Lookups) /\ IsInjective(Drop(list, l))
           /\ Range(Drop(list, l)) = Live(st) \ {l}
    BY <1>0, DropOkay
  <1>2. /\ s.lru = Drop(st.lru, l) /\ s.table = Drop(st.table, l)
        /\ s.query = [st.query EXCEPT ![l] = None]
        /\ s.asked = [x \in Lookups |-> IF x \in C THEN None ELSE st.asked[x]]
        /\ s.cache = [n \in Asked |-> IF \E x \in C : st.asked[x] = n
                                      THEN r ELSE st.cache[n]]
    BY DEF Answered
  <1>3. s.query[l] = None /\ \A m \in Lookups \ {l} : s.query[m] = st.query[m]
    BY <1>0, <1>2 DEF States
  <1>4. Live(s) = Live(st) \ {l}
    BY <1>0, <1>3 DEF Live
  <1>5. \A m \in Live(s) : /\ s.query[m] = st.query[m] /\ m \in Live(st) /\ m # l
                           /\ Callers(s, m) = Callers(st, m) /\ m \in Lookups
    BY <1>3, <1>4 DEF Callers, Live
  <1>6. s \in States
    BY <1>0, <1>1, <1>2 DEF States, Answered
  <1>7. ListsOkay(s)
    BY <1>1, <1>2, <1>4 DEF ListsOkay
  <1>8. IdsOkay(s)
    BY <1>5 DEF IdsOkay, Good
  <1>9. OneQuery(st) /\ CallersOkay(st)
    BY DEF Good
  <1>10. \A m \in Live(s) : Callers(st, m) \cap C = {}
    BY <1>5, <1>9 DEF OneQuery
  <1>11. OneQuery(s)
    <2>1. \A x \in Lookups : s.asked[x] # None <=> \E o \in Live(s) : x \in Callers(s, o)
      <3> SUFFICES ASSUME NEW x \in Lookups
                   PROVE s.asked[x] # None <=> \E o \in Live(s) : x \in Callers(s, o)
        OBVIOUS
      <3>1. s.asked[x] = IF x \in C THEN None ELSE st.asked[x]
        BY <1>2
      <3>2. st.asked[x] # None <=> \E o \in Live(st) : x \in Callers(st, o)
        BY <1>9 DEF OneQuery
      <3>3. CASE x \in C
        BY <3>1, <3>3, <1>5, <1>10
      <3>4. CASE x \notin C
        BY <3>1, <3>2, <3>4, <1>4, <1>5
      <3> QED
        BY <3>3, <3>4
    <2>2. \A o, p \in Live(s) : Callers(s, o) \cap Callers(s, p) # {} => o = p
      BY <1>5, <1>9 DEF OneQuery
    <2>3. \A o \in Live(s) : IsInjective(s.query[o].queue)
                             /\ o \notin Range(s.query[o].queue)
      BY <1>5, <1>9 DEF OneQuery
    <2> QED
      BY <2>1, <2>2, <2>3 DEF OneQuery
  <1>12. CallersOkay(s)
    <2> SUFFICES ASSUME NEW o \in Live(s)
                 PROVE /\ s.asked[o] = s.query[o].orig
                       /\ \A x \in Callers(s, o) : s.asked[x] \in Searched(s.query[o].orig)
      BY DEF CallersOkay
    <2>1. \A x \in Callers(s, o) : x \in Lookups
      <3>1. st.query[o] \in QueryType
        BY <1>0, <1>5 DEF States, Live
      <3>2. st.query[o].queue \in Seq(Lookups)
        BY <3>1 DEF QueryType
      <3> QED
        BY <3>2, <1>5, RangeEquality DEF Callers, Range
    <2>2. \A x \in Callers(s, o) : s.asked[x] = st.asked[x]
      BY <2>1, <1>2, <1>5, <1>10
    <2>3. o \in Callers(s, o)
      BY DEF Callers
    <2> QED
      BY <2>2, <2>3, <1>5, <1>9 DEF CallersOkay
  <1>13. \A m \in Live(s) : QueryOkay(s.query[m], z)
    BY <1>5 DEF Good
  <1>14. ASSUME Unambiguous PROVE CacheOkay(s, z)
    <2> SUFFICES ASSUME NEW n \in Asked, s.cache[n] # None
                 PROVE  TrueOf(s.cache[n], n, z)
      BY DEF CacheOkay, TrueOf
    <2>1. CASE \E x \in C : st.asked[x] = n
      <3>1. n \in Searched(st.query[l].orig)
        BY <2>1, <1>9 DEF CallersOkay
      <3>2. st.query[l].orig \in Asked
        BY <1>0 DEF States, Live, QueryType
      <3>3. n = st.query[l].orig
        BY <3>1, <3>2, <1>14 DEF Unambiguous
      <3> QED
        BY <2>1, <3>3, <1>2
    <2>2. CASE ~\E x \in C : st.asked[x] = n
      BY <2>2, <1>2, <1>14 DEF Good, CacheOkay, TrueOf
    <2> QED
      BY <2>1, <2>2
  <1> QED
    BY <1>4, <1>6, <1>7, <1>8, <1>11, <1>12, <1>13, <1>14 DEF Good

\* l has joined the query of o, which is asking for n
Joined(st, l, o, n) ==
    [asked |-> [st.asked EXCEPT ![l] = n],
     query |-> [st.query EXCEPT ![o].queue = <<l>> \o @],
     lru |-> st.lru, table |-> st.table, cache |-> st.cache]

(* A caller that waits for nothing is nobody's caller.                       *)
LEMMA NobodysCaller ==
  ASSUME NEW st, NEW z, Good(st, z), NEW l \in Lookups, st.asked[l] = None
  PROVE  l \notin Live(st) /\ \A o \in Live(st) : l \notin Callers(st, o)
  BY DEF Good, OneQuery, Callers

(* A caller that joins the query for the name it asks for leaves everything  *)
(* in order.                                                                 *)
LEMMA JoinedGood ==
  ASSUME NEW st, NEW z, Good(st, z), NEW l \in Lookups, st.asked[l] = None,
         NEW o \in Live(st), NEW n \in Asked, st.query[o].name = n
  PROVE  Good(Joined(st, l, o, n), z)
  <1> DEFINE s == Joined(st, l, o, n)
             q == st.query[o]
             q2 == [q EXCEPT !.queue = <<l>> \o @]
  <1>0. /\ o \in Lookups /\ st \in States /\ q \in QueryType
        /\ q.queue \in Seq(Lookups)
        /\ OneQuery(st) /\ CallersOkay(st) /\ ListsOkay(st) /\ IdsOkay(st)
    BY DEF Good, Live, States, QueryType
  <1>1. l \notin Live(st) /\ \A p \in Live(st) : l \notin Callers(st, p)
    BY NobodysCaller
  <1>2. IsInjective(q.queue) /\ l \notin Range(q.queue) /\ o \notin Range(q.queue)
    BY <1>0, <1>1 DEF OneQuery, Callers
  <1>3. /\ <<l>> \o q.queue \in Seq(Lookups) /\ IsInjective(<<l>> \o q.queue)
        /\ Range(<<l>> \o q.queue) = Range(q.queue) \cup {l}
    BY <1>0, <1>2, FrontOkay
  <1>4. /\ q2 \in QueryType /\ q2.queue = <<l>> \o q.queue
        /\ q2.orig = q.orig /\ q2.name = q.name /\ q2.id = q.id
        /\ q2.domain = q.domain /\ q2.attempt = q.attempt
        /\ q2.waits = q.waits /\ q2.nsends = q.nsends
    BY <1>0, <1>3 DEF QueryType
  <1>5. /\ s.asked = [st.asked EXCEPT ![l] = n] /\ s.lru = st.lru
        /\ s.table = st.table /\ s.cache = st.cache
        /\ s.query = [st.query EXCEPT ![o] = q2]
    BY DEF Joined
  <1> HIDE DEF q2, s
  <1>6. s.query[o] = q2 /\ \A m \in Lookups \ {o} : s.query[m] = st.query[m]
    BY <1>0, <1>5 DEF States
  <1>7. s.asked[l] = n /\ n # None /\ \A m \in Lookups \ {l} : s.asked[m] = st.asked[m]
    BY <1>0, <1>5, NoneAssumption DEF States
  <1>8. q2 # None
    BY <1>4, NoneAssumption
  <1>9. Live(s) = Live(st)
    BY <1>0, <1>6, <1>8 DEF Live
  <1>10. /\ Callers(s, o) = Callers(st, o) \cup {l}
         /\ \A m \in Live(s) \ {o} : Callers(s, m) = Callers(st, m)
    BY <1>3, <1>4, <1>6, <1>9 DEF Callers, Live
  <1>11. s \in States
    <2>1. s.query \in [Lookups -> QueryType \cup {None}]
      BY <1>0, <1>4, <1>5 DEF States
    <2>2. s.asked \in [Lookups -> Asked \cup {None}]
      BY <1>0, <1>5 DEF States
    <2> QED
      BY <2>1, <2>2, <1>0 DEF States, s, Joined
  <1>12. ListsOkay(s)
    BY <1>0, <1>5, <1>9 DEF ListsOkay
  <1>13. \A m \in Live(st) : s.query[m].id = st.query[m].id /\ s.query[m].orig = st.query[m].orig
    BY <1>4, <1>6 DEF Live
  <1>14. IdsOkay(s)
    BY <1>0, <1>9, <1>13 DEF IdsOkay
  <1>15. OneQuery(s)
    <2>1. \A x \in Lookups : s.asked[x] # None <=> \E p \in Live(s) : x \in Callers(s, p)
      <3> SUFFICES ASSUME NEW x \in Lookups
                   PROVE s.asked[x] # None <=> \E p \in Live(s) : x \in Callers(s, p)
        OBVIOUS
      <3>1. CASE x = l
        BY <3>1, <1>7, <1>9, <1>10
      <3>2. CASE x # l
        <4>1. \A p \in Live(s) : x \in Callers(s, p) <=> x \in Callers(st, p)
          BY <3>2, <1>10
        <4> QED
          BY <3>2, <4>1, <1>0, <1>7, <1>9 DEF OneQuery
      <3> QED
        BY <3>1, <3>2
    <2>2. ASSUME NEW p \in Live(s), NEW r \in Live(s), Callers(s, p) \cap Callers(s, r) # {}
          PROVE  p = r
      <3>1. \A m \in Live(s) : m # o => l \notin Callers(s, m)
        BY <1>1, <1>9, <1>10
      <3>2. PICK x : x \in Callers(s, p) /\ x \in Callers(s, r)
        BY <2>2
      <3>3. CASE x = l
        BY <3>1, <3>2, <3>3
      <3>4. CASE x # l
        <4>1. x \in Callers(st, p) /\ x \in Callers(st, r)
          BY <3>2, <3>4, <1>10
        <4> QED
          BY <4>1, <1>0, <1>9 DEF OneQuery
      <3> QED
        BY <3>3, <3>4
    <2>3. \A m \in Live(s) : IsInjective(s.query[m].queue) /\ m \notin Range(s.query[m].queue)
      <3> SUFFICES ASSUME NEW m \in Live(s)
                   PROVE IsInjective(s.query[m].queue) /\ m \notin Range(s.query[m].queue)
        OBVIOUS
      <3>1. CASE m = o
        BY <3>1, <1>1, <1>2, <1>3, <1>4, <1>6
      <3>2. CASE m # o
        BY <3>2, <1>0, <1>6, <1>9 DEF OneQuery, Live
      <3> QED
        BY <3>1, <3>2
    <2> QED
      BY <2>1, <2>2, <2>3 DEF OneQuery
  <1>16. CallersOkay(s)
    <2> SUFFICES ASSUME NEW p \in Live(s)
                 PROVE /\ s.asked[p] = s.query[p].orig
                       /\ \A x \in Callers(s, p) : s.asked[x] \in Searched(s.query[p].orig)
      BY DEF CallersOkay
    <2>0. p \in Live(st) /\ p \in Lookups /\ s.query[p].orig = st.query[p].orig
      BY <1>9, <1>13 DEF Live
    <2>1. s.asked[p] = s.query[p].orig
      BY <2>0, <1>0, <1>1, <1>7 DEF CallersOkay
    <2>2. ASSUME NEW x \in Callers(s, p) PROVE s.asked[x] \in Searched(s.query[p].orig)
      <3>1. CASE x = l
        <4>1. p = o
          BY <3>1, <2>0, <2>2, <1>1, <1>9, <1>10
        <4>2. q.name \in Searched(q.orig)
          BY DEF Good, QueryOkay
        <4> QED
          BY <3>1, <4>1, <4>2, <1>4, <1>6, <1>7
      <3>2. CASE x # l
        <4>1. x \in Callers(st, p)
          BY <3>2, <2>2, <1>9, <1>10
        <4>2. x \in Lookups
          <5>1. st.query[p] \in QueryType
            BY <2>0, <1>0 DEF States, Live
          <5>2. st.query[p].queue \in Seq(Lookups)
            BY <5>1 DEF QueryType
          <5> QED
            BY <5>2, <4>1, <2>0, RangeEquality DEF Callers, Range
        <4> QED
          BY <3>2, <4>1, <4>2, <2>0, <1>0, <1>7 DEF CallersOkay
      <3> QED
        BY <3>1, <3>2
    <2> QED
      BY <2>1, <2>2
  <1>17. \A m \in Live(s) : QueryOkay(s.query[m], z)
    <2> SUFFICES ASSUME NEW m \in Live(st) PROVE QueryOkay(s.query[m], z)
      BY <1>9
    <2>1. QueryOkay(st.query[m], z)
      BY DEF Good
    <2>2. CASE m = o
      BY <2>1, <2>2, <1>4, <1>6 DEF QueryOkay, Tried
    <2>3. CASE m # o
      BY <2>1, <2>3, <1>6 DEF Live
    <2> QED
      BY <2>2, <2>3
  <1>18. Unambiguous => CacheOkay(s, z)
    BY <1>5 DEF Good, CacheOkay
  <1> QED
    BY <1>11, <1>12, <1>14, <1>15, <1>16, <1>17, <1>18 DEF Good, s

\* l has asked for n by a query q of its own
Started(st, l, n, q) ==
    [asked |-> [st.asked EXCEPT ![l] = n], query |-> [st.query EXCEPT ![l] = q],
     lru |-> <<l>> \o st.lru, table |-> <<l>> \o st.table, cache |-> st.cache]

(* A new query under a free identifier leaves everything in order.           *)
LEMMA StartedGood ==
  ASSUME NEW st, NEW z, Good(st, z), NEW l \in Lookups, st.asked[l] = None,
         NEW n \in Asked, NEW q \in QueryType, q.orig = n, q.queue = <<>>,
         QueryOkay(q, z), \A m \in Live(st) : st.query[m].id # q.id
  PROVE  Good(Started(st, l, n, q), z)
  <1> DEFINE s == Started(st, l, n, q)
  <1>0. /\ st \in States /\ OneQuery(st) /\ CallersOkay(st) /\ ListsOkay(st) /\ IdsOkay(st)
        /\ st.lru \in Seq(Lookups) /\ st.table \in Seq(Lookups)
        /\ q # None /\ n # None
    BY NoneAssumption DEF Good, States
  <1>1. l \notin Live(st) /\ \A p \in Live(st) : l \notin Callers(st, p)
    BY NobodysCaller
  <1>2. \A list \in {st.lru, st.table} :
           /\ <<l>> \o list \in Seq(Lookups) /\ IsInjective(<<l>> \o list)
           /\ Range(<<l>> \o list) = Live(st) \cup {l}
    BY <1>0, <1>1, FrontOkay DEF ListsOkay
  <1>3. /\ s.asked = [st.asked EXCEPT ![l] = n]
        /\ s.query = [st.query EXCEPT ![l] = q]
        /\ s.lru = <<l>> \o st.lru /\ s.table = <<l>> \o st.table
        /\ s.cache = st.cache
    BY DEF Started
  <1> HIDE DEF s
  <1>4. s.query[l] = q /\ \A m \in Lookups \ {l} : s.query[m] = st.query[m]
    BY <1>0, <1>3 DEF States
  <1>5. s.asked[l] = n /\ \A m \in Lookups \ {l} : s.asked[m] = st.asked[m]
    BY <1>0, <1>3 DEF States
  <1>6. Live(s) = Live(st) \cup {l}
    BY <1>0, <1>4 DEF Live
  <1>7. /\ Callers(s, l) = {l}
        /\ \A m \in Live(st) : Callers(s, m) = Callers(st, m) /\ s.query[m] = st.query[m]
                               /\ m \in Lookups /\ m # l
    BY <1>1, <1>4, EmptyQueue DEF Callers, Live
  <1>8. s \in States
    <2>1. s.query \in [Lookups -> QueryType \cup {None}]
      BY <1>0, <1>3 DEF States
    <2>2. s.asked \in [Lookups -> Asked \cup {None}]
      BY <1>0, <1>3 DEF States
    <2>3. s.lru \in Seq(Lookups) /\ s.table \in Seq(Lookups)
      BY <1>2, <1>3
    <2> QED
      BY <2>1, <2>2, <2>3, <1>0 DEF States, s, Started
  <1>9. ListsOkay(s)
    BY <1>2, <1>3, <1>6 DEF ListsOkay
  <1>10. IdsOkay(s)
    BY <1>0, <1>4, <1>6, <1>7 DEF IdsOkay
  <1>11. OneQuery(s)
    <2>1. \A x \in Lookups : s.asked[x] # None <=> \E p \in Live(s) : x \in Callers(s, p)
      <3> SUFFICES ASSUME NEW x \in Lookups
                   PROVE s.asked[x] # None <=> \E p \in Live(s) : x \in Callers(s, p)
        OBVIOUS
      <3>1. CASE x = l
        BY <3>1, <1>0, <1>5, <1>6, <1>7
      <3>2. CASE x # l
        BY <3>2, <1>0, <1>5, <1>6, <1>7 DEF OneQuery
      <3> QED
        BY <3>1, <3>2
    <2>2. \A p, r \in Live(s) : Callers(s, p) \cap Callers(s, r) # {} => p = r
      BY <1>0, <1>1, <1>6, <1>7 DEF OneQuery
    <2>3. \A m \in Live(s) : IsInjective(s.query[m].queue) /\ m \notin Range(s.query[m].queue)
      BY <1>0, <1>4, <1>6, <1>7, EmptyQueue DEF OneQuery
    <2> QED
      BY <2>1, <2>2, <2>3 DEF OneQuery
  <1>12. CallersOkay(s)
    <2> SUFFICES ASSUME NEW p \in Live(s)
                 PROVE /\ s.asked[p] = s.query[p].orig
                       /\ \A x \in Callers(s, p) : s.asked[x] \in Searched(s.query[p].orig)
      BY DEF CallersOkay
    <2>1. CASE p = l
      BY <2>1, <1>4, <1>5, <1>7 DEF Searched
    <2>2. CASE p # l
      <3>1. p \in Live(st) /\ Callers(s, p) = Callers(st, p) /\ s.query[p] = st.query[p]
            /\ p \in Lookups
        BY <2>2, <1>6, <1>7
      <3>2. \A x \in Callers(s, p) : x \in Lookups /\ x # l
        <4>1. st.query[p] \in QueryType
          BY <3>1, <1>0 DEF States, Live
        <4>2. st.query[p].queue \in Seq(Lookups)
          BY <4>1 DEF QueryType
        <4> QED
          BY <4>2, <3>1, <1>1, RangeEquality DEF Callers, Range
      <3> QED
        BY <3>1, <3>2, <2>2, <1>0, <1>5 DEF CallersOkay
    <2> QED
      BY <2>1, <2>2
  <1>13. \A m \in Live(s) : QueryOkay(s.query[m], z)
    BY <1>4, <1>6, <1>7 DEF Good
  <1>14. Unambiguous => CacheOkay(s, z)
    BY <1>3 DEF Good, CacheOkay
  <1> QED
    BY <1>8, <1>9, <1>10, <1>11, <1>12, <1>13, <1>14 DEF Good, s
-----------------------------------------------------------------------------
(* The query of an identifier is the one query in the list that has it, and  *)
(* there is none for a free identifier.                                      *)
LEMMA FoundQuery ==
  ASSUME NEW list \in Seq(Lookups), NEW qs, NEW id,
         IsInjective(list),
         \A l, m \in Range(list) : qs[l].id = qs[m].id => l = m
  PROVE  /\ idnsFindQuery(list, qs, id) # None =>
               /\ idnsFindQuery(list, qs, id) \in Range(list)
               /\ qs[idnsFindQuery(list, qs, id)].id = id
         /\ idnsFindQuery(list, qs, id) = None => \A l \in Range(list) : qs[l].id # id
         /\ \A l \in Range(list) : qs[l].id = id => idnsFindQuery(list, qs, id) = l
  <1> DEFINE same == {i \in DOMAIN list : qs[list[i]].id = id}
  <1>0. /\ DOMAIN list = 1..Len(list) /\ Len(list) \in Nat
        /\ Range(list) = {list[i] : i \in DOMAIN list} /\ Range(list) \subseteq Lookups
    BY LenProperties DEF Range
  <1>1. idnsFindQuery(list, qs, id) = IF same = {} THEN None ELSE list[Max(same)]
    BY DEF idnsFindQuery
  <1>2. CASE same = {}
    BY <1>0, <1>1, <1>2
  <1>3. CASE same # {}
    <2>1. PICK i : i \in same
      BY <1>3
    <2>2. \A j \in same : j = i
      BY <1>0, <2>1 DEF IsInjective
    <2>3. same = {i} /\ i \in Nat
      BY <1>0, <2>1, <2>2
    <2>4. Max(same) = i
      BY <2>3 DEF Max
    <2>5. idnsFindQuery(list, qs, id) = list[i] /\ list[i] \in Range(list) /\ list[i] # None
      BY <1>0, <1>1, <1>3, <2>1, <2>4, NoneAssumption
    <2>6. \A l \in Range(list) : qs[l].id = id => l = list[i]
      BY <2>1, <2>5
    <2> QED
      BY <2>1, <2>5, <2>6
  <1> QED
    BY <1>2, <1>3

(* A free identifier is one that no query in the list has.                   *)
LEMMA FreeId ==
  ASSUME NEW list \in Seq(Lookups), NEW qs, NEW id \in idnsQueryID(list, qs),
         IsInjective(list), \A l, m \in Range(list) : qs[l].id = qs[m].id => l = m
  PROVE  id \in Ids /\ \A l \in Range(list) : qs[l].id # id
  BY FoundQuery DEF idnsQueryID

(* The query a lookup joins is asking for its name.                          *)
LEMMA CachedQuery ==
  ASSUME table \in Seq(Lookups), NEW n, idnsCachedLookup(n) # None
  PROVE  /\ idnsCachedLookup(n) \in Range(table)
         /\ query[idnsCachedLookup(n)].name = n
  <1> DEFINE same == {i \in DOMAIN table : query[table[i]].name = n}
  <1>1. /\ DOMAIN table = 1..Len(table) /\ Len(table) \in Nat
    BY LenProperties
  <1>2. idnsCachedLookup(n) = table[Min(same)] /\ same # {}
    BY DEF idnsCachedLookup
  <1>3. same \subseteq Nat
    BY <1>1
  <1>4. \E i \in same : \A j \in same : i <= j
    BY <1>2, <1>3, LeastNatural
  <1>5. Min(same) \in same
    BY <1>4 DEF Min
  <1> QED
    BY <1>2, <1>5 DEF Range
-----------------------------------------------------------------------------
\* s is st, except that the query of l is q and out of the list, and the table is t
Taken(s, st, l, q, t) ==
    /\ s \in States /\ s.asked = st.asked /\ s.cache = st.cache
    /\ s.query = [st.query EXCEPT ![l] = q] /\ s.lru = Drop(st.lru, l) /\ s.table = t

(* Two states with the same fields are the same.                             *)
LEMMA SameState ==
  ASSUME NEW s \in States, NEW a, NEW q, NEW l, NEW t, NEW c,
         s.asked = a, s.query = q, s.lru = l, s.table = t, s.cache = c
  PROVE  s = [asked |-> a, query |-> q, lru |-> l, table |-> t, cache |-> c]
  BY DEF States

(* Updating the query of a caller twice is updating it once.                 *)
LEMMA Twice ==
  ASSUME NEW f \in [Lookups -> QueryType \cup {None}], NEW l \in Lookups, NEW x, NEW y
  PROVE  [f EXCEPT ![l] = x][l] = x /\ [[f EXCEPT ![l] = x] EXCEPT ![l] = y] = [f EXCEPT ![l] = y]
  OBVIOUS

(* Sending a query changes nothing that its callers, its name or its         *)
(* identifier depend on.                                                     *)
LEMMA SentOkay ==
  ASSUME NEW q \in QueryType
  PROVE  /\ Sent(q) \in QueryType /\ Sent(q).waits = 0
         /\ Sent(q).queue = q.queue /\ Sent(q).orig = q.orig /\ Sent(q).id = q.id
         /\ Sent(q).name = q.name /\ Sent(q).domain = q.domain
         /\ Sent(q).attempt = q.attempt
  <1> DEFINE n == IF q.nsends < MaxSends THEN q.nsends + 1 ELSE q.nsends
  <1>1. n \in 1..MaxSends
    BY ResolverAssumption DEF QueryType
  <1>2. Sent(q) = [q EXCEPT !.nsends = n, !.waits = 0, !.late = FALSE, !.tcp = FALSE]
    BY DEF Sent
  <1> HIDE DEF n
  <1>3. [q EXCEPT !.nsends = n, !.waits = 0, !.late = FALSE, !.tcp = FALSE] \in QueryType
    BY <1>1 DEF QueryType
  <1>4. /\ Sent(q).waits = 0 /\ Sent(q).queue = q.queue /\ Sent(q).orig = q.orig
        /\ Sent(q).id = q.id
    BY <1>2 DEF QueryType
  <1>5. /\ Sent(q).name = q.name /\ Sent(q).domain = q.domain
        /\ Sent(q).attempt = q.attempt
    BY <1>2 DEF QueryType
  <1> QED
    BY <1>2, <1>3, <1>4, <1>5

(* Waiting for another interval changes nothing but the times.               *)
LEMMA WaitedOkay ==
  ASSUME NEW q \in QueryType
  PROVE  /\ Waited(q) \in QueryType /\ Waited(q).waits = q.waits + 1
         /\ Waited(q).queue = q.queue /\ Waited(q).orig = q.orig /\ Waited(q).id = q.id
         /\ Waited(q).name = q.name /\ Waited(q).domain = q.domain
         /\ Waited(q).attempt = q.attempt /\ Waited(q).nsends = q.nsends
  <1> DEFINE n == IF q.age < QueryTimeout THEN q.age + 1 ELSE q.age
             w == q.waits + 1
  <1>1. n \in 0..QueryTimeout /\ w \in Nat
    BY ResolverAssumption DEF QueryType
  <1>2. Waited(q) = [q EXCEPT !.waits = w, !.late = FALSE, !.age = n]
    BY DEF Waited
  <1> HIDE DEF n, w
  <1>3. /\ Waited(q) \in QueryType /\ Waited(q).waits = w
        /\ Waited(q).queue = q.queue /\ Waited(q).orig = q.orig /\ Waited(q).id = q.id
        /\ Waited(q).name = q.name /\ Waited(q).domain = q.domain
        /\ Waited(q).attempt = q.attempt /\ Waited(q).nsends = q.nsends
    BY <1>1, <1>2 DEF QueryType
  <1> QED
    BY <1>3 DEF w

(* Sending the query of l, which has been taken out of the list, is putting  *)
(* it in front.                                                              *)
LEMMA SendIsRequeue ==
  ASSUME NEW st \in States, NEW l \in Lookups, NEW q \in QueryType, NEW t, NEW s,
         Taken(s, st, l, q, t)
  PROVE  idnsSendQuery(s, l) = Requeue(st, l, Sent(q), t)
  <1> DEFINE u == idnsSendQuery(s, l)
  <1>0. s \in States /\ s.query \in [Lookups -> QueryType \cup {None}] /\ s.lru \in Seq(Lookups)
    BY DEF Taken, States
  <1>1. /\ u.asked = s.asked /\ u.cache = s.cache /\ u.table = s.table
        /\ u.lru = <<l>> \o s.lru /\ u.query = [s.query EXCEPT ![l] = Sent(s.query[l])]
    BY <1>0 DEF idnsSendQuery, States
  <1>2. st.query \in [Lookups -> QueryType \cup {None}]
    BY DEF States
  <1>3. s.query[l] = q /\ [s.query EXCEPT ![l] = Sent(q)] = [st.query EXCEPT ![l] = Sent(q)]
    BY <1>2, Twice DEF Taken
  <1>4. u \in States
    <2> DEFINE x == <<l>> \o s.lru
               y == Sent(q)
    <2>1. y \in QueryType
      BY SentOkay
    <2>2. u = [s EXCEPT !.query[l] = y, !.lru = x]
      BY <1>3 DEF idnsSendQuery
    <2>3. x \in Seq(Lookups)
      BY <1>0
    <2> HIDE DEF x, y, u
    <2> QED
      BY <1>0, <2>1, <2>2, <2>3 DEF States
  <1> HIDE DEF u
  <1>5. /\ u.asked = st.asked /\ u.cache = st.cache /\ u.table = t
        /\ u.lru = ToFront(st.lru, l) /\ u.query = [st.query EXCEPT ![l] = Sent(q)]
    BY <1>1, <1>3 DEF Taken, ToFront
  <1> QED
    BY <1>4, <1>5, SameState DEF Requeue, u

(* Calling back, from a state in which only the query of l has changed and   *)
(* is out of the list, is what Answered says.                                *)
LEMMA CallbackIsAnswered ==
  ASSUME NEW st \in States, NEW l \in Lookups, NEW q, NEW r \in Results,
         q.queue = st.query[l].queue, NEW s, Taken(s, st, l, q, st.table)
  PROVE  idnsCallback(s, l, r) = Answered(st, l, r)
  <1> DEFINE C == Callers(st, l)
             as == [x \in Lookups |-> IF x \in C THEN None ELSE st.asked[x]]
             ca == [n \in Asked |-> IF \E x \in C : st.asked[x] = n THEN r ELSE st.cache[n]]
             h == ipcacheHandleReply(s, C, r)
             u == idnsCallback(s, l, r)
  <1>0. /\ s \in States /\ s.query \in [Lookups -> QueryType \cup {None}] /\ s.lru \in Seq(Lookups)
        /\ s.table \in Seq(Lookups)
        /\ st.query \in [Lookups -> QueryType \cup {None}]
        /\ st.asked \in [Lookups -> Asked \cup {None}]
        /\ st.cache \in [Asked -> Results \cup {None}]
    BY DEF Taken, States
  <1>1. s.query[l] = q /\ [s.query EXCEPT ![l] = None] = [st.query EXCEPT ![l] = None]
    BY <1>0, Twice DEF Taken
  <1>2. {l} \cup ToSet(s.query[l].queue) = C
    BY <1>1 DEF Callers, ToSet, Range
  <1>3. as \in [Lookups -> Asked \cup {None}] /\ ca \in [Asked -> Results \cup {None}]
    BY <1>0
  <1>4. h = [s EXCEPT !.cache = ca, !.asked = as]
    BY DEF ipcacheHandleReply, Taken
  <1>5. u = [h EXCEPT !.table = Drop(@, l), !.query[l] = None]
    BY <1>2 DEF idnsCallback
  <1> HIDE DEF C, as, ca, h, u
  <1>6. h \in States
    BY <1>0, <1>3, <1>4 DEF States
  <1>7. h.asked = as /\ h.cache = ca /\ h.query = s.query /\ h.lru = s.lru /\ h.table = s.table
    BY <1>0, <1>4 DEF States
  <1>8. Drop(h.table, l) \in Seq(Lookups)
    BY <1>0, <1>7, DropOkay
  <1>9. u \in States
    BY <1>5, <1>6, <1>8 DEF States
  <1>10. /\ u.asked = h.asked /\ u.cache = h.cache /\ u.lru = h.lru
         /\ u.table = Drop(h.table, l) /\ u.query = [h.query EXCEPT ![l] = None]
    BY <1>5, <1>6 DEF States
  <1>11. /\ u.asked = as /\ u.cache = ca /\ u.lru = Drop(st.lru, l)
         /\ u.table = Drop(st.table, l) /\ u.query = [st.query EXCEPT ![l] = None]
    BY <1>1, <1>7, <1>10 DEF Taken
  <1> QED
    BY <1>9, <1>11, SameState DEF Answered, as, ca, C, u

(* A query that is due is kept, sent again or answered, and nothing else     *)
(* changes.                                                                  *)
LEMMA CheckQueryGood ==
  ASSUME NEW st, NEW z, Good(st, z), NEW l \in Live(st)
  PROVE  /\ Good(CheckQuery(st, l), z)
         /\ Live(st) \ {l} \subseteq Live(CheckQuery(st, l))
  <1> DEFINE q == st.query[l]
             qa == Waited(q)
             s0 == [st EXCEPT !.lru = Drop(@, l), !.query[l] = Waited(@)]
             r == Result(IF q.rcode = 0 THEN "timeout" ELSE KindOf(-q.rcode), q.name, "timer")
  <1>0. /\ st \in States /\ l \in Lookups /\ q \in QueryType /\ QueryOkay(q, z)
        /\ st.lru \in Seq(Lookups)
    BY DEF Good, Live, States
  <1>1. CheckQuery(st, l) =
           IF q.waits + 1 < Intervals(q.nsends) THEN [s0 EXCEPT !.lru = <<l>> \o @]
           ELSE IF q.age + 1 < QueryTimeout THEN idnsSendQuery(s0, l)
           ELSE idnsCallback(s0, l, r)
    BY DEF CheckQuery
  <1>3. /\ qa \in QueryType /\ qa.waits = q.waits + 1
        /\ qa.queue = q.queue /\ qa.orig = q.orig /\ qa.id = q.id
        /\ qa.name = q.name /\ qa.domain = q.domain
        /\ qa.attempt = q.attempt /\ qa.nsends = q.nsends
    BY <1>0, WaitedOkay
  <1>2. Taken(s0, st, l, qa, st.table)
    <2> DEFINE d == Drop(st.lru, l)
    <2>1. d \in Seq(Lookups)
      BY <1>0, DropOkay
    <2>2. s0 = [st EXCEPT !.lru = d, !.query[l] = qa]
      OBVIOUS
    <2> HIDE DEF qa, d, s0
    <2>3. s0 \in States
      BY <1>0, <1>3, <2>1, <2>2 DEF States
    <2>4. /\ s0.asked = st.asked /\ s0.cache = st.cache /\ s0.table = st.table
          /\ s0.lru = d /\ s0.query = [st.query EXCEPT ![l] = qa]
      BY <1>0, <2>2 DEF States
    <2> QED
      BY <2>3, <2>4 DEF Taken, d
  <1>4. \A m \in Live(st) \ {l} : st.query[m].id # q.id
    BY DEF Good, IdsOkay
  <1> HIDE DEF s0, qa, r
  <1>5. CASE q.waits + 1 < Intervals(q.nsends)
    <2> DEFINE u == CheckQuery(st, l)
    <2>1. u = [s0 EXCEPT !.lru = <<l>> \o s0.lru] /\ s0 \in States
      BY <1>1, <1>2, <1>5 DEF Taken
    <2> HIDE DEF u
    <2>2. u = Requeue(st, l, qa, st.table)
      <3>1. <<l>> \o s0.lru \in Seq(Lookups)
        BY <1>0, <2>1 DEF States
      <3>2. u \in States
        BY <2>1, <3>1 DEF States
      <3>3. /\ u.asked = s0.asked /\ u.cache = s0.cache /\ u.table = s0.table
            /\ u.query = s0.query /\ u.lru = <<l>> \o s0.lru
        BY <2>1 DEF States
      <3>4. /\ u.asked = st.asked /\ u.cache = st.cache /\ u.table = st.table
            /\ u.lru = ToFront(st.lru, l) /\ u.query = [st.query EXCEPT ![l] = qa]
        BY <3>3, <1>2 DEF Taken, ToFront
      <3> QED
        BY <3>2, <3>4, SameState DEF Requeue
    <2>3. QueryOkay(qa, z)
      BY <1>0, <1>3, <1>5 DEF QueryOkay, Tried
    <2>4. /\ Good(Requeue(st, l, qa, st.table), z)
          /\ Live(Requeue(st, l, qa, st.table)) = Live(st)
      BY <1>3, <1>4, <2>3, RequeueGood
    <2> QED
      BY <2>2, <2>4 DEF u
  <1>6. CASE ~(q.waits + 1 < Intervals(q.nsends)) /\ q.age + 1 < QueryTimeout
    <2>1. CheckQuery(st, l) = idnsSendQuery(s0, l)
      BY <1>1, <1>6
    <2>2. CheckQuery(st, l) = Requeue(st, l, Sent(qa), st.table)
      BY <2>1, <1>0, <1>2, <1>3, SendIsRequeue
    <2>3. /\ Sent(qa) \in QueryType /\ Sent(qa).waits = 0
          /\ Sent(qa).queue = q.queue /\ Sent(qa).orig = q.orig /\ Sent(qa).id = q.id
          /\ Sent(qa).name = q.name /\ Sent(qa).domain = q.domain
          /\ Sent(qa).attempt = q.attempt
      BY <1>3, SentOkay
    <2>4. QueryOkay(Sent(qa), z)
      BY <1>0, <2>3 DEF QueryOkay, Tried
    <2>5. /\ Good(Requeue(st, l, Sent(qa), st.table), z)
          /\ Live(Requeue(st, l, Sent(qa), st.table)) = Live(st)
      BY <1>4, <2>3, <2>4, RequeueGood
    <2> QED
      BY <2>2, <2>5
  <1>7. CASE ~(q.waits + 1 < Intervals(q.nsends)) /\ ~(q.age + 1 < QueryTimeout)
    <2>1. CheckQuery(st, l) = idnsCallback(s0, l, r)
      BY <1>1, <1>7
    <2>3. q.rcode \in {0, 2, 3} /\ q.name \in Names
      BY <1>0 DEF QueryType
    <2>4. r \in Results /\ r.kind # "address" /\ r.by = "timer"
      <3>1. KindOf(-2) = "fail" /\ KindOf(-3) = "nx"
        BY DEF KindOf
      <3> DEFINE k == IF q.rcode = 0 THEN "timeout" ELSE KindOf(-q.rcode)
      <3>2. k \in {"timeout", "fail", "nx"}
        BY <2>3, <3>1
      <3>3. r = [kind |-> k, name |-> q.name, by |-> "timer"]
        BY DEF r, Result
      <3> HIDE DEF k
      <3> QED
        BY <2>3, <3>2, <3>3 DEF Results
    <2>2. CheckQuery(st, l) = Answered(st, l, r)
      BY <2>1, <2>4, <1>0, <1>2, <1>3, CallbackIsAnswered
    <2>5. TrueOf(r, q.orig, z)
      BY <2>4 DEF TrueOf
    <2>6. Good(Answered(st, l, r), z) /\ Live(Answered(st, l, r)) = Live(st) \ {l}
      BY <2>4, <2>5, AnsweredGood
    <2> QED
      BY <2>2, <2>6
  <1> QED
    BY <1>5, <1>6, <1>7
-----------------------------------------------------------------------------
\* the states that checking the i oldest queries, one after another, leads to
Walk(f, k) == f = [i \in 0..k |-> IF i = 0 THEN state
                                  ELSE CheckQuery(f[i - 1], lru[Len(lru) + 1 - i])]

(* Checking the oldest queries one after another leads somewhere.            *)
LEMMA WalkExists == \A k \in Nat : \E f : Walk(f, k)
  <1> DEFINE T == {k \in Nat : ~\E f : Walk(f, k)}
  <1> SUFFICES ASSUME T # {} PROVE FALSE
    OBVIOUS
  <1>1. PICK m \in T : \A n \in T : m <= n
    BY LeastNatural
  <1>2. m # 0
    <2>1. Walk([i \in 0..0 |-> state], 0)
      BY DEF Walk
    <2> QED
      BY <2>1
  <1>3. m - 1 \in Nat /\ m - 1 \notin T
    BY <1>1, <1>2
  <1>4. PICK f : Walk(f, m - 1)
    BY <1>3
  <1> DEFINE Step(s, i) == IF i = 0 THEN state ELSE CheckQuery(s, lru[Len(lru) + 1 - i])
             g == [i \in 0..m |-> IF i = m THEN Step(f[m - 1], m) ELSE f[i]]
  <1>5. \A i \in 0..(m - 1) : f[i] = Step(f[i - 1], i)
    BY <1>3, <1>4 DEF Walk
  <1> HIDE DEF Step
  <1>6. \A i \in 0..m : g[i] = Step(g[i - 1], i)
    <2> SUFFICES ASSUME NEW i \in 0..m PROVE g[i] = Step(g[i - 1], i)
      OBVIOUS
    <2>1. CASE i = m
      BY <2>1, <1>2, <1>3
    <2>2. CASE i # m /\ i # 0
      BY <2>2, <1>3, <1>5
    <2>3. CASE i = 0
      BY <2>3, <1>2, <1>3, <1>5 DEF Step
    <2> QED
      BY <2>1, <2>2, <2>3
  <1>7. Walk(g, m)
    BY <1>6 DEF Walk, Step
  <1> QED
    BY <1>7

(* Checking any number of the oldest queries leaves everything in order, and *)
(* the others as they are.                                                   *)
LEMMA CheckedGood ==
  ASSUME NEW z, Good(state, z), NEW k \in 0..Len(lru)
  PROVE  Good(Checked(k), z) /\ NotDue(k) \subseteq Live(Checked(k))
  <1>0. /\ lru \in Seq(Lookups) /\ IsInjective(lru) /\ Range(lru) = Live(state)
        /\ Len(lru) \in Nat /\ DOMAIN lru = 1..Len(lru)
    <2>1. state.lru = lru
      BY DEF state
    <2>2. lru \in Seq(Lookups) /\ IsInjective(lru) /\ Range(lru) = Live(state)
      BY <2>1 DEF Good, States, ListsOkay
    <2> QED
      BY <2>2, LenProperties
  <1> DEFINE f == CHOOSE g : Walk(g, k)
             P(i) == i <= k => Good(f[i], z) /\ NotDue(i) \subseteq Live(f[i])
             T == {i \in Nat : ~P(i)}
  <1>1. Walk(f, k)
    BY <1>0, WalkExists
  <1>2. Checked(k) = f[k]
    BY DEF Checked, Walk
  <1> HIDE DEF f
  <1>3. \A i \in 0..k : f[i] = IF i = 0 THEN state
                               ELSE CheckQuery(f[i - 1], lru[Len(lru) + 1 - i])
    BY <1>1 DEF Walk
  <1>4. P(0)
    <2>1. f[0] = state
      BY <1>0, <1>3
    <2>2. NotDue(0) \subseteq Range(lru)
      BY <1>0 DEF NotDue, Range
    <2> QED
      BY <2>1, <2>2, <1>0
  <1>5. ASSUME NEW i \in Nat, i # 0, P(i - 1) PROVE P(i)
    <2> SUFFICES ASSUME i <= k PROVE Good(f[i], z) /\ NotDue(i) \subseteq Live(f[i])
      OBVIOUS
    <2> DEFINE j == Len(lru) + 1 - i
               l == lru[j]
    <2>1. Good(f[i - 1], z) /\ NotDue(i - 1) \subseteq Live(f[i - 1])
      BY <1>5
    <2>2. f[i] = CheckQuery(f[i - 1], l)
      BY <1>3, <1>5
    <2>3. j \in 1..(Len(lru) - (i - 1)) /\ j \in DOMAIN lru
      BY <1>0, <1>5
    <2>4. l \in NotDue(i - 1)
      BY <2>3 DEF NotDue
    <2>5. NotDue(i) \subseteq NotDue(i - 1) \ {l}
      <3> SUFFICES ASSUME NEW n \in 1..(Len(lru) - i)
                   PROVE  lru[n] \in NotDue(i - 1) /\ lru[n] # l
        BY DEF NotDue
      <3>1. n \in 1..(Len(lru) - (i - 1)) /\ n \in DOMAIN lru /\ n # j
        BY <1>0, <1>5
      <3>2. lru[n] # l
        BY <3>1, <2>3, <1>0 DEF IsInjective
      <3> QED
        BY <3>1, <3>2 DEF NotDue
    <2>6. Good(f[i], z) /\ Live(f[i - 1]) \ {l} \subseteq Live(f[i])
      BY <2>1, <2>2, <2>4, CheckQueryGood
    <2> QED
      BY <2>1, <2>5, <2>6
  <1> HIDE DEF P
  <1>6. T = {}
    <2> SUFFICES ASSUME T # {} PROVE FALSE
      OBVIOUS
    <2>1. PICK m \in T : \A n \in T : m <= n
      BY LeastNatural
    <2>2. m # 0
      BY <1>4
    <2>3. m - 1 \in Nat /\ m - 1 \notin T
      BY <2>1, <2>2
    <2> QED
      BY <2>1, <2>2, <2>3, <1>5
  <1>7. P(k)
    BY <1>0, <1>6
  <1> QED
    BY <1>0, <1>2, <1>7 DEF P
-----------------------------------------------------------------------------
(* Replacing the query of l again in a state from which it has been taken.   *)
LEMMA TakenAgain ==
  ASSUME NEW st \in States, NEW l \in Lookups, NEW q, NEW t, NEW s,
         Taken(s, st, l, q, t), NEW y \in QueryType
  PROVE  Taken([s EXCEPT !.query[l] = y], st, l, y, t)
  <1> DEFINE u == [s EXCEPT !.query[l] = y]
  <1>0. s \in States /\ st.query \in [Lookups -> QueryType \cup {None}]
    BY DEF Taken, States
  <1>1. u \in States
    BY <1>0 DEF States
  <1>2. /\ u.asked = s.asked /\ u.cache = s.cache /\ u.table = s.table /\ u.lru = s.lru
        /\ u.query = [s.query EXCEPT ![l] = y]
    BY <1>0 DEF States
  <1>3. [s.query EXCEPT ![l] = y] = [st.query EXCEPT ![l] = y]
    BY <1>0, Twice DEF Taken
  <1> QED
    BY <1>1, <1>2, <1>3 DEF Taken

(* A query sent again under a new identifier leaves everything in order.     *)
LEMMA SendAgainGood ==
  ASSUME NEW st, NEW z, Good(st, z), NEW l \in Live(st), NEW q \in QueryType,
         q.queue = st.query[l].queue, q.orig = st.query[l].orig, QueryOkay(q, z),
         NEW t \in {st.table, ToFront(st.table, l)}, NEW s, Taken(s, st, l, q, t),
         NEW u \in SendAgain(s, l)
  PROVE  Good(u, z)
  <1>0. /\ st \in States /\ l \in Lookups /\ st.query \in [Lookups -> QueryType \cup {None}]
        /\ st.lru \in Seq(Lookups) /\ IsInjective(st.lru) /\ Range(st.lru) = Live(st)
    BY DEF Good, Live, States, ListsOkay
  <1>1. s.query[l] = q /\ \A m \in Lookups \ {l} : s.query[m] = st.query[m]
    BY <1>0 DEF Taken
  <1>2. PICK id \in idnsQueryID(s.lru, s.query) : u = SentAs(s, l, id)
    BY DEF SendAgain
  <1>3. /\ s.lru \in Seq(Lookups) /\ IsInjective(s.lru) /\ Range(s.lru) = Live(st) \ {l}
    BY <1>0, DropOkay DEF Taken
  <1>4. \A i, m \in Range(s.lru) : s.query[i].id = s.query[m].id => i = m
    BY <1>1, <1>3 DEF Good, IdsOkay, Live
  <1>5. id \in Ids /\ \A m \in Range(s.lru) : s.query[m].id # id
    BY <1>3, <1>4, FreeId
  <1> DEFINE y == [q EXCEPT !.id = id, !.age = 0]
  <1>13. 0 \in 0..QueryTimeout
    BY ResolverAssumption
  <1>14. y \in QueryType
    BY <1>5, <1>13 DEF QueryType
  <1>15. y.id = id /\ y.queue = q.queue /\ y.orig = q.orig
    BY <1>5 DEF QueryType
  <1>6. /\ y \in QueryType /\ y.id = id /\ y.queue = q.queue /\ y.orig = q.orig
    BY <1>14, <1>15
  <1>7. /\ y.name = q.name /\ y.domain = q.domain /\ y.attempt = q.attempt
    BY DEF QueryType
  <1> HIDE DEF y
  <1>8. Taken([s EXCEPT !.query[l] = y], st, l, y, t)
    BY <1>0, <1>6, TakenAgain
  <1>9. u = Requeue(st, l, Sent(y), t)
    <2>1. u = idnsSendQuery([s EXCEPT !.query[l] = y], l)
      BY <1>1, <1>2 DEF y, SentAs
    <2> QED
      BY <2>1, <1>0, <1>6, <1>8, SendIsRequeue
  <1>10. /\ Sent(y) \in QueryType /\ Sent(y).waits = 0
         /\ Sent(y).queue = q.queue /\ Sent(y).orig = q.orig /\ Sent(y).id = id
         /\ Sent(y).name = q.name /\ Sent(y).domain = q.domain
         /\ Sent(y).attempt = q.attempt
    BY <1>6, <1>7, SentOkay
  <1>11. QueryOkay(Sent(y), z)
    BY <1>10 DEF QueryOkay, Tried
  <1>12. \A m \in Live(st) \ {l} : st.query[m].id # Sent(y).id
    BY <1>1, <1>3, <1>5, <1>10 DEF Live
  <1> QED
    BY <1>9, <1>10, <1>11, <1>12, RequeueGood

(* Asking over TCP changes nothing that the callers, the name or the         *)
(* identifier depend on.                                                     *)
LEMMA CutOkay ==
  ASSUME NEW q \in QueryType, q.cut < MaxTruncated
  PROVE  /\ Cut(q) \in QueryType /\ Cut(q).waits = 0
         /\ Cut(q).queue = q.queue /\ Cut(q).orig = q.orig /\ Cut(q).id = q.id
         /\ Cut(q).name = q.name /\ Cut(q).domain = q.domain
         /\ Cut(q).attempt = q.attempt
  <1> DEFINE n == q.cut + 1
  <1>1. n \in 0..MaxTruncated
    BY ResolverAssumption DEF QueryType
  <1>2. Cut(q) = [q EXCEPT !.tcp = TRUE, !.waits = 0, !.late = FALSE, !.cut = n]
    BY DEF Cut
  <1> HIDE DEF n
  <1>3. [q EXCEPT !.tcp = TRUE, !.waits = 0, !.late = FALSE, !.cut = n] \in QueryType
    BY <1>1 DEF QueryType
  <1>4. /\ Cut(q).waits = 0 /\ Cut(q).queue = q.queue /\ Cut(q).orig = q.orig
        /\ Cut(q).id = q.id
    BY <1>2 DEF QueryType
  <1>5. /\ Cut(q).name = q.name /\ Cut(q).domain = q.domain
        /\ Cut(q).attempt = q.attempt
    BY <1>2 DEF QueryType
  <1> QED
    BY <1>2, <1>3, <1>4, <1>5

(* Asking again over TCP leaves everything in order.                         *)
LEMMA RetryGood ==
  ASSUME NEW st, NEW z, Good(st, z), NEW l \in Live(st), st.query[l].cut < MaxTruncated,
         NEW s, Taken(s, st, l, st.query[l], st.table)
  PROVE  Good(idnsRetryTcp(s, l), z)
  <1> DEFINE q == st.query[l]
             y == Cut(q)
             x == <<l>> \o s.lru
             u == idnsRetryTcp(s, l)
  <1>0. /\ st \in States /\ l \in Lookups /\ q \in QueryType /\ QueryOkay(q, z)
        /\ st.query \in [Lookups -> QueryType \cup {None}]
        /\ s \in States /\ s.lru \in Seq(Lookups)
        /\ s.query \in [Lookups -> QueryType \cup {None}]
    BY DEF Good, Live, States, Taken
  <1>2. s.query[l] = q /\ [s.query EXCEPT ![l] = y] = [st.query EXCEPT ![l] = y]
    BY <1>0, Twice DEF Taken
  <1>3. u = [s EXCEPT !.query[l] = y, !.lru = x] /\ x \in Seq(Lookups)
    BY <1>0, <1>2 DEF idnsRetryTcp
  <1>4. y \in QueryType
    BY <1>0, CutOkay
  <1>5. /\ y.queue = q.queue /\ y.orig = q.orig /\ y.id = q.id /\ y.waits = 0
    BY <1>0, CutOkay
  <1>6. /\ y.name = q.name /\ y.domain = q.domain /\ y.attempt = q.attempt
    BY <1>0, CutOkay
  <1> HIDE DEF y, x, u
  <1>7. u \in States
    BY <1>0, <1>3, <1>4 DEF States
  <1>8. /\ u.asked = s.asked /\ u.cache = s.cache /\ u.table = s.table
        /\ u.lru = x /\ u.query = [s.query EXCEPT ![l] = y]
    BY <1>0, <1>3 DEF States
  <1>9. /\ u.asked = st.asked /\ u.cache = st.cache /\ u.table = st.table
        /\ u.lru = ToFront(st.lru, l) /\ u.query = [st.query EXCEPT ![l] = y]
    BY <1>2, <1>8 DEF Taken, ToFront, x
  <1>10. u = Requeue(st, l, y, st.table)
    BY <1>7, <1>9, SameState DEF Requeue
  <1>11. QueryOkay(y, z)
    BY <1>0, <1>5, <1>6 DEF QueryOkay, Tried
  <1>12. \A m \in Live(st) \ {l} : st.query[m].id # y.id
    BY <1>5 DEF Good, IdsOkay
  <1> QED
    BY <1>4, <1>5, <1>10, <1>11, <1>12, RequeueGood DEF u

(* The next name to try for a query whose name does not exist.               *)
LEMMA NextNameOkay ==
  ASSUME NEW q \in QueryType, NEW z, QueryOkay(q, z), q.name \notin z,
         q.attempt < MAX_ATTEMPT
  PROVE  LET y == NextName([q EXCEPT !.rcode = 3])
         IN  /\ y \in QueryType /\ QueryOkay(y, z)
             /\ y.queue = q.queue /\ y.orig = q.orig
  <1> DEFINE p == [q EXCEPT !.rcode = 3]
             y == NextName(p)
  <1>0. q.orig \in Asked /\ q.domain \in 0..npc /\ q.attempt \in 0..MAX_ATTEMPT
        /\ npc \in Nat /\ MAX_ATTEMPT \in Nat
    BY ResolverAssumption DEF QueryType
  <1>1. p \in QueryType /\ p.queue = q.queue /\ p.orig = q.orig
    BY DEF QueryType
  <1>2. /\ p.domain = q.domain /\ p.attempt = q.attempt /\ p.waits = q.waits
        /\ p.nsends = q.nsends /\ p.name = q.name
    BY DEF QueryType
  <1>3. \A i \in 1..npc : Append(q.orig, SearchPath[i]) \in Searched(q.orig)
    BY DEF Searched
  <1>4. Searched(q.orig) \subseteq Names /\ q.orig \in Searched(q.orig)
    BY <1>0 DEF Names, Searched
  <1> HIDE DEF p
  <1>5. CASE q.domain < npc
    <2> DEFINE d == q.domain + 1
               n == Append(q.orig, SearchPath[d])
    <2>1. d \in 1..npc
      BY <1>0, <1>5
    <2>2. n \in Searched(q.orig) /\ n \in Names
      BY <1>3, <1>4, <2>1
    <2>3. y = [p EXCEPT !.name = n, !.domain = d]
      BY <1>1, <1>2, <1>5 DEF NextName
    <2>4. d \in 0..npc
      BY <2>1
    <2> HIDE DEF n, d
    <2>5. y \in QueryType
      BY <1>1, <2>2, <2>3, <2>4 DEF QueryType
    <2>6. /\ y.queue = q.queue /\ y.orig = q.orig /\ y.waits = q.waits
          /\ y.nsends = q.nsends
      BY <1>1, <1>2, <2>3 DEF QueryType
    <2>7. /\ y.name = n /\ y.domain = d /\ y.attempt = q.attempt
      BY <1>1, <1>2, <2>3 DEF QueryType
    <2>8. Tried(y, z)
      <3>1. ASSUME NEW i \in 1..d
            PROVE  \/ Append(q.orig, SearchPath[i]) \notin z
                   \/ i = d /\ n = Append(q.orig, SearchPath[i])
        <4>1. CASE i = d
          BY <4>1 DEF n
        <4>2. CASE i # d
          <5>1. i \in 1..q.domain
            BY <1>0, <3>1, <4>2 DEF d
          <5> QED
            BY <5>1 DEF QueryOkay, Tried
        <4> QED
          BY <4>1, <4>2
      <3>2. y.attempt # MAX_ATTEMPT
        BY <1>0, <2>7
      <3> QED
        BY <2>6, <2>7, <3>1, <3>2 DEF Tried
    <2> QED
      BY <2>2, <2>5, <2>6, <2>7, <2>8 DEF QueryOkay, y, p
  <1>6. CASE ~(q.domain < npc)
    <2> DEFINE a == q.attempt + 1
    <2>1. a \in 0..MAX_ATTEMPT /\ q.domain = npc
      BY <1>0, <1>6
    <2>2. y = [p EXCEPT !.name = q.orig, !.attempt = a]
      BY <1>1, <1>2, <1>6 DEF NextName
    <2>3. q.orig \in Names
      BY <1>4
    <2> HIDE DEF a
    <2>5. y \in QueryType
      BY <1>1, <2>1, <2>2, <2>3 DEF QueryType
    <2>6. /\ y.queue = q.queue /\ y.orig = q.orig /\ y.waits = q.waits
          /\ y.nsends = q.nsends
      BY <1>1, <1>2, <2>2 DEF QueryType
    <2>7. /\ y.name = q.orig /\ y.domain = q.domain
      BY <1>1, <1>2, <2>2 DEF QueryType
    <2>8. Tried(y, z)
      <3>1. \A i \in 1..npc : Append(q.orig, SearchPath[i]) \notin z
        BY <2>1 DEF QueryOkay, Tried
      <3> QED
        BY <2>1, <2>6, <2>7, <3>1 DEF Tried
    <2> QED
      BY <1>4, <2>5, <2>6, <2>7, <2>8 DEF QueryOkay, y, p
  <1> QED
    BY <1>5, <1>6

(* A query that a nameserver failed to answer is tried once more.            *)
LEMMA FailedOkay ==
  ASSUME NEW q \in QueryType, NEW z, QueryOkay(q, z), Failed(q).attempt < MAX_ATTEMPT
  PROVE  /\ Failed(q) \in QueryType /\ QueryOkay(Failed(q), z)
         /\ Failed(q).queue = q.queue /\ Failed(q).orig = q.orig
  <1> DEFINE a == q.attempt + 1
             y == Failed(q)
  <1>6. y.attempt = a
    BY DEF Failed, QueryType
  <1>0. a \in 0..MAX_ATTEMPT /\ a # MAX_ATTEMPT
    BY <1>6, ResolverAssumption DEF QueryType
  <1>5. y = [q EXCEPT !.rcode = 2, !.attempt = a]
    BY DEF Failed
  <1> HIDE DEF a, y
  <1>1. y \in QueryType
    BY <1>0, <1>5 DEF QueryType
  <1>2. /\ y.queue = q.queue /\ y.orig = q.orig /\ y.waits = q.waits
        /\ y.nsends = q.nsends
    BY <1>5 DEF QueryType
  <1>3. /\ y.name = q.name /\ y.domain = q.domain /\ y.attempt = a
    BY <1>5 DEF QueryType
  <1>4. QueryOkay(y, z)
    BY <1>0, <1>2, <1>3 DEF QueryOkay, Tried
  <1> QED
    BY <1>1, <1>2, <1>4 DEF y

(* What a reply says of the name it is about is true of the name that the    *)
(* query it answers is for.                                                  *)
LEMMA AnswerIsTrue ==
  ASSUME ResolverInv, NEW l \in Live(state), NEW m \in Messages, Honest(m),
         query[l].name = m.name, m.n = -3 => ~(query[l].attempt < MAX_ATTEMPT)
  PROVE  /\ Result(KindOf(m.n), m.name, "reply") \in Results
         /\ TrueOf(Result(KindOf(m.n), m.name, "reply"), query[l].orig, zone)
  <1> DEFINE q == query[l]
             r == Result(KindOf(m.n), m.name, "reply")
             k == KindOf(m.n)
  <1>0. q \in QueryType /\ QueryOkay(q, zone)
    BY DEF ResolverInv, Good, States, Live, state
  <1>1. m.n \in {-3, -2, 0, 1} /\ m.name \in Names
    BY DEF Messages
  <1>2. /\ k \in {"address", "none", "fail", "nx"}
        /\ k = "address" => m.n = 1
        /\ k = "nx" => m.n = -3
    BY <1>1 DEF KindOf
  <1> HIDE DEF k
  <1>3. r = [kind |-> k, name |-> m.name, by |-> "reply"]
    BY DEF Result, k
  <1>4. r \in Results
    BY <1>1, <1>2, <1>3 DEF Results
  <1>5. r.kind = k /\ r.name = m.name /\ r.by = "reply"
    BY <1>3
  <1> HIDE DEF r
  <1>6. k = "address" => m.name \in Searched(q.orig) \cap zone
    BY <1>0, <1>2 DEF Honest, QueryOkay
  <1>7. ASSUME k = "nx" PROVE Searched(q.orig) \cap zone = {}
    <2>1. m.n = -3 /\ m.name \notin zone
      BY <1>2, <1>7 DEF Honest
    <2>2. q.attempt = MAX_ATTEMPT
      BY <2>1, <1>0, ResolverAssumption DEF QueryType
    <2>3. q.name = q.orig /\ \A i \in 1..npc : Append(q.orig, SearchPath[i]) \notin zone
      BY <2>2, <1>0 DEF QueryOkay, Tried
    <2> QED
      BY <2>1, <2>3 DEF Searched
  <1> QED
    BY <1>4, <1>5, <1>6, <1>7 DEF TrueOf, r, k

(* Whatever a reply says, the states it leads to are in order.               *)
LEMMA RepliedGood ==
  ASSUME ResolverInv, NEW l \in Live(state), NEW m \in Messages, Honest(m),
         query[l].name = m.name, m.tc => query[l].tcp \/ query[l].cut < MaxTruncated,
         NEW u \in Replied(l, m)
  PROVE  Good(u, zone)
  <1> DEFINE st == state
             q == query[l]
             failed == Failed(q)
             missing == NextName([q EXCEPT !.rcode = 3])
             s0 == [st EXCEPT !.lru = Drop(@, l)]
             sf == [s0 EXCEPT !.query[l] = failed]
             next == [s0 EXCEPT !.query[l] = missing, !.table = <<l>> \o Drop(@, l)]
             r == Result(KindOf(m.n), m.name, "reply")
  <1>0. /\ Good(st, zone) /\ st \in States /\ l \in Lookups /\ q \in QueryType
        /\ QueryOkay(q, zone) /\ st.query[l] = q /\ l \in Live(st)
        /\ st.query \in [Lookups -> QueryType \cup {None}]
        /\ st.table \in Seq(Lookups) /\ IsInjective(st.table) /\ l \in Range(st.table)
    BY DEF ResolverInv, Good, Live, States, ListsOkay, state
  <1>1. Replied(l, m) = CASE m.tc /\ ~q.tcp -> {idnsRetryTcp(s0, l)}
                          [] m.n = -2 /\ failed.attempt < MAX_ATTEMPT -> SendAgain(sf, l)
                          [] m.n = -3 /\ q.attempt < MAX_ATTEMPT -> SendAgain(next, l)
                          [] OTHER -> {idnsCallback(s0, l, r)}
    BY DEF Replied
  <1>2. m.tc => m.n # -2 /\ m.n # -3
    BY DEF Honest
  <1>4. Taken(s0, st, l, q, st.table)
    <2> DEFINE d == Drop(st.lru, l)
    <2>1. d \in Seq(Lookups)
      BY <1>0, DropOkay DEF States
    <2>2. s0 = [st EXCEPT !.lru = d]
      OBVIOUS
    <2> HIDE DEF d, s0, st, q
    <2>3. s0 \in States
      BY <1>0, <2>1, <2>2 DEF States
    <2>4. /\ s0.asked = st.asked /\ s0.cache = st.cache /\ s0.table = st.table
          /\ s0.lru = d /\ s0.query = st.query
      BY <1>0, <2>2 DEF States
    <2>5. [st.query EXCEPT ![l] = q] = st.query
      BY <1>0
    <2> QED
      BY <2>3, <2>4, <2>5 DEF Taken, d
  <1>5. CASE m.tc /\ ~q.tcp
    <2>1. u = idnsRetryTcp(s0, l)
      BY <1>1, <1>2, <1>5
    <2>2. q.cut < MaxTruncated
      BY <1>5
    <2> HIDE DEF s0, st, q
    <2> QED
      BY <2>1, <2>2, <1>0, <1>4, RetryGood
  <1>6. CASE ~(m.tc /\ ~q.tcp) /\ m.n = -2 /\ failed.attempt < MAX_ATTEMPT
    <2>1. u \in SendAgain(sf, l)
      BY <1>1, <1>2, <1>6
    <2>2. /\ failed \in QueryType /\ QueryOkay(failed, zone)
          /\ failed.queue = q.queue /\ failed.orig = q.orig
      <3> HIDE DEF q
      <3> QED
        BY <1>0, <1>6, FailedOkay
    <2> HIDE DEF s0, st, q, failed
    <2>3. Taken(sf, st, l, failed, st.table)
      BY <1>0, <1>4, <2>2, TakenAgain
    <2> HIDE DEF sf
    <2> QED
      BY <2>1, <2>2, <2>3, <1>0, SendAgainGood DEF st
  <1>7. CASE ~(m.tc /\ ~q.tcp) /\ m.n = -3 /\ q.attempt < MAX_ATTEMPT
    <2>1. u \in SendAgain(next, l)
      BY <1>1, <1>2, <1>7
    <2>2. /\ missing \in QueryType /\ QueryOkay(missing, zone)
          /\ missing.queue = q.queue /\ missing.orig = q.orig
      <3>1. q.name \notin zone
        BY <1>7 DEF Honest
      <3> HIDE DEF q
      <3> QED
        BY <1>0, <1>7, <3>1, NextNameOkay
    <2> DEFINE t == ToFront(st.table, l)
    <2>4. t \in Seq(Lookups)
      BY <1>0, ToFrontOkay
    <2> HIDE DEF st, q, missing, t
    <2>3. Taken(next, st, l, missing, t)
      <3>1. s0.table = st.table /\ s0 \in States
        BY <1>4 DEF Taken
      <3>2. next = [s0 EXCEPT !.query[l] = missing, !.table = t]
        BY <3>1 DEF t, ToFront
      <3> HIDE DEF s0, next
      <3>3. next \in States
        BY <1>0, <2>2, <2>4, <3>1, <3>2 DEF States
      <3>4. /\ next.asked = s0.asked /\ next.cache = s0.cache /\ next.table = t
            /\ next.lru = s0.lru /\ next.query = [s0.query EXCEPT ![l] = missing]
        BY <3>1, <3>2 DEF States
      <3>5. [s0.query EXCEPT ![l] = missing] = [st.query EXCEPT ![l] = missing]
        BY <1>0, <1>4, Twice DEF Taken
      <3> QED
        BY <3>3, <3>4, <3>5, <1>4 DEF Taken
    <2> HIDE DEF next
    <2>5. t \in {st.table, ToFront(st.table, l)}
      BY DEF t
    <2> QED
      BY <2>1, <2>2, <2>3, <2>5, <1>0, SendAgainGood DEF st
  <1>8. CASE /\ ~(m.tc /\ ~q.tcp) /\ ~(m.n = -2 /\ failed.attempt < MAX_ATTEMPT)
             /\ ~(m.n = -3 /\ q.attempt < MAX_ATTEMPT)
    <2>1. u = idnsCallback(s0, l, r)
      BY <1>1, <1>8
    <2>2. r \in Results /\ TrueOf(r, q.orig, zone)
      BY <1>8, AnswerIsTrue
    <2> HIDE DEF s0, st, q, r
    <2>3. u = Answered(st, l, r)
      BY <2>1, <2>2, <1>0, <1>4, CallbackIsAnswered
    <2> QED
      BY <2>2, <2>3, <1>0, AnsweredGood DEF st
  <1> QED
    BY <1>5, <1>6, <1>7, <1>8
-----------------------------------------------------------------------------
(* A state the operators describe becomes the state of the system.           *)
LEMMA BecomesState ==
  ASSUME NEW st \in States, Becomes(st)
  PROVE  state' = st
  BY SameState DEF Becomes, state

(* The state of the system, by its variables.                                *)
LEMMA FieldsOfState ==
  /\ state.asked = asked /\ state.query = query /\ state.lru = lru
  /\ state.table = table /\ state.cache = cache
  BY DEF state

(* A reply leaves everything in order.                                       *)
LEMMA ReadKeeps ==
  ASSUME ResolverInv, idnsRead
  PROVE  ResolverInv'
  <1>1. PICK m \in Messages : Honest(m) /\ idnsGrokReply(m)
    BY DEF idnsRead
  <1> DEFINE l == idnsFindQuery(lru, query, m.id)
  <1>2. /\ l # None /\ query[l].name = m.name
        /\ m.tc => query[l].tcp \/ query[l].cut < MaxTruncated
        /\ event_queued' = event_queued /\ zone' = zone
    BY <1>1 DEF idnsGrokReply
  <1>3. PICK u \in Replied(l, m) : Becomes(u)
    BY <1>1 DEF idnsGrokReply
  <1>4. Good(state, zone) /\ lru \in Seq(Lookups) /\ IsInjective(lru) /\ Range(lru) = Live(state)
    BY FieldsOfState DEF ResolverInv, Good, ListsOkay, States
  <1>5. \A i, j \in Range(lru) : query[i].id = query[j].id => i = j
    BY <1>4, FieldsOfState DEF Good, IdsOkay
  <1>6. l \in Live(state)
    BY <1>2, <1>4, <1>5, FoundQuery
  <1> HIDE DEF l
  <1>7. Good(u, zone)
    BY <1>1, <1>2, <1>3, <1>6, RepliedGood
  <1>8. Good(state, zone)'
    BY <1>2, <1>3, <1>7, BecomesState DEF Good
  <1>9. event_queued
    BY <1>4, <1>6, EmptyQueue DEF ResolverInv, TimerRuns
  <1> QED
    BY <1>2, <1>8, <1>9 DEF ResolverInv, TimerRuns

\* p is q but for its times and its connection
Alike(p, q) == /\ p.orig = q.orig /\ p.name = q.name /\ p.domain = q.domain
               /\ p.attempt = q.attempt /\ p.id = q.id /\ p.nsends = q.nsends
               /\ p.waits = q.waits /\ p.queue = q.queue

(* Queries that change only in their times and their connections leave       *)
(* everything in order.                                                      *)
LEMMA AlikeGood ==
  ASSUME NEW st, NEW z, Good(st, z), NEW s \in States,
         s.asked = st.asked, s.lru = st.lru, s.table = st.table, s.cache = st.cache,
         Live(s) = Live(st), \A l \in Live(st) : Alike(s.query[l], st.query[l])
  PROVE  Good(s, z)
  <1>1. \A l \in Live(st) : Callers(s, l) = Callers(st, l)
    BY DEF Callers, Alike
  <1>2. ListsOkay(s)
    BY DEF Good, ListsOkay
  <1>3. IdsOkay(s)
    BY DEF Good, IdsOkay, Alike
  <1>4. OneQuery(s)
    BY <1>1 DEF Good, OneQuery, Alike
  <1>5. CallersOkay(s)
    BY <1>1 DEF Good, CallersOkay, Alike
  <1>6. \A l \in Live(s) : QueryOkay(s.query[l], z)
    <2> SUFFICES ASSUME NEW l \in Live(st) PROVE QueryOkay(s.query[l], z)
      OBVIOUS
    <2>1. QueryOkay(st.query[l], z) /\ Alike(s.query[l], st.query[l])
      BY DEF Good
    <2> QED
      BY <2>1 DEF QueryOkay, Tried, Alike
  <1>7. Unambiguous => CacheOkay(s, z)
    BY DEF Good, CacheOkay
  <1> QED
    BY <1>2, <1>3, <1>4, <1>5, <1>6, <1>7 DEF Good

(* A connection that fails leaves everything in order.                       *)
LEMMA TcpCleanupKeeps ==
  ASSUME ResolverInv, NEW l \in Lookups, idnsTcpCleanup(l)
  PROVE  ResolverInv'
  <1> DEFINE q == query[l]
             y == [q EXCEPT !.tcp = FALSE]
  <1>0. /\ Good(state, zone) /\ state \in States /\ l \in Live(state) /\ q \in QueryType
        /\ query \in [Lookups -> QueryType \cup {None}]
    BY FieldsOfState DEF ResolverInv, Good, States, Live, idnsTcpCleanup, Active
  <1>1. /\ query' = [query EXCEPT ![l] = y]
        /\ UNCHANGED <<asked, lru, table, cache, event_queued, zone>>
    BY DEF idnsTcpCleanup
  <1>2. y \in QueryType
    BY <1>0 DEF QueryType
  <1>3. /\ y.orig = q.orig /\ y.name = q.name /\ y.domain = q.domain /\ y.attempt = q.attempt
    BY <1>0 DEF QueryType
  <1>4. /\ y.id = q.id /\ y.nsends = q.nsends /\ y.waits = q.waits /\ y.queue = q.queue
    BY <1>0 DEF QueryType
  <1>5. y # None
    BY <1>2, NoneAssumption
  <1> HIDE DEF y
  <1>6. query' \in [Lookups -> QueryType \cup {None}]
    BY <1>0, <1>1, <1>2
  <1> DEFINE s == [asked |-> asked, query |-> query', lru |-> lru, table |-> table, cache |-> cache]
  <1>7. s \in States
    BY <1>0, <1>6, FieldsOfState DEF States
  <1>8. /\ s.asked = state.asked /\ s.lru = state.lru /\ s.table = state.table
        /\ s.cache = state.cache /\ s.query = query'
    BY FieldsOfState
  <1> HIDE DEF s
  <1>9. query'[l] = y /\ \A m \in Lookups \ {l} : query'[m] = query[m]
    BY <1>0, <1>1
  <1>10. Live(s) = Live(state)
    BY <1>0, <1>5, <1>8, <1>9, FieldsOfState DEF Live
  <1>11. ASSUME NEW m \in Live(state) PROVE Alike(s.query[m], state.query[m])
    BY <1>3, <1>4, <1>8, <1>9, FieldsOfState DEF Alike, Live
  <1>12. Good(s, zone)
    BY <1>0, <1>7, <1>8, <1>10, <1>11, AlikeGood
  <1>13. state' = s
    BY <1>1 DEF state, s
  <1> QED
    BY <1>1, <1>12, <1>13 DEF ResolverInv, TimerRuns

(* An entry of the cache that is released leaves everything in order.        *)
LEMMA ReleaseKeeps ==
  ASSUME ResolverInv, NEW n \in Asked, ipcacheRelease(n)
  PROVE  ResolverInv'
  <1>0. /\ Good(state, zone) /\ state \in States /\ cache \in [Asked -> Results \cup {None}]
    BY FieldsOfState DEF ResolverInv, Good, States
  <1>1. /\ cache' = [cache EXCEPT ![n] = None]
        /\ UNCHANGED <<asked, query, lru, table, event_queued, zone>>
    BY DEF ipcacheRelease
  <1> DEFINE s == [asked |-> asked, query |-> query, lru |-> lru, table |-> table, cache |-> cache']
  <1>2. s \in States
    BY <1>0, <1>1, FieldsOfState DEF States
  <1>3. /\ s.asked = state.asked /\ s.lru = state.lru /\ s.table = state.table
        /\ s.cache = cache' /\ s.query = state.query
    BY FieldsOfState
  <1> HIDE DEF s
  <1>4. Live(s) = Live(state)
    BY <1>3 DEF Live
  <1>5. \A o : Callers(s, o) = Callers(state, o)
    BY <1>3 DEF Callers
  <1>6. ListsOkay(s) /\ IdsOkay(s)
    BY <1>0, <1>3, <1>4 DEF Good, ListsOkay, IdsOkay
  <1>7. OneQuery(s) /\ CallersOkay(s)
    BY <1>0, <1>3, <1>4, <1>5 DEF Good, OneQuery, CallersOkay
  <1>8. \A l \in Live(s) : QueryOkay(s.query[l], zone)
    BY <1>0, <1>3, <1>4 DEF Good
  <1>9. Unambiguous => CacheOkay(s, zone)
    <2>1. \A m \in Asked : s.cache[m] = None \/ s.cache[m] = state.cache[m]
      BY <1>0, <1>1, <1>3, FieldsOfState
    <2> QED
      BY <2>1, <1>0 DEF Good, CacheOkay
  <1>10. Good(s, zone)
    BY <1>2, <1>6, <1>7, <1>8, <1>9 DEF Good
  <1>11. state' = s
    BY <1>1 DEF state, s
  <1> QED
    BY <1>1, <1>10, <1>11 DEF ResolverInv, TimerRuns

(* A check of the list leaves everything in order.                           *)
LEMMA CheckQueueKeeps ==
  ASSUME ResolverInv, idnsCheckQueue
  PROVE  ResolverInv'
  <1>0. Good(state, zone)
    BY DEF ResolverInv
  <1>1. PICK k \in 0..Len(lru) :
           /\ Becomes([Checked(k) EXCEPT !.query = [l \in Lookups |->
                 IF l \in NotDue(k) THEN [Checked(k).query[l] EXCEPT !.late = TRUE]
                 ELSE Checked(k).query[l]]])
           /\ event_queued' = (Checked(k).lru # <<>>) /\ zone' = zone
    BY DEF idnsCheckQueue
  <1> DEFINE st == Checked(k)
             f == [l \in Lookups |->
                     IF l \in NotDue(k) THEN [st.query[l] EXCEPT !.late = TRUE]
                     ELSE st.query[l]]
             s == [st EXCEPT !.query = f]
  <1>2. Good(st, zone) /\ NotDue(k) \subseteq Live(st)
    BY <1>0, CheckedGood
  <1>3. Becomes(s)
    BY <1>1
  <1>4. event_queued' = (st.lru # <<>>) /\ zone' = zone
    BY <1>1
  <1> HIDE DEF st
  <1>5. st \in States
    BY <1>2 DEF Good
  <1>6. ASSUME NEW l \in Lookups
        PROVE  /\ f[l] \in QueryType \cup {None}
               /\ f[l] = None <=> st.query[l] = None
               /\ l \in Live(st) => Alike(f[l], st.query[l])
    <2>1. CASE l \in NotDue(k)
      <3> DEFINE q == st.query[l]
                 y == [q EXCEPT !.late = TRUE]
      <3>1. q \in QueryType
        BY <2>1, <1>2, <1>5 DEF Live, States
      <3>2. f[l] = y
        BY <2>1
      <3> HIDE DEF q, f
      <3>3. y \in QueryType
        BY <3>1 DEF QueryType
      <3>4. /\ y.orig = q.orig /\ y.name = q.name /\ y.domain = q.domain
            /\ y.attempt = q.attempt
        BY <3>1 DEF QueryType
      <3>5. /\ y.id = q.id /\ y.nsends = q.nsends /\ y.waits = q.waits
            /\ y.queue = q.queue
        BY <3>1 DEF QueryType
      <3>6. y # None /\ q # None
        BY <3>1, <3>3, NoneAssumption
      <3> HIDE DEF y
      <3> QED
        BY <3>2, <3>3, <3>4, <3>5, <3>6 DEF Alike, q
    <2>2. CASE l \notin NotDue(k)
      <3>1. f[l] = st.query[l]
        BY <2>2
      <3> QED
        BY <3>1, <1>5 DEF Alike, States
    <2> QED
      BY <2>1, <2>2
  <1>7. f \in [Lookups -> QueryType \cup {None}]
    BY <1>6
  <1> HIDE DEF f
  <1>8. s \in States
    BY <1>5, <1>7 DEF States
  <1>9. /\ s.asked = st.asked /\ s.lru = st.lru /\ s.table = st.table
        /\ s.cache = st.cache /\ s.query = f
    BY <1>5 DEF States
  <1> HIDE DEF s
  <1>10. Live(s) = Live(st) /\ \A l \in Live(st) : Alike(s.query[l], st.query[l])
    BY <1>6, <1>9 DEF Live
  <1>11. Good(s, zone)
    BY <1>2, <1>8, <1>9, <1>10, AlikeGood
  <1>12. state' = s
    BY <1>3, <1>8, BecomesState
  <1>13. lru' = s.lru
    BY <1>3 DEF Becomes
  <1>14. Good(state, zone)' /\ zone' = zone
    BY <1>4, <1>11, <1>12 DEF Good
  <1>15. event_queued' \in BOOLEAN /\ TimerRuns'
    BY <1>4, <1>9, <1>13 DEF TimerRuns
  <1> QED
    BY <1>14, <1>15 DEF ResolverInv

(* A new query is sent once, for the name asked for or its first domain.     *)
LEMMA NewQueryOkay ==
  ASSUME NEW n \in Asked, NEW id \in Ids, NEW z
  PROVE  /\ Sent(NewQuery(n, id)) \in QueryType /\ QueryOkay(Sent(NewQuery(n, id)), z)
         /\ Sent(NewQuery(n, id)).orig = n /\ Sent(NewQuery(n, id)).queue = <<>>
         /\ Sent(NewQuery(n, id)).id = id
  <1> DEFINE q == NewQuery(n, id)
             y == Sent(q)
             New == [orig : {n}, name : Searched(n), domain : {0}, attempt : {0},
                     id : {id}, nsends : {0}, waits : {0}, age : {0}, late : {FALSE},
                     rcode : {0}, tcp : {FALSE}, cut : {0}, queue : {<<>>}]
  <1>1. Searched(n) \subseteq Names
    BY DEF Names
  <1>2. q \in New
    <2> DEFINE m == IF Len(n) - 1 < ndots THEN Append(n, SearchPath[1]) ELSE n
    <2>1. m \in Searched(n)
      BY ResolverAssumption DEF Searched
    <2>2. q = [orig |-> n, name |-> m, domain |-> 0, attempt |-> 0, id |-> id,
               nsends |-> 0, waits |-> 0, age |-> 0, late |-> FALSE, rcode |-> 0,
               tcp |-> FALSE, cut |-> 0, queue |-> <<>>]
      BY DEF NewQuery
    <2> HIDE DEF m, q
    <2> QED
      BY <2>1, <2>2
  <1> HIDE DEF q
  <1>3. y = [q EXCEPT !.nsends = 1, !.waits = 0, !.late = FALSE, !.tcp = FALSE]
    <2> DEFINE k == IF q.nsends < MaxSends THEN q.nsends + 1 ELSE q.nsends
    <2>1. k = 1
      BY <1>2, ResolverAssumption
    <2>2. y = [q EXCEPT !.nsends = k, !.waits = 0, !.late = FALSE, !.tcp = FALSE]
      BY DEF Sent
    <2> HIDE DEF k
    <2> QED
      BY <2>1, <2>2
  <1>4. /\ 0 \in 0..npc /\ 0 \in 0..MAX_ATTEMPT /\ 1 \in 1..MaxSends
        /\ 0 \in 0..QueryTimeout /\ 0 \in 0..MaxTruncated
    BY ResolverAssumption
  <1>5. <<>> \in Seq(Lookups)
    OBVIOUS
  <1> HIDE DEF y
  <1>6. y \in QueryType
    BY <1>1, <1>2, <1>3, <1>4, <1>5 DEF QueryType
  <1>7. /\ y.orig = n /\ y.queue = <<>> /\ y.id = id /\ y.name \in Searched(n)
    BY <1>2, <1>3
  <1>8. /\ y.waits = 0 /\ y.domain = 0 /\ y.attempt = 0
    BY <1>2, <1>3
  <1>9. QueryOkay(y, z)
    BY <1>7, <1>8, ResolverAssumption DEF QueryOkay, Tried
  <1> QED
    BY <1>6, <1>7, <1>9 DEF y, q

(* Starting a query is what Started says.                                    *)
LEMMA LookupIsStarted ==
  ASSUME NEW st \in States, NEW l \in Lookups, NEW n \in Asked, NEW id \in Ids
  PROVE  idnsALookup(st, l, n, id) = Started(st, l, n, Sent(NewQuery(n, id)))
  <1> DEFINE q == NewQuery(n, id)
             y == Sent(q)
             x == <<l>> \o st.table
             v == <<l>> \o st.lru
             s == [st EXCEPT !.asked[l] = n, !.query[l] = q, !.table = x]
             u == [s EXCEPT !.query[l] = y, !.lru = v]
             Wide == [asked : [Lookups -> Asked \cup {None}],
                      query : [Lookups -> QueryType \cup {None, q}],
                      lru : Seq(Lookups), table : Seq(Lookups),
                      cache : [Asked -> Results \cup {None}]]
  <1>0. /\ st.query \in [Lookups -> QueryType \cup {None}]
        /\ st.table \in Seq(Lookups) /\ st.lru \in Seq(Lookups)
    BY DEF States
  <1>1. x \in Seq(Lookups) /\ v \in Seq(Lookups)
    BY <1>0
  <1>2. y \in QueryType
    BY NewQueryOkay
  <1> HIDE DEF q, y, x, v
  <1>3. st \in Wide
    BY DEF States
  <1>4. s \in Wide
    BY <1>1, <1>3
  <1>5. /\ s.asked = [st.asked EXCEPT ![l] = n] /\ s.query = [st.query EXCEPT ![l] = q]
        /\ s.lru = st.lru /\ s.table = x /\ s.cache = st.cache
    BY <1>3
  <1>6. idnsALookup(st, l, n, id) = idnsSendQuery(s, l)
    BY DEF idnsALookup, q, x
  <1> HIDE DEF s
  <1>7. s.query[l] = q /\ [s.query EXCEPT ![l] = y] = [st.query EXCEPT ![l] = y]
    BY <1>0, <1>5, Twice
  <1>8. idnsSendQuery(s, l) = u
    BY <1>5, <1>7 DEF idnsSendQuery, y, v
  <1>9. /\ u.asked = s.asked /\ u.query = [s.query EXCEPT ![l] = y]
        /\ u.lru = v /\ u.table = s.table /\ u.cache = s.cache
    BY <1>4
  <1>10. u \in Wide
    BY <1>1, <1>2, <1>4
  <1> HIDE DEF u
  <1>11. u = [asked |-> [st.asked EXCEPT ![l] = n], query |-> [st.query EXCEPT ![l] = y],
              lru |-> v, table |-> x, cache |-> st.cache]
    BY <1>5, <1>7, <1>9, <1>10
  <1> QED
    BY <1>6, <1>8, <1>11 DEF Started, y, q, x, v

(* A lookup that joins a query or starts one leaves everything in order.     *)
LEMMA LookupKeeps ==
  ASSUME ResolverInv, NEW l \in Lookups, NEW n \in Asked, ipcache_nbgethostbyname(l, n)
  PROVE  ResolverInv'
  <1> DEFINE old == idnsCachedLookup(n)
  <1>0. /\ Good(state, zone) /\ state \in States
        /\ lru \in Seq(Lookups) /\ IsInjective(lru) /\ Range(lru) = Live(state)
        /\ table \in Seq(Lookups) /\ Range(table) = Live(state)
    BY FieldsOfState DEF ResolverInv, Good, States, ListsOkay
  <1>3. asked[l] = None /\ zone' = zone
    BY DEF ipcache_nbgethostbyname, Waiting
  <1>1. CASE old # None
    <2>1. /\ asked' = [asked EXCEPT ![l] = n]
          /\ query' = [query EXCEPT ![old].queue = <<l>> \o @]
          /\ UNCHANGED <<lru, table, cache, event_queued>>
      BY <1>1 DEF ipcache_nbgethostbyname
    <2>2. old \in Live(state) /\ state.query[old].name = n
      BY <1>0, <1>1, CachedQuery, FieldsOfState
    <2> HIDE DEF old
    <2>3. state' = Joined(state, l, old, n)
      BY <2>1 DEF state, Joined
    <2>4. Good(Joined(state, l, old, n), zone)
      BY <2>2, <1>0, <1>3, FieldsOfState, JoinedGood
    <2> QED
      BY <2>1, <2>3, <2>4, <1>3 DEF ResolverInv, TimerRuns, Good
  <1>2. CASE old = None
    <2>1. PICK id \in idnsQueryID(lru, query) :
             Becomes(idnsALookup(state, l, n, id)) /\ event_queued' = TRUE
      BY <1>2 DEF ipcache_nbgethostbyname
    <2>2. id \in Ids /\ \A m \in Live(state) : state.query[m].id # id
      <3>1. \A i, j \in Range(lru) : query[i].id = query[j].id => i = j
        BY <1>0, FieldsOfState DEF Good, IdsOkay
      <3> QED
        BY <3>1, <1>0, FieldsOfState, FreeId
    <2> DEFINE y == Sent(NewQuery(n, id))
               u == Started(state, l, n, y)
    <2>3. /\ y \in QueryType /\ QueryOkay(y, zone) /\ y.orig = n /\ y.queue = <<>>
          /\ y.id = id
      BY <2>2, NewQueryOkay
    <2> HIDE DEF y
    <2>4. Good(u, zone)
      BY <2>2, <2>3, <1>0, <1>3, FieldsOfState, StartedGood
    <2>5. Becomes(u)
      BY <2>1, <2>2, <1>0, LookupIsStarted DEF y
    <2>6. state' = u
      BY <2>4, <2>5, BecomesState DEF Good
    <2> QED
      BY <2>1, <2>4, <2>6, <1>3 DEF ResolverInv, TimerRuns, Good
  <1> QED
    BY <1>1, <1>2
-----------------------------------------------------------------------------
(* At the start everything is in order: nobody waits and nothing is cached.  *)
LEMMA InitGood == Init => ResolverInv
  <1> SUFFICES ASSUME Init PROVE ResolverInv
    OBVIOUS
  <1>0. /\ asked = [l \in Lookups |-> None] /\ query = [l \in Lookups |-> None]
        /\ lru = <<>> /\ table = <<>> /\ cache = [n \in Asked |-> None]
        /\ event_queued = FALSE /\ zone \subseteq Names
    BY DEF Init
  <1>1. Live(state) = {}
    BY <1>0, FieldsOfState DEF Live
  <1>2. state \in States
    BY <1>0 DEF States, state
  <1>3. ListsOkay(state)
    BY <1>0, <1>1, FieldsOfState, EmptyQueue DEF ListsOkay
  <1>4. IdsOkay(state) /\ OneQuery(state) /\ CallersOkay(state)
    BY <1>0, <1>1, FieldsOfState DEF IdsOkay, OneQuery, CallersOkay
  <1>5. CacheOkay(state, zone)
    BY <1>0, FieldsOfState DEF CacheOkay
  <1> QED
    BY <1>0, <1>1, <1>2, <1>3, <1>4, <1>5 DEF ResolverInv, Good, TimerRuns

(* Every step of the resolver leaves everything in order.                    *)
LEMMA NextGood == ResolverInv /\ [Next]_vars => ResolverInv'
  <1> SUFFICES ASSUME ResolverInv, [Next]_vars PROVE ResolverInv'
    OBVIOUS
  <1>1. CASE \E l \in Lookups, n \in Asked : ipcache_nbgethostbyname(l, n)
    BY <1>1, LookupKeeps
  <1>2. CASE \E n \in Asked : ipcacheRelease(n)
    BY <1>2, ReleaseKeeps
  <1>3. CASE idnsRead
    BY <1>3, ReadKeeps
  <1>4. CASE \E l \in Lookups : idnsTcpCleanup(l)
    BY <1>4, TcpCleanupKeeps
  <1>5. CASE idnsCheckQueue
    BY <1>5, CheckQueueKeeps
  <1>6. CASE UNCHANGED vars
    <2>1. state' = state /\ zone' = zone /\ event_queued' = event_queued /\ lru' = lru
      BY <1>6 DEF vars, state
    <2> QED
      BY <2>1 DEF ResolverInv, TimerRuns
  <1> QED
    BY <1>1, <1>2, <1>3, <1>4, <1>5, <1>6 DEF Next

(* In every behaviour the queries, their lists, their callers and the cache  *)
(* are in order.                                                             *)
THEOREM ResolverInvariant == Spec => []ResolverInv
  BY InitGood, NextGood, PTL DEF Spec
-----------------------------------------------------------------------------
(* In a state in order, the types hold, the timer runs, and a reply to any   *)
(* query finds it.                                                           *)
LEMMA QueriesFromInv == ResolverInv => QueriesConsistent
  <1> SUFFICES ASSUME ResolverInv PROVE QueriesConsistent
    OBVIOUS
  <1>0. /\ Good(state, zone) /\ state \in States /\ Live(state) = Active
        /\ lru \in Seq(Lookups) /\ IsInjective(lru) /\ Range(lru) = Live(state)
    BY FieldsOfState DEF ResolverInv, Good, States, ListsOkay, Live, Active
  <1>1. TypeOK
    <2>1. /\ asked \in [Lookups -> Asked \cup {None}]
          /\ query \in [Lookups -> QueryType \cup {None}]
          /\ lru \in Seq(Lookups) /\ table \in Seq(Lookups)
          /\ cache \in [Asked -> Results \cup {None}]
      BY <1>0, FieldsOfState DEF States
    <2>2. \A l \in Active : query[l].waits = 0 \/ query[l].waits < Intervals(query[l].nsends)
      BY <1>0, FieldsOfState DEF Good, QueryOkay
    <2> QED
      BY <2>1, <2>2 DEF TypeOK, ResolverInv
  <1>2. RepliesFind
    <2>1. \A l, m \in Range(lru) : query[l].id = query[m].id => l = m
      BY <1>0, FieldsOfState DEF Good, IdsOkay
    <2>2. ToSet(lru) = Range(lru)
      BY DEF ToSet, Range
    <2> QED
      BY <1>0, <2>1, <2>2, FoundQuery DEF RepliesFind
  <1> QED
    BY <1>1, <1>2 DEF QueriesConsistent, ResolverInv

(* In a state in order, a caller is to be called back once if it waits, and  *)
(* not at all if it does not.                                                *)
LEMMA HeldOnce ==
  ASSUME ResolverInv, NEW l \in Lookups
  PROVE  Held(l) = IF l \in Waiting THEN 1 ELSE 0
  <1> DEFINE own == {o \in Active : o = l}
             places == {x \in Active \X (1..Cardinality(Lookups)) :
                          /\ x[2] \in 1..Len(query[x[1]].queue)
                          /\ query[x[1]].queue[x[2]] = l}
  <1>0. /\ Held(l) = Cardinality(own) + Cardinality(places)
        /\ l \in Waiting <=> asked[l] # None
    BY DEF Held, Waiting
  <1>1. /\ OneQuery(state) /\ Live(state) = Active /\ state \in States
        /\ state.asked = asked /\ state.query = query
    BY FieldsOfState DEF ResolverInv, Good, Live, Active
  <1>2. ASSUME NEW o \in Active
        PROVE  /\ query[o].queue \in Seq(Lookups)
               /\ Range(query[o].queue) = {query[o].queue[i] : i \in 1..Len(query[o].queue)}
               /\ Callers(state, o) = {o} \cup Range(query[o].queue)
               /\ Len(query[o].queue) \in Nat
    <2>1. query[o].queue \in Seq(Lookups)
      BY <1>1 DEF States, Active, QueryType
    <2> QED
      BY <2>1, <1>1, LenProperties DEF Callers, Range
  <1>3. ASSUME NEW x \in places
        PROVE  /\ x[1] \in Active /\ l \in Range(query[x[1]].queue)
               /\ x = <<x[1], x[2]>> /\ x[2] \in 1..Len(query[x[1]].queue)
               /\ query[x[1]].queue[x[2]] = l
    <2>1. x \in Active \X (1..Cardinality(Lookups))
      OBVIOUS
    <2>2. x[1] \in Active /\ x = <<x[1], x[2]>>
      BY <2>1
    <2>3. x[2] \in 1..Len(query[x[1]].queue) /\ query[x[1]].queue[x[2]] = l
      OBVIOUS
    <2>4. l \in Range(query[x[1]].queue)
      <3> DEFINE o == x[1]
                 i == x[2]
      <3>1. o \in Active /\ i \in 1..Len(query[o].queue) /\ query[o].queue[i] = l
        BY <2>2, <2>3
      <3> HIDE DEF o, i
      <3>2. Range(query[o].queue) = {query[o].queue[j] : j \in 1..Len(query[o].queue)}
        BY <3>1, <1>2
      <3>3. l \in Range(query[o].queue)
        BY <3>1, <3>2
      <3> QED
        BY <3>3 DEF o
    <2> QED
      BY <2>2, <2>3, <2>4
  <1>6. \A o \in Active, i \in 1..Cardinality(Lookups) :
           i \in 1..Len(query[o].queue) /\ query[o].queue[i] = l => <<o, i>> \in places
    OBVIOUS
  <1>7. own = {} \/ own = {l}
    OBVIOUS
  <1>8. own = {l} <=> l \in Active
    OBVIOUS
  <1> HIDE DEF own, places
  <1>9. Cardinality({}) = 0 /\ Cardinality({l}) = 1
    BY FS_EmptySet, FS_Singleton
  <1>4. CASE asked[l] = None
    <2>1. \A o \in Active : l \notin Callers(state, o)
      BY <1>1, <1>4 DEF OneQuery
    <2>2. own = {}
      BY <2>1, <1>2, <1>7, <1>8
    <2>3. places = {}
      BY <2>1, <1>2, <1>3
    <2> QED
      BY <2>2, <2>3, <1>0, <1>4, <1>9
  <1>5. CASE asked[l] # None
    <2>1. PICK o \in Active : l \in Callers(state, o)
      BY <1>1, <1>5 DEF OneQuery
    <2>2. \A p \in Active : l \in Callers(state, p) => p = o
      BY <2>1, <1>1 DEF OneQuery
    <2>3. o \notin Range(query[o].queue) /\ IsInjective(query[o].queue)
      BY <1>1 DEF OneQuery
    <2>4. CASE l = o
      <3>1. own = {l}
        BY <2>1, <2>4, <1>8
      <3>2. places = {}
        BY <1>2, <1>3, <2>2, <2>3, <2>4
      <3> QED
        BY <3>1, <3>2, <1>0, <1>5, <1>9
    <2>5. CASE l # o
      <3>1. own = {}
        BY <2>2, <2>5, <1>2, <1>7, <1>8
      <3>2. PICK i \in 1..Len(query[o].queue) : query[o].queue[i] = l
        BY <2>1, <2>5, <1>2
      <3>3. Len(query[o].queue) <= Cardinality(Lookups) /\ Cardinality(Lookups) \in Nat
        <4>1. IsFiniteSet(Range(query[o].queue))
              /\ Cardinality(Range(query[o].queue)) = Len(query[o].queue)
          BY <1>2, <2>3, LengthOfOnce
        <4>2. Range(query[o].queue) \subseteq Lookups
          <5>1. query[o].queue \in Seq(Lookups)
            BY <1>2
          <5> QED
            BY <5>1, RangeEquality DEF Range
        <4> QED
          BY <4>1, <4>2, ResolverAssumption, FS_Subset, FS_CardinalityType
      <3>4. <<o, i>> \in places
        <4>1. i \in 1..Cardinality(Lookups)
          BY <3>2, <3>3, <1>2
        <4> QED
          BY <4>1, <3>2, <1>6
      <3>5. ASSUME NEW x \in places PROVE x = <<o, i>>
        <4>1. /\ x = <<x[1], x[2]>> /\ x[2] \in 1..Len(query[x[1]].queue)
              /\ query[x[1]].queue[x[2]] = l
          BY <1>3, <3>5
        <4>2. x[1] = o
          BY <1>2, <1>3, <2>2
        <4>3. x[2] \in 1..Len(query[o].queue) /\ query[o].queue[x[2]] = l
          BY <4>1, <4>2
        <4>4. x[2] = i
          BY <4>3, <3>2, <2>3, <1>2, LenProperties DEF IsInjective
        <4> QED
          BY <4>1, <4>2, <4>4
      <3>6. places = {<<o, i>>}
        BY <3>4, <3>5
      <3>7. Cardinality(places) = 1
        BY <3>6, FS_Singleton
      <3> QED
        BY <3>1, <3>7, <1>0, <1>5, <1>9
    <2> QED
      BY <2>4, <2>5
  <1> QED
    BY <1>4, <1>5

(* Whatever is retried, rehashed, joined or given up, every reply finds the  *)
(* query it is for, and every query has its timer running: QueriesConsistent *)
(* of idnsGrokReply, idnsCheckQueue and the search path of                   *)
(* dns_internal.c.                                                           *)
THEOREM ResolverQueries == Spec => []QueriesConsistent
  BY ResolverInvariant, QueriesFromInv, PTL

(* However many callers ask for however many names, join each other's        *)
(* queries and are retried, each that waits is to be called back exactly     *)
(* once: no callback of idnsCallback is lost and none is doubled.            *)
THEOREM ResolverCallbacks == Spec => []CalledBackOnce
  <1>1. ResolverInv => CalledBackOnce
    <2> SUFFICES ASSUME ResolverInv PROVE CalledBackOnce
      OBVIOUS
    <2>1. \A list \in {lru, table} : IsInjective(list) /\ ToSet(list) = Active
      BY FieldsOfState DEF ResolverInv, Good, ListsOkay, Live, Active, ToSet, Range
    <2> QED
      BY <2>1, HeldOnce DEF CalledBackOnce
  <1> QED
    BY <1>1, ResolverInvariant, PTL

(* If no caller asks for a name that the search path makes of another        *)
(* caller's, a name that a reply made "does not exist" in the cache does not *)
(* exist under any domain of the search path (idnsGrokReply).                *)
THEOREM ResolverNx == Unambiguous => (Spec => []NxMeansNone)
  <1> SUFFICES ASSUME Unambiguous PROVE Spec => []NxMeansNone
    OBVIOUS
  <1>1. ResolverInv => NxMeansNone
    BY FieldsOfState DEF ResolverInv, Good, CacheOkay, NxMeansNone
  <1> QED
    BY <1>1, ResolverInvariant, PTL

(* Under the same condition a name is only cached with an address of its     *)
(* own: joining a query of another name, which OwnAddress is violated by     *)
(* without the condition, is the only way to get a wrong one.                *)
THEOREM ResolverOwnAddress == Unambiguous => (Spec => []OwnAddress)
  <1> SUFFICES ASSUME Unambiguous PROVE Spec => []OwnAddress
    OBVIOUS
  <1>1. ResolverInv => OwnAddress
    BY FieldsOfState DEF ResolverInv, Good, CacheOkay, OwnAddress
  <1> QED
    BY <1>1, ResolverInvariant, PTL
=============================================================================
