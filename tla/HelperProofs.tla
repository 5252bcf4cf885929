---------------------------- MODULE HelperProofs ----------------------------
(* Theorems about the helper processes (Helper): the lists, the counters and *)
(* the channels agree, every answer belongs to the request its channel is    *)
(* held for, and a queue that is left alone will be kicked.                  *)
EXTENDS Helper, QueueLemmas

HeldBy(sv, s) == {sv[s].requests[i] : i \in Slots} \ {None}
Lines(v, c) == c.got \cup Range(c.said) \cup Range(v.writing) \cup Range(v.wqueue)

\* One server and its process: every line is on the channel of its request
\* and is in one place, once.
LinesOwn(v, c) == \A line \in Lines(v, c) : v.requests[line[1]] = line[2]
LinesOnce(v, c) ==
    /\ IsInjective(c.said) /\ IsInjective(v.writing) /\ IsInjective(v.wqueue)
    /\ c.got \cap Range(c.said) = {}
    /\ c.got \cap Range(v.writing) = {}
    /\ c.got \cap Range(v.wqueue) = {}
    /\ Range(c.said) \cap Range(v.writing) = {}
    /\ Range(c.said) \cap Range(v.wqueue) = {}
    /\ Range(v.writing) \cap Range(v.wqueue) = {}

\* A request is on one channel of one server.
HeldOnce(sv) ==
    \A s, t \in Servers : \A i, j \in Slots :
        sv[s].requests[i] # None /\ sv[s].requests[i] = sv[t].requests[j] =>
            s = t /\ i = j

\* A server that is not in the list has nothing to do.
Unlisted(list, sv, ch) ==
    \A s \in Servers \ Range(list) :
        sv[s] = NewServer /\ ch[s].got = {} /\ ch[s].said = <<>>

\* The servers by themselves, whatever loop squid is in.
ServersOkay(list, sv, ch) ==
    /\ list \in Seq(Servers) /\ IsInjective(list)
    /\ sv \in [Servers -> ServerType] /\ ch \in [Servers -> ChildType]
    /\ \A s \in Servers : sv[s].pending = Cardinality(HeldBy(sv, s))
    /\ HeldOnce(sv)
    /\ \A s \in Servers : LinesOwn(sv[s], ch[s]) /\ LinesOnce(sv[s], ch[s])
    /\ Unlisted(list, sv, ch)

Open(list, sv) == {s \in Range(list) : ~sv[s].shutdown}

\* A requester that waits is in the queue or on a channel, not in both.
WaitOnce(q, sv, a) ==
    /\ IsInjective(q) /\ Range(q) \subseteq a
    /\ \A s \in Servers : Range(q) \cap HeldBy(sv, s) = {} /\ HeldBy(sv, s) \subseteq a
    /\ \A r \in a : r \in Range(q) \/ \E s \in Servers : r \in HeldBy(sv, s)
QueueOnce == WaitOnce(queue, srv, asking)

\* helperHandleRead is in its loop with a listed server, which has said as
\* much as is still to be read.
Reading ==
    IF main.loop = "read"
    THEN main.srv \in Range(servers) /\ main.left <= Len(child[main.srv].said)
    ELSE main.srv = None

\* Whoever may take a queued request is full, unless the queue is being
\* kicked or will be at the end of the loop.
Full ==
    fatal = "" /\ queue # <<>> /\ main.loop # "kick" =>
        \A s \in Open(servers, srv) : s # main.srv => srv[s].pending = concurrency

Counted ==
    /\ n_running = Len(servers)
    /\ n_active = Cardinality(Open(servers, srv))
    /\ fatal # "crashing too rapidly" => n_active > 0

HelperInv ==
    /\ TypeOK /\ ServersOkay(servers, srv, child)
    /\ QueueOnce /\ Reading /\ Full /\ Counted
-----------------------------------------------------------------------------
(* The constants.                                                            *)
LEMMA Constants ==
  ASSUME TypeOK
  PROVE  /\ IsFiniteSet(Servers) /\ IsFiniteSet(Requests)
         /\ None \notin Servers /\ None \notin Requests
         /\ n_to_start \in Nat \ {0} /\ n_to_start <= Cardinality(Servers)
         /\ concurrency \in Nat \ {0} /\ IsFiniteSet(Slots)
         /\ Cardinality(Slots) = concurrency /\ 0 \in Slots
         /\ MaxAsking[concurrency] \in 1..Cardinality(Requests)
  <1>1. Cardinality(Servers) \in Nat
    BY HelperAssumption, FS_CardinalityType
  <1>2. DOMAIN MaxAsking = 1..Len(MaxAsking) /\ Len(MaxAsking) \in Nat
        /\ \A c \in 1..Len(MaxAsking) : MaxAsking[c] \in 1..Cardinality(Requests)
    BY HelperAssumption, LenProperties, ElementOfSeq
  <1>3. concurrency \in Nat \ {0} /\ MaxAsking[concurrency] \in 1..Cardinality(Requests)
    <2>1. concurrency \in DOMAIN MaxAsking
      BY DEF TypeOK
    <2>. QED
      BY <2>1, <1>2
  <1>4. IsFiniteSet(0..(concurrency - 1)) /\ Cardinality(0..(concurrency - 1)) = concurrency
    BY <1>3, FS_Interval
  <1>5. 0 \in 0..(concurrency - 1)
    BY <1>3
  <1>. QED
    BY <1>1, <1>3, <1>4, <1>5, HelperAssumption DEF Slots

(* What the records of ServersOkay are when squid's configuration stays.     *)
LEMMA SameConcurrency ==
  ASSUME UNCHANGED config
  PROVE  /\ concurrency' = concurrency /\ Slots' = Slots
         /\ ServerType' = ServerType /\ NewServer' = NewServer
         /\ (ServersOkay(servers, srv, child)' <=> ServersOkay(servers', srv', child'))
         /\ (QueueOnce' <=> WaitOnce(queue', srv', asking'))
  <1>1. concurrency' = concurrency
    BY DEF config
  <1>2. Slots' = Slots
    BY <1>1 DEF Slots
  <1>. HIDE DEF Slots
  <1>3. ServerType' = ServerType /\ NewServer' = NewServer /\ ChildType' = ChildType
    BY <1>1, <1>2 DEF ServerType, NewServer, ChildType
  <1>4. \A s : HeldBy(srv, s)' = HeldBy(srv', s)
    BY <1>2 DEF HeldBy
  <1>41. QueueOnce' <=> WaitOnce(queue', srv', asking')
    BY <1>2 DEF HeldBy, QueueOnce, WaitOnce
  <1>5. HeldOnce(srv)' <=> HeldOnce(srv')
    BY <1>2 DEF HeldOnce
  <1>6. Unlisted(servers, srv, child)' <=> Unlisted(servers', srv', child')
    BY <1>3 DEF Unlisted
  <1>. QED
    BY <1>1, <1>2, <1>3, <1>4, <1>41, <1>5, <1>6 DEF ServersOkay, LinesOwn, LinesOnce, Lines
-----------------------------------------------------------------------------
(* One server                                                                *)

(* A new server and a process that has done nothing have no lines.           *)
LEMMA NoLines ==
  ASSUME NEW c, c.got = {}, c.said = <<>>
  PROVE  LinesOwn(NewServer, c) /\ LinesOnce(NewServer, c)
  <1>1. NewServer.writing = <<>> /\ NewServer.wqueue = <<>>
    BY DEF NewServer
  <1>2. Range(<<>>) = {} /\ IsInjective(<<>>)
    BY EmptyQueue
  <1>. HIDE DEF NewServer
  <1>. QED
    BY <1>1, <1>2 DEF LinesOwn, LinesOnce, Lines

(* A new server holds nothing.                                               *)
LEMMA NewHolds ==
  ASSUME TypeOK
  PROVE  /\ NewServer \in ServerType
         /\ \A i \in Slots : NewServer.requests[i] = None
         /\ NewServer.pending = 0 /\ ~NewServer.shutdown
  <1>1. 0 \in 0..concurrency
    BY Constants
  <1>2. <<>> \in Seq(Slots \X Requests)
    OBVIOUS
  <1>. QED
    BY <1>1, <1>2 DEF NewServer, ServerType

(* helperDispatch puts the line on a free channel: it is new, and the others *)
(* stay where they are.                                                      *)
LEMMA DispatchLines ==
  ASSUME NEW v \in ServerType, NEW c \in ChildType, NEW w \in ServerType,
         NEW i \in Slots, NEW r \in Requests, None \notin Requests,
         LinesOwn(v, c), LinesOnce(v, c), v.requests[i] = None,
         w.requests = [v.requests EXCEPT ![i] = r],
         \/ v.writing = <<>> /\ w.writing = <<<<i, r>>>> /\ w.wqueue = v.wqueue
         \/ v.writing # <<>> /\ w.writing = v.writing
            /\ w.wqueue = Append(v.wqueue, <<i, r>>)
  PROVE  LinesOwn(w, c) /\ LinesOnce(w, c)
  <1>. DEFINE L == Slots \X Requests
              line == <<i, r>>
  <1>1. /\ v.writing \in Seq(L) /\ v.wqueue \in Seq(L) /\ c.got \subseteq L
        /\ c.said \in Seq(L) /\ v.requests \in [Slots -> Requests \cup {None}]
        /\ w.writing \in Seq(L) /\ w.wqueue \in Seq(L) /\ line \in L
    BY DEF ServerType, ChildType
  <1>2. Range(v.writing) \subseteq L /\ Range(v.wqueue) \subseteq L /\ Range(c.said) \subseteq L
    BY <1>1, RangeOfSeq
  <1>3. \A l \in Lines(v, c) : l \in L /\ l[1] # i
    <2>. SUFFICES ASSUME NEW l \in Lines(v, c) PROVE l \in L /\ l[1] # i
      OBVIOUS
    <2>1. l \in L /\ v.requests[l[1]] = l[2]
      BY <1>1, <1>2 DEF Lines, LinesOwn
    <2>. QED
      BY <2>1
  <1>4. line[1] = i /\ line[2] = r
    OBVIOUS
  <1>5. line \notin Lines(v, c)
    BY <1>3, <1>4
  <1>. HIDE DEF L, line
  <1>6. /\ Lines(w, c) = Lines(v, c) \cup {line}
        /\ IsInjective(w.writing) /\ IsInjective(w.wqueue)
        /\ \/ Range(w.writing) = {line} /\ Range(w.wqueue) = Range(v.wqueue)
              /\ Range(v.writing) = {}
           \/ Range(w.writing) = Range(v.writing)
              /\ Range(w.wqueue) = Range(v.wqueue) \cup {line}
    <2>1. CASE v.writing = <<>> /\ w.writing = <<line>> /\ w.wqueue = v.wqueue
      <3>1. Range(v.writing) = {} /\ Range(w.writing) = {line} /\ IsInjective(w.writing)
        BY <2>1, EmptyQueue DEF Range, IsInjective
      <3>. QED
        BY <2>1, <3>1 DEF Lines, LinesOnce
    <2>2. CASE v.writing # <<>> /\ w.writing = v.writing /\ w.wqueue = Append(v.wqueue, line)
      <3>1. Range(w.wqueue) = Range(v.wqueue) \cup {line}
        BY <2>2, <1>1, RangeOfAppend
      <3>2. line \notin Range(v.wqueue) /\ IsInjective(v.wqueue)
        BY <1>5 DEF Lines, LinesOnce
      <3>3. IsInjective(w.wqueue)
        BY <2>2, <3>2, <1>1, AppendOnce
      <3>. QED
        BY <2>2, <3>1, <3>3 DEF Lines, LinesOnce
    <2>. QED
      BY <2>1, <2>2 DEF line
  <1>7. LinesOwn(w, c)
    <2>. SUFFICES ASSUME NEW l \in Lines(w, c) PROVE w.requests[l[1]] = l[2]
      BY DEF LinesOwn
    <2>1. CASE l = line
      BY <2>1, <1>4, <1>1
    <2>2. CASE l \in Lines(v, c)
      <3>1. l[1] # i /\ l[1] \in Slots /\ v.requests[l[1]] = l[2]
        BY <2>2, <1>3 DEF L, LinesOwn
      <3>. QED
        BY <3>1, <1>1
    <2>. QED
      BY <1>6, <2>1, <2>2
  <1>8. LinesOnce(w, c)
    BY <1>5, <1>6 DEF LinesOnce, Lines
  <1>. QED
    BY <1>7, <1>8
(* helperDispatch_done: what was being written is with the process, what     *)
(* waited is being written.                                                  *)
LEMMA DoneLines ==
  ASSUME NEW v, NEW c, NEW w, NEW d, LinesOwn(v, c), LinesOnce(v, c),
         w.requests = v.requests, w.writing = v.wqueue, w.wqueue = <<>>,
         d.got = c.got \cup Range(v.writing), d.said = c.said
  PROVE  LinesOwn(w, d) /\ LinesOnce(w, d)
  <1>1. Range(<<>>) = {} /\ IsInjective(<<>>)
    BY EmptyQueue
  <1>2. Lines(w, d) = Lines(v, c)
    BY <1>1 DEF Lines
  <1>3. LinesOwn(w, d)
    BY <1>2 DEF LinesOwn
  <1>4. LinesOnce(w, d)
    BY <1>1 DEF LinesOnce
  <1>. QED
    BY <1>3, <1>4

(* A process answers: the line is said instead of read.                      *)
LEMMA AnswerLines ==
  ASSUME NEW v, NEW c, NEW d, NEW L, NEW line \in L, c.said \in Seq(L),
         LinesOwn(v, c), LinesOnce(v, c),
         line \in c.got, d.got = c.got \ {line}, d.said = Append(c.said, line)
  PROVE  LinesOwn(v, d) /\ LinesOnce(v, d)
  <1>1. line \notin Range(c.said) /\ IsInjective(c.said)
        /\ line \notin Range(v.writing) /\ line \notin Range(v.wqueue)
    BY DEF LinesOnce
  <1>2. Range(d.said) = Range(c.said) \cup {line}
    BY RangeOfAppend
  <1>3. IsInjective(d.said)
    BY <1>1, AppendOnce
  <1>4. Lines(v, d) = Lines(v, c)
    BY <1>2 DEF Lines
  <1>5. LinesOwn(v, d)
    BY <1>4 DEF LinesOwn
  <1>6. LinesOnce(v, d)
    BY <1>1, <1>2, <1>3 DEF LinesOnce
  <1>. QED
    BY <1>5, <1>6

(* A process dies: what it has not answered is lost.                         *)
LEMMA DieLines ==
  ASSUME NEW v, NEW c, NEW d, LinesOwn(v, c), LinesOnce(v, c),
         d.got = {}, d.said = c.said
  PROVE  LinesOwn(v, d) /\ LinesOnce(v, d)
  BY DEF LinesOwn, LinesOnce, Lines

(* An answer is read: it is on the channel of its request, which is free     *)
(* afterwards, and no other line is on that channel.                         *)
LEMMA ReadLines ==
  ASSUME NEW v \in ServerType, NEW c \in ChildType, NEW w \in ServerType, NEW d,
         LinesOwn(v, c), LinesOnce(v, c), c.said # <<>>,
         w.requests = [v.requests EXCEPT ![c.said[1][1]] = None],
         w.writing = v.writing, w.wqueue = v.wqueue,
         d.got = c.got, d.said = Tail(c.said)
  PROVE  /\ c.said[1] \in Slots \X Requests
         /\ v.requests[c.said[1][1]] = c.said[1][2]
         /\ LinesOwn(w, d) /\ LinesOnce(w, d)
  <1>. DEFINE L == Slots \X Requests
              line == c.said[1]
  <1>1. /\ v.writing \in Seq(L) /\ v.wqueue \in Seq(L) /\ c.got \subseteq L
        /\ c.said \in Seq(L) /\ v.requests \in [Slots -> Requests \cup {None}]
    BY DEF ServerType, ChildType
  <1>2. Head(c.said) = line
    BY <1>1
  <1>3. /\ line \in L /\ Range(c.said) = {line} \cup Range(Tail(c.said))
        /\ Tail(c.said) \in Seq(L)
    BY <1>1, <1>2, RangeOfTail
  <1>4. IsInjective(Tail(c.said)) /\ line \notin Range(Tail(c.said))
    BY <1>1, <1>2, TailOnce DEF LinesOnce
  <1>5. Range(v.writing) \subseteq L /\ Range(v.wqueue) \subseteq L /\ Range(c.said) \subseteq L
    BY <1>1, RangeOfSeq
  <1>6. v.requests[line[1]] = line[2]
    BY <1>3 DEF LinesOwn, Lines
  <1>7. Lines(w, d) = c.got \cup Range(Tail(c.said)) \cup Range(v.writing) \cup Range(v.wqueue)
    BY DEF Lines
  <1>. HIDE DEF L, line
  <1>8. line \notin Lines(w, d) /\ Lines(w, d) \subseteq Lines(v, c)
        /\ Lines(v, c) \subseteq L
    BY <1>1, <1>3, <1>4, <1>5, <1>7 DEF Lines, LinesOnce
  <1>9. \A l \in Lines(w, d) : l[1] # line[1]
    <2>. SUFFICES ASSUME NEW l \in Lines(w, d), l[1] = line[1] PROVE FALSE
      OBVIOUS
    <2>1. l \in L /\ v.requests[l[1]] = l[2]
      BY <1>8 DEF LinesOwn
    <2>2. l[2] = line[2]
      BY <2>1, <1>6
    <2>3. l = line
      BY <2>1, <2>2, <1>3 DEF L
    <2>. QED
      BY <2>3, <1>8
  <1>10. LinesOwn(w, d)
    <2>. SUFFICES ASSUME NEW l \in Lines(w, d) PROVE w.requests[l[1]] = l[2]
      BY DEF LinesOwn
    <2>1. l \in L /\ v.requests[l[1]] = l[2] /\ l[1] # line[1]
      BY <1>8, <1>9 DEF LinesOwn
    <2>2. w.requests = [v.requests EXCEPT ![line[1]] = None]
      BY DEF line
    <2>3. l[1] \in Slots
      BY <2>1 DEF L
    <2>. QED
      BY <2>1, <2>2, <2>3, <1>1
  <1>11. LinesOnce(w, d)
    BY <1>3, <1>4 DEF LinesOnce
  <1>. QED
    BY <1>3, <1>6, <1>10, <1>11 DEF L, line
-----------------------------------------------------------------------------
(* All servers                                                               *)

(* A server that is not full has a free channel, and so a lowest one.        *)
LEMMA FreeChannel ==
  ASSUME TypeOK, NEW v \in ServerType, v.pending < concurrency,
         v.pending = Cardinality({v.requests[i] : i \in Slots} \ {None}),
         \A i, j \in Slots : v.requests[i] # None /\ v.requests[i] = v.requests[j] => i = j
  PROVE  \E i \in Slots : /\ v.requests[i] = None
                          /\ \A j \in Slots : j < i => v.requests[j] # None
  <1>. DEFINE f == v.requests
              H == {f[i] : i \in Slots} \ {None}
              F == {i \in Slots : f[i] = None}
  <1>1. concurrency \in Nat /\ IsFiniteSet(Slots) /\ Cardinality(Slots) = concurrency
        /\ Slots \subseteq Nat
    BY Constants DEF Slots
  <1>2. f \in [Slots -> Requests \cup {None}]
    BY DEF ServerType
  <1>3. F # {}
    <2>. SUFFICES ASSUME F = {} PROVE FALSE
      OBVIOUS
    <2>1. \A i \in Slots : f[i] # None
      OBVIOUS
    <2>2. f \in [Slots -> H] /\ \A h \in H : \E i \in Slots : f[i] = h
      BY <2>1, <1>2
    <2>3. \A i, j \in Slots : f[i] = f[j] => i = j
      BY <2>1
    <2>. HIDE DEF f, H
    <2>4. f \in Bijection(Slots, H)
      BY <2>2, <2>3 DEF Bijection, Injection, Surjection, IsInjective
    <2>5. ExistsBijection(Slots, H)
      BY <2>4 DEF ExistsBijection
    <2>6. Cardinality(H) = concurrency
      BY <2>5, <1>1, FS_Bijection
    <2>. QED
      BY <2>6, <1>1 DEF H, f
  <1>4. F \subseteq Nat
    BY <1>1
  <1>5. PICK i \in F : \A m \in F : i <= m
    BY <1>3, <1>4, LeastNatural
  <1>6. \A j \in Slots : j < i => j \notin F
    BY <1>1, <1>4, <1>5
  <1>. QED
    BY <1>5, <1>6

(* helperDispatch gives a request nobody holds to a server that is not full. *)
LEMMA DispatchServer ==
  ASSUME TypeOK, ServersOkay(servers, srv, child), NEW s \in Range(servers),
         srv[s].pending < concurrency, NEW r \in Requests,
         \A t \in Servers : r \notin HeldBy(srv, t),
         NEW sv, sv = helperDispatch(srv, s, r)
  PROVE  /\ ServersOkay(servers, sv, child)
         /\ HeldBy(sv, s) = HeldBy(srv, s) \cup {r}
         /\ sv[s].shutdown = srv[s].shutdown
         /\ \A t \in Servers \ {s} : sv[t] = srv[t]
  <1>. DEFINE v == srv[s]
              w == sv[s]
  <1>1. /\ s \in Servers /\ v \in ServerType /\ child[s] \in ChildType
        /\ None \notin Requests /\ srv \in [Servers -> ServerType]
        /\ concurrency \in Nat /\ r # None
    BY RangeOfSeq, Constants DEF ServersOkay
  <1>2. /\ v.pending = Cardinality({v.requests[i] : i \in Slots} \ {None})
        /\ \A i, j \in Slots : v.requests[i] # None /\ v.requests[i] = v.requests[j] => i = j
    BY <1>1 DEF ServersOkay, HeldBy, HeldOnce
  <1>3. \E i \in Slots : /\ srv[s].requests[i] = None
                         /\ \A j \in Slots : j < i => srv[s].requests[j] # None
    BY <1>1, <1>2, FreeChannel
  <1>. DEFINE slot == CHOOSE i \in Slots : /\ srv[s].requests[i] = None
                                           /\ \A j \in Slots : j < i =>
                                                  srv[s].requests[j] # None
  <1>4. slot \in Slots /\ v.requests[slot] = None
    BY <1>3
  <1>5. PICK k \in Slots : k = slot /\ v.requests[k] = None
    BY <1>4
  <1>6. sv = [srv EXCEPT ![s].requests[k] = r, ![s].pending = @ + 1,
                   ![s].writing = IF @ = <<>> THEN <<<<k, r>>>> ELSE @,
                   ![s].wqueue = IF srv[s].writing = <<>> THEN @
                                 ELSE Append(@, <<k, r>>)]
    <2>1. sv = [srv EXCEPT ![s].requests[slot] = r, ![s].pending = @ + 1,
                   ![s].writing = IF @ = <<>> THEN <<<<slot, r>>>> ELSE @,
                   ![s].wqueue = IF srv[s].writing = <<>> THEN @
                                 ELSE Append(@, <<slot, r>>)]
      BY DEF helperDispatch
    <2>. HIDE DEF slot
    <2>. QED
      BY <1>5, <2>1
  <1>. HIDE DEF slot
  <1>7. /\ w = [requests |-> [v.requests EXCEPT ![k] = r], pending |-> v.pending + 1,
                shutdown |-> v.shutdown,
                writing |-> IF v.writing = <<>> THEN <<<<k, r>>>> ELSE v.writing,
                wqueue |-> IF v.writing = <<>> THEN v.wqueue
                           ELSE Append(v.wqueue, <<k, r>>)]
        /\ \A t \in Servers \ {s} : sv[t] = srv[t]
        /\ DOMAIN sv = Servers /\ sv = [srv EXCEPT ![s] = w]
    BY <1>1, <1>6 DEF ServerType
  <1>8. w \in ServerType
    <2>1. v.pending + 1 \in 0..concurrency
      BY <1>1 DEF ServerType
    <2>2. [v.requests EXCEPT ![k] = r] \in [Slots -> Requests \cup {None}]
      BY <1>1 DEF ServerType
    <2>3. <<k, r>> \in Slots \X Requests
      OBVIOUS
    <2>. DEFINE L == Slots \X Requests
    <2>4. v.writing \in Seq(L) /\ v.wqueue \in Seq(L) /\ v.shutdown \in BOOLEAN
      BY <1>1 DEF ServerType
    <2>. HIDE DEF L
    <2>5. <<k, r>> \in L
      BY <2>3 DEF L
    <2>6. <<<<k, r>>>> \in Seq(L) /\ Append(v.wqueue, <<k, r>>) \in Seq(L)
      BY <2>4, <2>5
    <2>. DEFINE wr == IF v.writing = <<>> THEN <<<<k, r>>>> ELSE v.writing
                wq == IF v.writing = <<>> THEN v.wqueue ELSE Append(v.wqueue, <<k, r>>)
                rs == [v.requests EXCEPT ![k] = r]
    <2>7. wr \in Seq(L) /\ wq \in Seq(L)
      BY <2>4, <2>6
    <2>8. w = [requests |-> rs, pending |-> v.pending + 1,
               shutdown |-> v.shutdown, writing |-> wr, wqueue |-> wq]
      BY <1>7
    <2>9. rs \in [Slots -> Requests \cup {None}]
      BY <2>2
    <2>. HIDE DEF wr, wq, rs, v, w
    <2>. QED
      BY <2>1, <2>4, <2>7, <2>8, <2>9 DEF ServerType, L
  <1>9. sv \in [Servers -> ServerType]
    BY <1>1, <1>7, <1>8
  <1>10. /\ w.requests = [v.requests EXCEPT ![k] = r] /\ w.pending = v.pending + 1
         /\ w.shutdown = v.shutdown
         /\ (\/ v.writing = <<>> /\ w.writing = <<<<k, r>>>> /\ w.wqueue = v.wqueue
             \/ v.writing # <<>> /\ w.writing = v.writing
                /\ w.wqueue = Append(v.wqueue, <<k, r>>))
    BY <1>7
  <1>11. LinesOwn(v, child[s]) /\ LinesOnce(v, child[s])
    BY <1>1 DEF ServersOkay
  <1>. HIDE DEF v, w
  <1>12. LinesOwn(w, child[s]) /\ LinesOnce(w, child[s])
    BY <1>1, <1>5, <1>8, <1>10, <1>11, DispatchLines
  <1>13. v.requests \in [Slots -> Requests \cup {None}]
    BY <1>1 DEF ServerType
  <1>14. \A i \in Slots : w.requests[i] = IF i = k THEN r ELSE v.requests[i]
    BY <1>10, <1>13
  <1>15. HeldBy(sv, s) = HeldBy(srv, s) \cup {r}
    BY <1>1, <1>5, <1>14 DEF HeldBy, v, w
  <1>16. w.pending = Cardinality(HeldBy(sv, s))
    <2>1. HeldBy(srv, s) \subseteq Requests
      BY <1>13 DEF HeldBy, v
    <2>2. IsFiniteSet(HeldBy(srv, s))
      BY <2>1, Constants, FS_Subset
    <2>3. r \notin HeldBy(srv, s) /\ v.pending = Cardinality(HeldBy(srv, s))
      BY <1>1 DEF ServersOkay, v
    <2>. QED
      BY <1>10, <1>15, <2>2, <2>3, FS_AddElement
  <1>17. \A t \in Servers \ {s} : HeldBy(sv, t) = HeldBy(srv, t)
    BY <1>7 DEF HeldBy
  <1>18. HeldOnce(sv)
    <2>1. \A t \in Servers : \A j \in Slots : srv[t].requests[j] # r
      BY <1>1 DEF HeldBy
    <2>2. \A t \in Servers : \A j \in Slots :
             sv[t].requests[j] = IF t = s /\ j = k THEN r ELSE srv[t].requests[j]
      <3>1. \A j \in Slots : sv[s].requests[j] = IF j = k THEN r ELSE srv[s].requests[j]
        BY <1>14 DEF v, w
      <3>2. \A t \in Servers \ {s} : sv[t] = srv[t]
        BY <1>7
      <3>. QED
        BY <3>1, <3>2
    <2>3. HeldOnce(srv)
      BY DEF ServersOkay
    <2>. QED
      BY <2>1, <2>2, <2>3, <1>5 DEF HeldOnce, v
  <1>19. Unlisted(servers, sv, child)
    BY <1>7 DEF ServersOkay, Unlisted
  <1>20. \A t \in Servers : LinesOwn(sv[t], child[t]) /\ LinesOnce(sv[t], child[t])
    BY <1>7, <1>12 DEF ServersOkay, w
  <1>21. \A t \in Servers : sv[t].pending = Cardinality(HeldBy(sv, t))
    BY <1>7, <1>16, <1>17 DEF ServersOkay, w
  <1>22. ServersOkay(servers, sv, child)
    BY <1>9, <1>18, <1>19, <1>20, <1>21 DEF ServersOkay
  <1>. QED
    BY <1>7, <1>10, <1>15, <1>22 DEF v, w
\* The servers of a list have what they had.
Stay(list, sv, ch) ==
    \A s \in Range(list) :
        /\ sv[s].requests = srv[s].requests /\ sv[s].pending = srv[s].pending
        /\ sv[s].writing = srv[s].writing /\ sv[s].wqueue = srv[s].wqueue
        /\ ch[s] = child[s]

(* Servers are closed: those that stay keep their lines, and the others are  *)
(* as new.                                                                   *)
LEMMA CloseServers ==
  ASSUME TypeOK, ServersOkay(servers, srv, child), NEW K, NEW list, NEW sv, NEW ch,
         list = Kept(servers, K),
         sv \in [Servers -> ServerType], ch \in [Servers -> ChildType],
         Stay(list, sv, ch), Unlisted(list, sv, ch)
  PROVE  /\ ServersOkay(list, sv, ch)
         /\ Range(list) = Range(servers) \cap K /\ Range(list) \subseteq Servers
         /\ \A s \in Range(list) : HeldBy(sv, s) = HeldBy(srv, s)
         /\ \A s \in Servers \ Range(list) : HeldBy(sv, s) = {}
  <1>1. servers \in Seq(Servers) /\ IsInjective(servers)
    BY DEF ServersOkay
  <1>2. list \in Seq(Servers) /\ IsInjective(list) /\ Range(list) = Range(servers) \cap K
    BY <1>1, KeptProperties
  <1>3. Range(list) \subseteq Servers
    BY <1>2, RangeOfSeq
  <1>4. \A s \in Range(list) : HeldBy(sv, s) = HeldBy(srv, s)
    BY DEF HeldBy, Stay
  <1>5. \A s \in Servers \ Range(list) :
            HeldBy(sv, s) = {} /\ (\A i \in Slots : sv[s].requests[i] = None)
            /\ sv[s].pending = 0
    BY NewHolds DEF HeldBy, Unlisted
  <1>6. \A s \in Servers : sv[s].pending = Cardinality(HeldBy(sv, s))
    <2>. SUFFICES ASSUME NEW s \in Servers PROVE sv[s].pending = Cardinality(HeldBy(sv, s))
      OBVIOUS
    <2>1. CASE s \in Range(list)
      <3>1. srv[s].pending = Cardinality(HeldBy(srv, s))
        BY DEF ServersOkay
      <3>. QED
        BY <2>1, <3>1, <1>4 DEF Stay
    <2>2. CASE s \notin Range(list)
      <3>1. HeldBy(sv, s) = {} /\ sv[s].pending = 0
        BY <2>2, <1>5
      <3>. QED
        BY <3>1, FS_EmptySet
    <2>. QED
      BY <2>1, <2>2
  <1>7. HeldOnce(sv)
    <2>1. HeldOnce(srv)
      BY DEF ServersOkay
    <2>. QED
      BY <2>1, <1>3, <1>5 DEF HeldOnce, Stay
  <1>8. \A s \in Servers : LinesOwn(sv[s], ch[s]) /\ LinesOnce(sv[s], ch[s])
    <2>. SUFFICES ASSUME NEW s \in Servers
                  PROVE  LinesOwn(sv[s], ch[s]) /\ LinesOnce(sv[s], ch[s])
      OBVIOUS
    <2>1. CASE s \in Range(list)
      <3>1. LinesOwn(srv[s], child[s]) /\ LinesOnce(srv[s], child[s])
        BY DEF ServersOkay
      <3>2. Lines(sv[s], ch[s]) = Lines(srv[s], child[s])
        BY <2>1 DEF Lines, Stay
      <3>. QED
        BY <2>1, <3>1, <3>2 DEF LinesOwn, LinesOnce, Stay
    <2>2. CASE s \notin Range(list)
      BY <2>2, NoLines DEF Unlisted
    <2>. QED
      BY <2>1, <2>2
  <1>. QED
    BY <1>2, <1>3, <1>4, <1>5, <1>6, <1>7, <1>8 DEF ServersOkay

(* helperOpenServers: new processes behind those there are.                  *)
LEMMA OpenServers ==
  ASSUME TypeOK, NEW list, NEW sv, NEW ch, ServersOkay(list, sv, ch),
         NEW new \in SUBSET (Servers \ Range(list)), Cardinality(new) = n_to_start,
         servers' = list \o SetToSeq(new),
         srv' = [s \in Servers |-> IF s \in new THEN NewServer ELSE sv[s]],
         child' = [s \in Servers |-> IF s \in new THEN NewChild ELSE ch[s]]
  PROVE  /\ ServersOkay(servers', srv', child')
         /\ Len(servers') = Len(list) + n_to_start
         /\ Cardinality(Open(servers', srv')) = Cardinality(Open(list, sv)) + n_to_start
         /\ \A s \in Servers : HeldBy(srv', s) = HeldBy(sv, s)
  <1>1. /\ list \in Seq(Servers) /\ IsInjective(list) /\ IsFiniteSet(Servers)
        /\ sv \in [Servers -> ServerType] /\ ch \in [Servers -> ChildType]
        /\ Range(list) \subseteq Servers /\ n_to_start \in Nat
    BY Constants, RangeOfSeq DEF ServersOkay
  <1>2. new \subseteq Servers /\ IsFiniteSet(new) /\ Range(list) \cap new = {}
    BY <1>1, FS_Subset
  <1>3. /\ SetToSeq(new) \in Seq(new) /\ Len(SetToSeq(new)) = n_to_start
        /\ IsInjective(SetToSeq(new)) /\ Range(SetToSeq(new)) = new
    BY <1>2, SetAsSequence
  <1>4. SetToSeq(new) \in Seq(Servers)
    BY <1>2, <1>3
  <1>5. /\ servers' \in Seq(Servers) /\ IsInjective(servers') /\ Len(servers') = Len(list) + n_to_start
        /\ Range(servers') = Range(list) \cup new
    <2>. DEFINE tail == SetToSeq(new)
    <2>1. /\ tail \in Seq(Servers) /\ Len(tail) = n_to_start
          /\ IsInjective(tail) /\ Range(tail) = new /\ servers' = list \o tail
      BY <1>3, <1>4
    <2>. HIDE DEF tail
    <2>2. Range(list) \cap Range(tail) = {}
      BY <2>1, <1>2
    <2>3. /\ list \o tail \in Seq(Servers) /\ IsInjective(list \o tail)
          /\ Len(list \o tail) = Len(list) + Len(tail)
          /\ Range(list \o tail) = Range(list) \cup Range(tail)
      BY <1>1, <2>1, <2>2, ConcatOnce
    <2>. QED
      BY <2>1, <2>3
  <1>6. NewServer \in ServerType /\ (\A i \in Slots : NewServer.requests[i] = None)
        /\ ~NewServer.shutdown
    BY NewHolds
  <1>7. NewChild \in ChildType /\ NewChild.got = {} /\ NewChild.said = <<>>
    BY DEF NewChild, ChildType
  <1>. HIDE DEF NewServer, NewChild
  <1>8. srv' \in [Servers -> ServerType] /\ child' \in [Servers -> ChildType]
    BY <1>1, <1>6, <1>7
  <1>9. \A s \in new : sv[s] = NewServer /\ srv'[s] = NewServer /\ child'[s] = NewChild
    BY <1>1, <1>2 DEF ServersOkay, Unlisted
  <1>10. \A s \in Servers : srv'[s] = sv[s]
    BY <1>9
  <1>11. \A s \in Servers : HeldBy(srv', s) = HeldBy(sv, s)
    BY <1>10 DEF HeldBy
  <1>12. \A s \in Servers : LinesOwn(srv'[s], child'[s]) /\ LinesOnce(srv'[s], child'[s])
    <2>. SUFFICES ASSUME NEW s \in Servers
                  PROVE  LinesOwn(srv'[s], child'[s]) /\ LinesOnce(srv'[s], child'[s])
      OBVIOUS
    <2>1. CASE s \in new
      BY <2>1, <1>7, <1>9, NoLines
    <2>2. CASE s \notin new
      BY <2>2, <1>10 DEF ServersOkay
    <2>. QED
      BY <2>1, <2>2
  <1>13. HeldOnce(srv')
    BY <1>10 DEF ServersOkay, HeldOnce
  <1>14. Unlisted(servers', srv', child')
    BY <1>5, <1>10 DEF ServersOkay, Unlisted
  <1>15. \A s \in Servers : srv'[s].pending = Cardinality(HeldBy(srv', s))
    BY <1>10, <1>11 DEF ServersOkay
  <1>16. ServersOkay(servers', srv', child')
    BY <1>5, <1>8, <1>12, <1>13, <1>14, <1>15 DEF ServersOkay
  <1>17. Open(servers', srv') = Open(list, sv) \cup new
    BY <1>1, <1>2, <1>5, <1>6, <1>9, <1>10 DEF Open
  <1>18. Open(list, sv) \subseteq Servers /\ Open(list, sv) \cap new = {}
    BY <1>1, <1>2 DEF Open
  <1>19. IsFiniteSet(Open(list, sv)) /\ Cardinality(Open(list, sv)) \in Nat
    BY <1>1, <1>18, FS_Subset, FS_CardinalityType
  <1>20. Cardinality(Open(servers', srv')) = Cardinality(Open(list, sv)) + n_to_start
    <2>. DEFINE A == Open(list, sv)
                B == Open(servers', srv')
    <2>1. B = A \cup new /\ A \cap new = {} /\ IsFiniteSet(A) /\ Cardinality(A) \in Nat
      BY <1>17, <1>18, <1>19
    <2>. HIDE DEF A, B
    <2>2. Cardinality(A \cup new) = Cardinality(A) + Cardinality(new) - Cardinality(A \cap new)
      BY <2>1, <1>2, FS_Union
    <2>3. Cardinality(A \cap new) = 0
      BY <2>1, FS_EmptySet
    <2>4. Cardinality(B) = Cardinality(A) + n_to_start
      BY <2>1, <2>2, <2>3, <1>1
    <2>. QED
      BY <2>4 DEF A, B
  <1>. QED
    BY <1>5, <1>11, <1>16, <1>20
(* GetFirstAvailable finds an open server that is not full, if there is one. *)
LEMMA Available ==
  ASSUME TypeOK, ServersOkay(servers, srv, child),
         NEW s, s = GetFirstAvailable(servers, srv)
  PROVE  /\ s # None => /\ s \in Open(servers, srv) /\ s \in Servers
                        /\ s \in Range(servers) /\ srv[s].pending < concurrency
         /\ s = None => \A t \in Open(servers, srv) : srv[t].pending = concurrency
  <1>. DEFINE O == {x \in Servers : ~srv[x].shutdown}
              open == Kept(servers, O)
              M == {x \in Servers : srv[x].pending < srv[open[1]].pending}
              less == Kept(open, M)
              selected == IF less = <<>> THEN open[1] ELSE less[1]
  <1>1. s = IF open = <<>> \/ srv[selected].pending >= concurrency THEN None ELSE selected
    BY DEF GetFirstAvailable
  <1>2. /\ servers \in Seq(Servers) /\ Range(servers) \subseteq Servers
        /\ srv \in [Servers -> ServerType]
    BY RangeOfSeq DEF ServersOkay
  <1>3. concurrency \in Nat /\ None \notin Servers
        /\ \A x \in Servers : srv[x].pending \in Nat /\ srv[x].pending <= concurrency
    BY <1>2, Constants DEF ServerType
  <1>4. open \in Seq(Servers) /\ Range(open) = Range(servers) \cap O
    BY <1>2, KeptProperties
  <1>5. Range(open) = Open(servers, srv)
    BY <1>2, <1>4 DEF Open
  <1>. HIDE DEF O, open
  <1>6. less \in Seq(Servers) /\ Range(less) = Range(open) \cap M
    BY <1>4, KeptProperties
  <1>7. \A q \in Seq(Servers) : q # <<>> => q[1] \in Range(q)
    <2>. SUFFICES ASSUME NEW q \in Seq(Servers), q # <<>> PROVE q[1] \in Range(q)
      OBVIOUS
    <2>1. Len(q) \in Nat /\ Len(q) # 0 /\ DOMAIN q = 1..Len(q)
      BY EmptySeq, LenProperties
    <2>2. 1 \in DOMAIN q
      BY <2>1
    <2>. QED
      BY <2>2 DEF Range
  <1>. HIDE DEF less
  <1>8. CASE open = <<>>
    <2>1. Open(servers, srv) = {} /\ s = None
      BY <1>1, <1>5, <1>8, EmptyQueue
    <2>. QED
      BY <2>1
  <1>9. CASE open # <<>> /\ less # <<>>
    <2>1. less[1] \in Range(less) /\ open[1] \in Range(open)
      BY <1>4, <1>6, <1>7, <1>9
    <2>2. less[1] \in Range(open) /\ less[1] \in M /\ less[1] \in Servers /\ open[1] \in Servers
      BY <2>1, <1>2, <1>4, <1>6
    <2>3. srv[less[1]].pending < concurrency
      BY <2>2, <1>3
    <2>4. s = less[1]
      BY <1>1, <1>9, <2>3, <1>3, <2>2
    <2>. QED
      BY <2>2, <2>3, <2>4, <1>3, <1>5 DEF Open
  <1>10. CASE open # <<>> /\ less = <<>>
    <2>1. open[1] \in Range(open) /\ Range(open) \cap M = {}
      BY <1>4, <1>6, <1>7, <1>10, EmptyQueue
    <2>2. open[1] \in Servers /\ Range(open) \subseteq Servers
      BY <2>1, <1>2, <1>4
    <2>3. \A t \in Range(open) : ~(srv[t].pending < srv[open[1]].pending)
      BY <2>1, <2>2
    <2>4. s = IF srv[open[1]].pending >= concurrency THEN None ELSE open[1]
      BY <1>1, <1>10
    <2>5. CASE srv[open[1]].pending >= concurrency
      <3>1. s = None
        BY <2>4, <2>5
      <3>2. \A t \in Range(open) : srv[t].pending = concurrency
        BY <2>2, <2>3, <2>5, <1>3
      <3>. QED
        BY <3>1, <3>2, <1>5
    <2>6. CASE ~(srv[open[1]].pending >= concurrency)
      <3>1. s = open[1] /\ srv[s].pending < concurrency
        BY <2>2, <2>4, <2>6, <1>3
      <3>. QED
        BY <3>1, <2>1, <2>2, <1>3, <1>5 DEF Open
    <2>. QED
      BY <2>5, <2>6
  <1>. QED
    BY <1>8, <1>9, <1>10
-----------------------------------------------------------------------------
(* The actions                                                               *)

(* redirectStart: the request is nobody's, and is queued only behind servers *)
(* that are all full.                                                        *)
LEMMA StartKeeps ==
  ASSUME HelperInv, redirectStart
  PROVE  HelperInv'
  <1>. DEFINE r0 == CHOOSE r \in Requests : r \notin asking
              s0 == GetFirstAvailable(servers, srv)
  <1>1. /\ TypeOK /\ ServersOkay(servers, srv, child) /\ QueueOnce /\ Reading
        /\ Full /\ Counted
    BY DEF HelperInv
  <1>2. /\ UNCHANGED <<servers, child, n_running, n_active, recent, main, config>>
        /\ fatal = "" /\ main.loop = "none" /\ asking' = asking \cup {r0}
        /\ Cardinality(asking) < MaxAsking[concurrency]
        /\ helperSubmit(r0)
    BY DEF redirectStart, Running
  <1>3. \E r \in Requests : r \notin asking
    <2>. SUFFICES ASSUME asking = Requests PROVE FALSE
      BY <1>1 DEF TypeOK
    <2>1. MaxAsking[concurrency] \in 1..Cardinality(Requests) /\ IsFiniteSet(Requests)
      BY <1>1, Constants
    <2>2. Cardinality(Requests) \in Nat
      BY <2>1, FS_CardinalityType
    <2>3. Cardinality(Requests) < MaxAsking[concurrency]
      BY <1>2
    <2>. QED
      BY <2>1, <2>2, <2>3
  <1>4. PICK r \in Requests : r = r0 /\ r \notin asking
    BY <1>3
  <1>5. PICK s : s = s0
    OBVIOUS
  <1>6. /\ asking' = asking \cup {r}
        /\ IF s # None
           THEN /\ srv' = helperDispatch(srv, s, r)
                /\ UNCHANGED <<queue, fatal>>
           ELSE /\ srv' = srv /\ queue' = Append(queue, r)
                /\ fatal' \in {"", "too many queued"}
    BY <1>2, <1>4, <1>5 DEF helperSubmit
  <1>. HIDE DEF r0, s0
  <1>7. /\ s # None => /\ s \in Open(servers, srv) /\ s \in Servers
                       /\ s \in Range(servers) /\ srv[s].pending < concurrency
        /\ s = None => \A t \in Open(servers, srv) : srv[t].pending = concurrency
    BY <1>1, <1>5, Available DEF s0
  <1>8. /\ concurrency' = concurrency /\ Slots' = Slots
        /\ (ServersOkay(servers, srv, child)' <=> ServersOkay(servers', srv', child'))
        /\ (QueueOnce' <=> WaitOnce(queue', srv', asking'))
    BY <1>2, SameConcurrency
  <1>9. \A t \in Servers : r \notin HeldBy(srv, t)
    BY <1>1, <1>4 DEF QueueOnce, WaitOnce
  <1>10. r \notin Range(queue)
    BY <1>1, <1>4 DEF QueueOnce, WaitOnce
  <1>11. main.srv = None /\ None \notin Servers
    BY <1>1, <1>2, Constants DEF Reading
  <1>12. CASE s # None
    <2>1. srv' = helperDispatch(srv, s, r) /\ queue' = queue /\ fatal' = fatal
      BY <1>6, <1>12
    <2>2. s \in Range(servers) /\ s \in Servers /\ srv[s].pending < concurrency
          /\ s \in Open(servers, srv)
      BY <1>7, <1>12
    <2>3. /\ ServersOkay(servers, srv', child)
          /\ HeldBy(srv', s) = HeldBy(srv, s) \cup {r}
          /\ srv'[s].shutdown = srv[s].shutdown
          /\ \A t \in Servers \ {s} : srv'[t] = srv[t]
      BY <1>1, <1>9, <2>1, <2>2, DispatchServer
    <2>4. \A t \in Servers \ {s} : HeldBy(srv', t) = HeldBy(srv, t)
      BY <2>3 DEF HeldBy
    <2>5. ServersOkay(servers, srv, child)'
      BY <1>2, <1>8, <2>3
    <2>6. Range(servers) \subseteq Servers
      BY <1>1, RangeOfSeq DEF TypeOK
    <2>7. Open(servers, srv)' = Open(servers, srv)
      BY <1>2, <2>2, <2>3, <2>6 DEF Open
    <2>8. queue = <<>>
      <3>1. srv[s].pending # concurrency
        <4>1. srv[s].pending \in 0..concurrency
          BY <2>2, <1>1 DEF TypeOK, ServerType
        <4>2. concurrency \in Nat
          BY <1>1, Constants
        <4>. QED
          BY <4>1, <4>2, <2>2
      <3>. QED
        BY <3>1, <1>1, <1>2, <1>11, <2>2 DEF Full
    <2>9. TypeOK'
      BY <1>1, <1>2, <1>6, <1>8, <2>1, <2>5 DEF TypeOK, ServersOkay, config
    <2>10. QueueOnce'
      <3>1. \A t \in Servers : HeldBy(srv', t) = IF t = s THEN HeldBy(srv, t) \cup {r}
                                                  ELSE HeldBy(srv, t)
        BY <2>2, <2>3, <2>4
      <3>2. \A t \in Servers : Range(queue) \cap HeldBy(srv', t) = {}
        BY <1>1, <1>10, <2>2, <2>3, <2>4 DEF QueueOnce, WaitOnce
      <3>3. WaitOnce(queue, srv, asking) /\ asking' = asking \cup {r}
        BY <1>1, <1>6 DEF QueueOnce
      <3>4. WaitOnce(queue, srv', asking')
        BY <3>1, <3>2, <3>3, <2>2 DEF WaitOnce
      <3>. QED
        BY <3>4, <1>8, <2>1
    <2>11. Reading' /\ Full' /\ Counted'
      BY <1>1, <1>2, <2>1, <2>7, <2>8 DEF Reading, Full, Counted
    <2>. QED
      BY <2>5, <2>9, <2>10, <2>11 DEF HelperInv
  <1>13. CASE s = None
    <2>1. srv' = srv /\ queue' = Append(queue, r) /\ fatal' \in {"", "too many queued"}
      BY <1>6, <1>13
    <2>2. ServersOkay(servers, srv, child)'
      BY <1>1, <1>2, <1>8, <2>1
    <2>3. queue \in Seq(Requests)
      BY <1>1 DEF TypeOK
    <2>4. queue' \in Seq(Requests) /\ Range(queue') = Range(queue) \cup {r} /\ IsInjective(queue')
      BY <1>1, <1>10, <2>1, <2>3, RangeOfAppend, AppendOnce, AppendProperties DEF QueueOnce, WaitOnce
    <2>5. TypeOK'
      BY <1>1, <1>2, <1>6, <1>8, <2>1, <2>2, <2>4 DEF TypeOK, ServersOkay, config
    <2>6. QueueOnce'
      <3>1. WaitOnce(queue, srv, asking) /\ asking' = asking \cup {r}
        BY <1>1, <1>6 DEF QueueOnce
      <3>2. WaitOnce(queue', srv, asking')
        BY <3>1, <1>9, <2>4 DEF WaitOnce
      <3>. QED
        BY <3>2, <1>8, <2>1
    <2>7. Full'
      BY <1>2, <1>7, <1>8, <1>13, <2>1 DEF Full, Open
    <2>8. Reading' /\ Counted'
      BY <1>1, <1>2, <2>1 DEF Reading, Counted, Open
    <2>. QED
      BY <2>2, <2>5, <2>6, <2>7, <2>8 DEF HelperInv
  <1>. QED
    BY <1>12, <1>13
(* Only a listed process has lines to answer.                                *)
LEMMA ListedHasLines ==
  ASSUME ServersOkay(servers, srv, child), NEW s \in Servers, NEW line \in child[s].got
  PROVE  s \in Range(servers)
  BY DEF ServersOkay, Unlisted

(* A process moves by itself: squid's variables stay.                        *)
LEMMA ProcessStep ==
  ASSUME HelperInv, NEW s \in Range(servers), NEW d \in ChildType,
         child' = [child EXCEPT ![s] = d],
         LinesOwn(srv[s], d), LinesOnce(srv[s], d),
         Len(child[s].said) <= Len(d.said),
         UNCHANGED <<servers, srv, queue, n_running, n_active, recent, asking,
                     main, config, fatal>>
  PROVE  HelperInv'
  <1>1. /\ TypeOK /\ ServersOkay(servers, srv, child) /\ QueueOnce /\ Reading
        /\ Full /\ Counted
    BY DEF HelperInv
  <1>2. /\ s \in Servers /\ child \in [Servers -> ChildType] /\ Range(servers) \subseteq Servers
    BY <1>1, RangeOfSeq DEF ServersOkay
  <1>3. /\ child' \in [Servers -> ChildType] /\ child'[s] = d
        /\ \A t \in Servers \ {s} : child'[t] = child[t]
    BY <1>2
  <1>4. /\ concurrency' = concurrency
        /\ (ServersOkay(servers, srv, child)' <=> ServersOkay(servers', srv', child'))
        /\ (QueueOnce' <=> WaitOnce(queue', srv', asking'))
    BY SameConcurrency
  <1>5. \A t \in Servers : LinesOwn(srv[t], child'[t]) /\ LinesOnce(srv[t], child'[t])
    BY <1>1, <1>3 DEF ServersOkay
  <1>6. Unlisted(servers, srv, child')
    BY <1>1, <1>3 DEF ServersOkay, Unlisted
  <1>7. ServersOkay(servers, srv, child')
    BY <1>1, <1>3, <1>5, <1>6 DEF ServersOkay
  <1>8. ServersOkay(servers, srv, child)'
    BY <1>4, <1>7
  <1>9. TypeOK'
    BY <1>1, <1>4, <1>8 DEF TypeOK, ServersOkay, config
  <1>10. QueueOnce'
    BY <1>1, <1>4 DEF QueueOnce
  <1>11. Full' /\ Counted'
    BY <1>1, <1>4 DEF Full, Counted, Open
  <1>12. Reading'
    <2>1. CASE main.loop = "read"
      <3>1. main.srv \in Servers /\ main.srv \in Range(servers)
            /\ main.left <= Len(child[main.srv].said)
        BY <1>1, <1>2, <2>1 DEF Reading
      <3>2. main.left \in Nat
        BY <1>1 DEF TypeOK
      <3>3. Len(child[main.srv].said) \in Nat /\ Len(d.said) \in Nat
        BY <1>2, <3>1, LenProperties DEF ChildType
      <3>4. main.left <= Len(child'[main.srv].said)
        BY <1>3, <3>1, <3>2, <3>3
      <3>. QED
        BY <2>1, <3>1, <3>4 DEF Reading
    <2>2. CASE main.loop # "read"
      BY <2>2, <1>1 DEF Reading
    <2>. QED
      BY <2>1, <2>2
  <1>. QED
    BY <1>8, <1>9, <1>10, <1>11, <1>12 DEF HelperInv

(* A process answers a line.                                                 *)
LEMMA AnswerKeeps ==
  ASSUME HelperInv, NEW s \in Servers, NEW i \in Slots, Answer(s, i)
  PROVE  HelperInv'
  <1>. DEFINE L == Slots \X Requests
              c == child[s]
  <1>1. PICK r \in Requests :
           /\ <<i, r>> \in child[s].got
           /\ child' = [child EXCEPT ![s].got = @ \ {<<i, r>>},
                                     ![s].said = Append(@, <<i, r>>)]
    BY DEF Answer
  <1>2. TypeOK /\ ServersOkay(servers, srv, child)
    BY DEF HelperInv
  <1>3. /\ c \in ChildType /\ child \in [Servers -> ChildType]
        /\ LinesOwn(srv[s], c) /\ LinesOnce(srv[s], c)
    BY <1>2 DEF ServersOkay
  <1>4. s \in Range(servers)
    BY <1>1, <1>2, ListedHasLines
  <1>5. c.said \in Seq(L) /\ c.got \subseteq L /\ c.alive \in BOOLEAN
        /\ c = [alive |-> c.alive, got |-> c.got, said |-> c.said]
    BY <1>3 DEF ChildType
  <1>6. PICK line \in L : line = <<i, r>>
    OBVIOUS
  <1>7. PICK d : d = [alive |-> c.alive, got |-> c.got \ {line}, said |-> Append(c.said, line)]
    OBVIOUS
  <1>8. child' = [child EXCEPT ![s] = d]
    BY <1>1, <1>3, <1>6, <1>7 DEF ChildType
  <1>. HIDE DEF L, c
  <1>9. d.got = c.got \ {line} /\ d.said = Append(c.said, line) /\ line \in c.got
    BY <1>1, <1>6, <1>7 DEF c
  <1>10. LinesOwn(srv[s], d) /\ LinesOnce(srv[s], d)
    BY <1>3, <1>5, <1>9, AnswerLines
  <1>11. Append(c.said, line) \in Seq(L) /\ Len(Append(c.said, line)) = Len(c.said) + 1
         /\ Len(c.said) \in Nat
    BY <1>5, AppendProperties, LenProperties
  <1>12. d \in ChildType
    BY <1>5, <1>7, <1>11 DEF ChildType, L
  <1>13. Len(child[s].said) <= Len(d.said)
    BY <1>9, <1>11 DEF c
  <1>. QED
    BY <1>4, <1>8, <1>10, <1>12, <1>13, ProcessStep DEF Answer

(* A process dies.                                                           *)
LEMMA DieKeeps ==
  ASSUME HelperInv, NEW s \in Servers, Die(s)
  PROVE  HelperInv'
  <1>. DEFINE c == child[s]
  <1>1. s \in Range(servers) /\ child' = [child EXCEPT ![s].alive = FALSE, ![s].got = {}]
    BY DEF Die, Listed
  <1>2. TypeOK /\ ServersOkay(servers, srv, child)
    BY DEF HelperInv
  <1>3. /\ c \in ChildType /\ child \in [Servers -> ChildType]
        /\ LinesOwn(srv[s], c) /\ LinesOnce(srv[s], c)
    BY <1>2 DEF ServersOkay
  <1>4. PICK d : d = [c EXCEPT !.alive = FALSE, !.got = {}]
    OBVIOUS
  <1>5. child' = [child EXCEPT ![s] = d]
    BY <1>1, <1>3, <1>4
  <1>6. d.got = {} /\ d.said = c.said
    BY <1>3, <1>4 DEF ChildType
  <1>51. d \in ChildType
    BY <1>3, <1>4 DEF ChildType
  <1>7. LinesOwn(srv[s], d) /\ LinesOnce(srv[s], d)
    BY <1>3, <1>6, DieLines
  <1>8. Len(child[s].said) \in Nat
    BY <1>3, LenProperties DEF ChildType
  <1>9. Len(child[s].said) <= Len(d.said)
    BY <1>6, <1>8
  <1>. QED
    BY <1>1, <1>5, <1>51, <1>7, <1>9, ProcessStep DEF Die
(* helperDispatch_done: the lines move on to the process.                    *)
LEMMA DoneKeeps ==
  ASSUME HelperInv, NEW s \in Servers, helperDispatch_done(s)
  PROVE  HelperInv'
  <1>. DEFINE L == Slots \X Requests
              v == srv[s]
              c == child[s]
  <1>1. /\ s \in Range(servers)
        /\ child' = [child EXCEPT ![s].got = @ \cup Range(srv[s].writing)]
        /\ srv' = [srv EXCEPT ![s].writing = srv[s].wqueue, ![s].wqueue = <<>>]
        /\ UNCHANGED <<servers, queue, n_running, n_active, recent, asking, main,
                       config, fatal>>
    BY DEF helperDispatch_done, Listed
  <1>2. /\ TypeOK /\ ServersOkay(servers, srv, child) /\ QueueOnce /\ Reading
        /\ Full /\ Counted
    BY DEF HelperInv
  <1>3. /\ v \in ServerType /\ srv \in [Servers -> ServerType]
        /\ c \in ChildType /\ child \in [Servers -> ChildType]
        /\ LinesOwn(v, c) /\ LinesOnce(v, c)
    BY <1>2 DEF ServersOkay
  <1>4. PICK w : w = [v EXCEPT !.writing = v.wqueue, !.wqueue = <<>>]
    OBVIOUS
  <1>5. PICK d : d = [c EXCEPT !.got = c.got \cup Range(v.writing)]
    OBVIOUS
  <1>6. srv' = [srv EXCEPT ![s] = w]
    BY <1>1, <1>3, <1>4
  <1>7. child' = [child EXCEPT ![s] = d]
    BY <1>1, <1>3, <1>5
  <1>71. /\ w.requests = v.requests /\ w.writing = v.wqueue /\ w.wqueue = <<>>
         /\ w.pending = v.pending /\ w.shutdown = v.shutdown
    BY <1>3, <1>4 DEF ServerType
  <1>72. d.got = c.got \cup Range(v.writing) /\ d.said = c.said /\ d.alive = c.alive
    BY <1>3, <1>5 DEF ChildType
  <1>8. /\ v.requests \in [Slots -> Requests \cup {None}] /\ v.pending \in 0..concurrency
        /\ v.shutdown \in BOOLEAN /\ v.writing \in Seq(L) /\ v.wqueue \in Seq(L)
    BY <1>3 DEF ServerType
  <1>9. c.alive \in BOOLEAN /\ c.got \subseteq L /\ c.said \in Seq(L)
    BY <1>3 DEF ChildType
  <1>. HIDE DEF L, v, c
  <1>10. <<>> \in Seq(L) /\ Range(v.writing) \subseteq L
    BY <1>8, RangeOfSeq
  <1>11. w \in ServerType
    BY <1>3, <1>4, <1>8, <1>10 DEF ServerType, L
  <1>12. c.got \cup Range(v.writing) \in SUBSET L
    BY <1>9, <1>10
  <1>13. d \in ChildType
    BY <1>3, <1>5, <1>9, <1>12 DEF ChildType, L
  <1>15. LinesOwn(w, d) /\ LinesOnce(w, d)
    BY <1>3, <1>71, <1>72, DoneLines
  <1>16. /\ srv' \in [Servers -> ServerType] /\ srv'[s] = w
         /\ child' \in [Servers -> ChildType] /\ child'[s] = d
         /\ \A t \in Servers \ {s} : srv'[t] = srv[t] /\ child'[t] = child[t]
    BY <1>3, <1>6, <1>7, <1>11, <1>13
  <1>17. \A t \in Servers : /\ srv'[t].requests = srv[t].requests
                            /\ srv'[t].pending = srv[t].pending
                            /\ srv'[t].shutdown = srv[t].shutdown
                            /\ child'[t].said = child[t].said
    BY <1>71, <1>72, <1>16 DEF v, c
  <1>. HIDE DEF HelperInv
  <1>18. \A t \in Servers : HeldBy(srv', t) = HeldBy(srv, t)
    BY <1>17 DEF HeldBy
  <1>19. \A t \in Servers : LinesOwn(srv'[t], child'[t]) /\ LinesOnce(srv'[t], child'[t])
    BY <1>2, <1>15, <1>16 DEF ServersOkay
  <1>20. Unlisted(servers, srv', child')
    BY <1>1, <1>2, <1>16 DEF ServersOkay, Unlisted
  <1>21. HeldOnce(srv')
    BY <1>2, <1>17 DEF ServersOkay, HeldOnce
  <1>22. \A t \in Servers : srv'[t].pending = Cardinality(HeldBy(srv', t))
    BY <1>2, <1>17, <1>18 DEF ServersOkay
  <1>23. ServersOkay(servers, srv', child')
    BY <1>2, <1>16, <1>19, <1>20, <1>21, <1>22 DEF ServersOkay
  <1>24. /\ concurrency' = concurrency
         /\ (ServersOkay(servers, srv, child)' <=> ServersOkay(servers', srv', child'))
         /\ (QueueOnce' <=> WaitOnce(queue', srv', asking'))
    BY <1>1, SameConcurrency
  <1>25. ServersOkay(servers, srv, child)'
    BY <1>1, <1>23, <1>24
  <1>26. TypeOK'
    BY <1>1, <1>2, <1>24, <1>25 DEF TypeOK, ServersOkay, config
  <1>27. WaitOnce(queue, srv', asking)
    BY <1>2, <1>18 DEF QueueOnce, WaitOnce
  <1>28. QueueOnce'
    BY <1>1, <1>24, <1>27
  <1>29. Range(servers) \subseteq Servers
    BY <1>2, RangeOfSeq DEF TypeOK
  <1>30. Open(servers, srv)' = Open(servers, srv)
    BY <1>1, <1>17, <1>29 DEF Open
  <1>31. \A t \in Open(servers, srv) : srv'[t].pending = srv[t].pending
    BY <1>17, <1>29 DEF Open
  <1>32. Full' /\ Counted'
    BY <1>1, <1>2, <1>24, <1>30, <1>31 DEF Full, Counted
  <1>33. Reading'
    BY <1>1, <1>2, <1>17, <1>29 DEF Reading
  <1>. QED
    BY <1>25, <1>26, <1>28, <1>32, <1>33 DEF HelperInv

(* helperHandleRead begins to read what a process has said.                  *)
LEMMA HandleReadKeeps ==
  ASSUME HelperInv, NEW s \in Servers, helperHandleRead(s)
  PROVE  HelperInv'
  <1>1. /\ TypeOK /\ ServersOkay(servers, srv, child) /\ QueueOnce /\ Reading
        /\ Full /\ Counted
    BY DEF HelperInv
  <1>2. PICK k \in 1..Len(child[s].said) : main' = [loop |-> "read", srv |-> s, left |-> k]
    BY DEF helperHandleRead
  <1>3. /\ s \in Range(servers) /\ main.loop = "none" /\ fatal = ""
        /\ UNCHANGED <<servers, srv, child, queue, n_running, n_active, recent,
                       asking, config, fatal>>
    BY DEF helperHandleRead, Running, Listed
  <1>4. Len(child[s].said) \in Nat
    BY <1>1, LenProperties DEF TypeOK, ChildType
  <1>5. k \in Nat /\ k <= Len(child[s].said)
    BY <1>2, <1>4
  <1>6. /\ concurrency' = concurrency
        /\ (ServersOkay(servers, srv, child)' <=> ServersOkay(servers', srv', child'))
        /\ (QueueOnce' <=> WaitOnce(queue', srv', asking'))
    BY <1>3, SameConcurrency
  <1>7. ServersOkay(servers, srv, child)' /\ QueueOnce'
    BY <1>1, <1>3, <1>6 DEF QueueOnce
  <1>8. main' \in [loop : {"none", "read", "kick"}, srv : Servers \cup {None}, left : Nat]
    BY <1>2, <1>5
  <1>9. TypeOK'
    BY <1>1, <1>3, <1>6, <1>7, <1>8 DEF TypeOK, ServersOkay, config
  <1>10. Reading'
    BY <1>2, <1>3, <1>5 DEF Reading
  <1>11. main.srv = None /\ None \notin Servers /\ Range(servers) \subseteq Servers
    BY <1>1, <1>3, Constants, RangeOfSeq DEF Reading, TypeOK
  <1>12. Full' /\ Counted'
    BY <1>1, <1>2, <1>3, <1>6, <1>11 DEF Full, Counted, Open
  <1>. QED
    BY <1>7, <1>9, <1>10, <1>12 DEF HelperInv
(* An answer is read: the requester is told, and its channel is free.        *)
LEMMA ReadAnswerKeeps ==
  ASSUME HelperInv, NEW s \in Servers, ReadAnswer(s)
  PROVE  HelperInv'
  <1>. DEFINE v == srv[s]
              c == child[s]
  <1>1. /\ TypeOK /\ ServersOkay(servers, srv, child) /\ QueueOnce /\ Reading
        /\ Full /\ Counted
    BY DEF HelperInv
  <1>2. /\ main.loop = "read" /\ main.srv = s /\ main.left > 0
        /\ child' = [child EXCEPT ![s].said = Tail(@)]
        /\ main' = [main EXCEPT !.left = @ - 1]
        /\ UNCHANGED <<servers, queue, n_running, n_active, recent, config, fatal>>
    BY DEF ReadAnswer
  <1>3. /\ v \in ServerType /\ srv \in [Servers -> ServerType]
        /\ c \in ChildType /\ child \in [Servers -> ChildType]
        /\ LinesOwn(v, c) /\ LinesOnce(v, c) /\ None \notin Requests
        /\ s \in Range(servers) /\ main.left <= Len(c.said) /\ concurrency \in Nat
        /\ main \in [loop : {"none", "read", "kick"}, srv : Servers \cup {None}, left : Nat]
    BY <1>1, <1>2, Constants DEF ServersOkay, Reading, TypeOK
  <1>4. c.said \in Seq(Slots \X Requests) /\ main.left \in Nat
    BY <1>3 DEF ChildType
  <1>5. c.said # <<>>
    BY <1>2, <1>3, <1>4
  <1>6. PICK line : line = c.said[1]
    OBVIOUS
  <1>7. line \in Slots \X Requests
    <2>. DEFINE L == Slots \X Requests
    <2>. HIDE DEF L
    <2>1. c.said \in Seq(L)
      BY <1>4 DEF L
    <2>2. Head(c.said) \in L
      BY <1>5, <2>1, RangeOfTail
    <2>3. Head(c.said) = line
      BY <1>6, <2>1
    <2>. QED
      BY <2>2, <2>3 DEF L
  <1>8. v.requests[line[1]] = line[2]
    <2>1. line \in Range(c.said)
      <3>1. Len(c.said) \in Nat /\ Len(c.said) # 0 /\ DOMAIN c.said = 1..Len(c.said)
        BY <1>4, <1>5, EmptySeq, LenProperties
      <3>2. 1 \in DOMAIN c.said
        BY <3>1
      <3>. QED
        BY <3>2, <1>6 DEF Range
    <2>. QED
      BY <2>1, <1>3 DEF LinesOwn, Lines
  <1>9. PICK k \in Slots, r \in Requests : line = <<k, r>> /\ v.requests[k] = r
    BY <1>7, <1>8
  <1>10. r # None /\ k = c.said[1][1]
    BY <1>3, <1>6, <1>9
  <1>11. /\ srv' = [srv EXCEPT ![s].requests[k] = None, ![s].pending = @ - 1]
         /\ asking' = asking \ {r}
    BY <1>9, <1>10 DEF ReadAnswer
  <1>12. PICK w : w = [v EXCEPT !.requests = [v.requests EXCEPT ![k] = None],
                                !.pending = v.pending - 1]
    OBVIOUS
  <1>13. PICK d : d = [c EXCEPT !.said = Tail(c.said)]
    OBVIOUS
  <1>14. srv' = [srv EXCEPT ![s] = w]
    BY <1>3, <1>11, <1>12 DEF ServerType
  <1>15. child' = [child EXCEPT ![s] = d]
    BY <1>2, <1>3, <1>13
  <1>16. /\ w.requests = [v.requests EXCEPT ![k] = None] /\ w.pending = v.pending - 1
         /\ w.shutdown = v.shutdown /\ w.writing = v.writing /\ w.wqueue = v.wqueue
    BY <1>3, <1>12 DEF ServerType
  <1>17. d.got = c.got /\ d.said = Tail(c.said) /\ d.alive = c.alive
    BY <1>3, <1>13 DEF ChildType
  <1>18. /\ v.requests \in [Slots -> Requests \cup {None}] /\ v.pending \in 0..concurrency
    BY <1>3 DEF ServerType
  <1>19. d \in ChildType /\ Len(d.said) = Len(c.said) - 1 /\ Len(c.said) \in Nat
    <2>1. Tail(c.said) \in Seq(Slots \X Requests) /\ Len(Tail(c.said)) = Len(c.said) - 1
          /\ Len(c.said) \in Nat
      <3>. DEFINE L == Slots \X Requests
      <3>. HIDE DEF L
      <3>1. c.said \in Seq(L)
        BY <1>4 DEF L
      <3>2. Tail(c.said) \in Seq(L) /\ Len(Tail(c.said)) = Len(c.said) - 1 /\ Len(c.said) \in Nat
        BY <1>5, <3>1, RangeOfTail, LenProperties
      <3>. QED
        BY <3>2 DEF L
    <2>. HIDE DEF c
    <2>2. d \in ChildType
      BY <2>1, <1>3, <1>13 DEF ChildType
    <2>. QED
      BY <2>1, <2>2, <1>17
  <1>. HIDE DEF v, c
  <1>20. \A i \in Slots : w.requests[i] = IF i = k THEN None ELSE v.requests[i]
    BY <1>16, <1>18
  <1>21. /\ \A i \in Slots : v.requests[i] = r => i = k
         /\ \A t \in Servers \ {s} : \A i \in Slots : srv[t].requests[i] # r
    BY <1>1, <1>9, <1>10 DEF ServersOkay, HeldOnce, v
  <1>22. srv'[s] = w /\ \A t \in Servers \ {s} : srv'[t] = srv[t]
    BY <1>3, <1>14
  <1>23. /\ HeldBy(srv', s) = HeldBy(srv, s) \ {r} /\ r \in HeldBy(srv, s)
         /\ \A t \in Servers \ {s} : HeldBy(srv', t) = HeldBy(srv, t) /\ r \notin HeldBy(srv, t)
    BY <1>9, <1>10, <1>20, <1>21, <1>22 DEF HeldBy, v
  <1>24. w.pending = Cardinality(HeldBy(srv', s)) /\ w.pending \in 0..concurrency
    <2>1. HeldBy(srv, s) \subseteq Requests
      BY <1>18 DEF HeldBy, v
    <2>2. IsFiniteSet(HeldBy(srv, s)) /\ v.pending = Cardinality(HeldBy(srv, s))
      BY <2>1, <1>1, Constants, FS_Subset DEF ServersOkay, v
    <2>3. /\ Cardinality(HeldBy(srv, s) \ {r}) = v.pending - 1
          /\ IsFiniteSet(HeldBy(srv, s) \ {r})
      BY <2>2, <1>23, FS_RemoveElement
    <2>4. v.pending - 1 \in Nat
      BY <2>3, FS_CardinalityType
    <2>. QED
      BY <2>3, <2>4, <1>3, <1>16, <1>18, <1>23
  <1>25. w \in ServerType
    <2>1. [v.requests EXCEPT ![k] = None] \in [Slots -> Requests \cup {None}]
      BY <1>18
    <2>2. v.pending - 1 \in 0..concurrency
      BY <1>16, <1>24
    <2>. QED
      BY <1>3, <1>12, <2>1, <2>2 DEF ServerType
  <1>26. LinesOwn(w, d) /\ LinesOnce(w, d)
    <2>1. w.requests = [v.requests EXCEPT ![c.said[1][1]] = None]
      BY <1>10, <1>16
    <2>. QED
      BY <2>1, <1>3, <1>5, <1>16, <1>17, <1>25, ReadLines
  <1>27. /\ srv' \in [Servers -> ServerType]
         /\ child' \in [Servers -> ChildType] /\ child'[s] = d
         /\ \A t \in Servers \ {s} : child'[t] = child[t]
    BY <1>3, <1>14, <1>15, <1>19, <1>25
  <1>28. \A t \in Servers : LinesOwn(srv'[t], child'[t]) /\ LinesOnce(srv'[t], child'[t])
    BY <1>1, <1>22, <1>26, <1>27 DEF ServersOkay
  <1>29. Unlisted(servers, srv', child')
    BY <1>1, <1>3, <1>22, <1>27 DEF ServersOkay, Unlisted
  <1>30. HeldOnce(srv')
    <2>1. HeldOnce(srv)
      BY <1>1 DEF ServersOkay
    <2>2. \A t \in Servers : \A i \in Slots :
             srv'[t].requests[i] = IF t = s /\ i = k THEN None ELSE srv[t].requests[i]
      BY <1>20, <1>22 DEF v
    <2>. QED
      BY <2>1, <2>2 DEF HeldOnce
  <1>31. \A t \in Servers : srv'[t].pending = Cardinality(HeldBy(srv', t))
    BY <1>1, <1>22, <1>23, <1>24 DEF ServersOkay
  <1>32. ServersOkay(servers, srv', child')
    BY <1>1, <1>27, <1>28, <1>29, <1>30, <1>31 DEF ServersOkay
  <1>33. /\ concurrency' = concurrency
         /\ (ServersOkay(servers, srv, child)' <=> ServersOkay(servers', srv', child'))
         /\ (QueueOnce' <=> WaitOnce(queue', srv', asking'))
    BY <1>2, SameConcurrency
  <1>34. ServersOkay(servers, srv, child)'
    BY <1>2, <1>32, <1>33
  <1>35. WaitOnce(queue, srv', asking')
    <2>1. WaitOnce(queue, srv, asking)
      BY <1>1 DEF QueueOnce
    <2>2. r \notin Range(queue)
      BY <2>1, <1>23 DEF WaitOnce
    <2>3. \A t \in Servers : HeldBy(srv', t) = HeldBy(srv, t) \ {r}
      BY <1>23
    <2>. QED
      BY <2>1, <2>2, <2>3, <1>11 DEF WaitOnce
  <1>36. QueueOnce'
    BY <1>2, <1>33, <1>35
  <1>37. /\ main' \in [loop : {"none", "read", "kick"}, srv : Servers \cup {None}, left : Nat]
         /\ main'.loop = "read" /\ main'.srv = s /\ main'.left = main.left - 1
    BY <1>2, <1>3
  <1>38. TypeOK'
    BY <1>1, <1>2, <1>11, <1>33, <1>34, <1>37 DEF TypeOK, ServersOkay, config
  <1>39. Reading'
    <2>1. main.left - 1 <= Len(d.said)
      BY <1>3, <1>4, <1>19
    <2>. QED
      BY <2>1, <1>2, <1>3, <1>27, <1>37 DEF Reading
  <1>40. Range(servers) \subseteq Servers
    BY <1>1, RangeOfSeq DEF TypeOK
  <1>41. Open(servers, srv)' = Open(servers, srv)
    BY <1>2, <1>3, <1>16, <1>22, <1>40 DEF Open, v
  <1>42. \A t \in Open(servers, srv) : t # s => srv'[t].pending = srv[t].pending
    BY <1>22, <1>40 DEF Open
  <1>43. Full'
    BY <1>1, <1>2, <1>33, <1>37, <1>41, <1>42 DEF Full
  <1>44. Counted'
    BY <1>1, <1>2, <1>41 DEF Counted
  <1>. QED
    BY <1>34, <1>36, <1>38, <1>39, <1>43, <1>44 DEF HelperInv

(* helperKickQueue: the first request of the queue is given away, or the     *)
(* queue is empty or nobody can take it.                                     *)
LEMMA KickKeeps ==
  ASSUME HelperInv, helperKickQueue
  PROVE  HelperInv'
  <1>. DEFINE s0 == GetFirstAvailable(servers, srv)
  <1>1. /\ TypeOK /\ ServersOkay(servers, srv, child) /\ QueueOnce /\ Reading
        /\ Full /\ Counted
    BY DEF HelperInv
  <1>2. PICK s : s = s0
    OBVIOUS
  <1>3. /\ main.loop = "kick"
        /\ IF s # None /\ queue # <<>>
           THEN /\ srv' = helperDispatch(srv, s, Head(queue))
                /\ queue' = Tail(queue) /\ main' = main
           ELSE main' = Idle /\ UNCHANGED <<srv, queue>>
        /\ UNCHANGED <<servers, child, n_running, n_active, recent, asking,
                       config, fatal>>
    BY <1>2 DEF helperKickQueue
  <1>4. /\ s # None => /\ s \in Open(servers, srv) /\ s \in Servers
                       /\ s \in Range(servers) /\ srv[s].pending < concurrency
        /\ s = None => \A t \in Open(servers, srv) : srv[t].pending = concurrency
    BY <1>1, <1>2, Available
  <1>. HIDE DEF s0
  <1>5. /\ concurrency' = concurrency
        /\ (ServersOkay(servers, srv, child)' <=> ServersOkay(servers', srv', child'))
        /\ (QueueOnce' <=> WaitOnce(queue', srv', asking'))
    BY <1>3, SameConcurrency
  <1>6. CASE s # None /\ queue # <<>>
    <2>1. /\ queue \in Seq(Requests) /\ WaitOnce(queue, srv, asking)
          /\ Range(servers) \subseteq Servers
      BY <1>1, RangeOfSeq DEF TypeOK, QueueOnce
    <2>2. PICK r : r = Head(queue)
      OBVIOUS
    <2>3. /\ r \in Requests /\ queue' \in Seq(Requests) /\ Range(queue) = {r} \cup Range(queue')
          /\ IsInjective(queue') /\ r \notin Range(queue')
      <3>1. queue' = Tail(queue) /\ IsInjective(queue) /\ queue # <<>>
        BY <1>3, <1>6, <2>1 DEF WaitOnce
      <3>2. /\ Head(queue) \in Requests /\ Tail(queue) \in Seq(Requests)
            /\ Range(queue) = {Head(queue)} \cup Range(Tail(queue))
        BY <2>1, <3>1, RangeOfTail
      <3>3. IsInjective(Tail(queue)) /\ Head(queue) \notin Range(Tail(queue))
        BY <2>1, <3>1, TailOnce
      <3>. QED
        BY <2>2, <3>1, <3>2, <3>3
    <2>4. \A t \in Servers : r \notin HeldBy(srv, t)
      BY <2>1, <2>3 DEF WaitOnce
    <2>5. srv' = helperDispatch(srv, s, r) /\ main' = main
      BY <1>3, <1>6, <2>2
    <2>6. s \in Range(servers) /\ srv[s].pending < concurrency /\ s \in Servers
      BY <1>4, <1>6
    <2>7. /\ ServersOkay(servers, srv', child)
          /\ HeldBy(srv', s) = HeldBy(srv, s) \cup {r}
          /\ srv'[s].shutdown = srv[s].shutdown
          /\ \A t \in Servers \ {s} : srv'[t] = srv[t]
      BY <1>1, <2>3, <2>4, <2>5, <2>6, DispatchServer
    <2>8. \A t \in Servers \ {s} : HeldBy(srv', t) = HeldBy(srv, t)
      BY <2>7 DEF HeldBy
    <2>9. ServersOkay(servers, srv, child)'
      BY <1>3, <1>5, <2>7
    <2>10. TypeOK'
      BY <1>1, <1>3, <1>5, <2>3, <2>5, <2>9 DEF TypeOK, ServersOkay, config
    <2>11. \A t \in Servers : HeldBy(srv', t) = IF t = s THEN HeldBy(srv, t) \cup {r}
                                                ELSE HeldBy(srv, t)
      BY <2>7, <2>8
    <2>12. WaitOnce(queue', srv', asking)
      BY <2>1, <2>3, <2>6, <2>11 DEF WaitOnce
    <2>13. QueueOnce'
      BY <1>3, <1>5, <2>12
    <2>14. Open(servers, srv)' = Open(servers, srv)
      BY <1>3, <2>1, <2>6, <2>7 DEF Open
    <2>15. Reading' /\ Full' /\ Counted'
      BY <1>1, <1>3, <2>5, <2>14 DEF Reading, Full, Counted
    <2>. QED
      BY <2>9, <2>10, <2>13, <2>15 DEF HelperInv
  <1>7. CASE ~(s # None /\ queue # <<>>)
    <2>1. main' = Idle /\ srv' = srv /\ queue' = queue
      BY <1>3, <1>7
    <2>2. main'.loop = "none" /\ main'.srv = None
          /\ main' \in [loop : {"none", "read", "kick"}, srv : Servers \cup {None}, left : Nat]
      BY <2>1 DEF Idle
    <2>3. ServersOkay(servers, srv, child)' /\ QueueOnce'
      BY <1>1, <1>3, <1>5, <2>1 DEF QueueOnce
    <2>4. TypeOK'
      BY <1>1, <1>3, <1>5, <2>1, <2>2, <2>3 DEF TypeOK, ServersOkay, config
    <2>5. Reading' /\ Counted'
      BY <1>1, <1>3, <2>1, <2>2 DEF Reading, Counted, Open
    <2>6. Full'
      BY <1>3, <1>4, <1>5, <1>7, <2>1, <2>2 DEF Full, Open
    <2>. QED
      BY <2>3, <2>4, <2>5, <2>6 DEF HelperInv
  <1>. QED
    BY <1>6, <1>7
(* helperOpenServers adds as many processes as it is to.                     *)
LEMMA OpenStep ==
  ASSUME TypeOK, NEW list, NEW sv, NEW ch, ServersOkay(list, sv, ch),
         helperOpenServers(list, sv, ch)
  PROVE  /\ ServersOkay(servers', srv', child')
         /\ Len(servers') = Len(list) + n_to_start
         /\ Cardinality(Open(servers', srv')) = Cardinality(Open(list, sv)) + n_to_start
         /\ \A s \in Servers : HeldBy(srv', s) = HeldBy(sv, s)
         /\ recent' = TRUE
         /\ main' = [loop |-> "kick", srv |-> None, left |-> 0]
  <1>. DEFINE free == Servers \ Range(list)
              new0 == CHOOSE x \in SUBSET free : Cardinality(x) = n_to_start
  <1>1. /\ Cardinality(free) >= n_to_start
        /\ servers' = list \o SetToSeq(new0)
        /\ srv' = [s \in Servers |-> IF s \in new0 THEN NewServer ELSE sv[s]]
        /\ child' = [s \in Servers |-> IF s \in new0 THEN NewChild ELSE ch[s]]
        /\ recent' = TRUE
        /\ main' = [loop |-> "kick", srv |-> None, left |-> 0]
    BY DEF helperOpenServers
  <1>2. IsFiniteSet(Servers) /\ n_to_start \in Nat
    BY Constants
  <1>3. free \subseteq Servers /\ IsFiniteSet(free) /\ Cardinality(free) \in Nat
    BY <1>2, FS_Subset, FS_CardinalityType
  <1>. HIDE DEF free
  <1>4. n_to_start <= Cardinality(free)
    BY <1>1, <1>2, <1>3
  <1>5. \E x \in SUBSET free : Cardinality(x) = n_to_start
    BY <1>2, <1>3, <1>4, SubsetOfSize
  <1>6. new0 \in SUBSET free /\ Cardinality(new0) = n_to_start
    BY <1>5
  <1>. HIDE DEF new0
  <1>7. new0 \in SUBSET (Servers \ Range(list))
    BY <1>6 DEF free
  <1>8. /\ ServersOkay(servers', srv', child')
        /\ Len(servers') = Len(list) + n_to_start
        /\ Cardinality(Open(servers', srv')) = Cardinality(Open(list, sv)) + n_to_start
        /\ \A s \in Servers : HeldBy(srv', s) = HeldBy(sv, s)
    <2>1. PICK new : new = new0
      OBVIOUS
    <2>2. new \in SUBSET (Servers \ Range(list)) /\ Cardinality(new) = n_to_start
      BY <2>1, <1>6, <1>7
    <2>3. servers' = list \o SetToSeq(new)
      BY <2>1, <1>1
    <2>4. srv' = [s \in Servers |-> IF s \in new THEN NewServer ELSE sv[s]]
      BY <2>1, <1>1
    <2>5. child' = [s \in Servers |-> IF s \in new THEN NewChild ELSE ch[s]]
      BY <2>1, <1>1
    <2>. QED
      BY <2>2, <2>3, <2>4, <2>5, OpenServers
  <1>. QED
    BY <1>1, <1>8

(* More than half of at least one is at least one.                           *)
LEMMA MoreThanHalf ==
  ASSUME NEW a \in Nat, NEW n \in Nat \ {0}, ~(a * 2 <= n)
  PROVE  a > 0
  OBVIOUS

(* Nothing less.                                                             *)
LEMMA MinusZero ==
  ASSUME NEW n \in Nat
  PROVE  n - 0 = n
  OBVIOUS

(* helperServerFree: the requests of the process that is gone are answered,  *)
(* the others are untouched, and enough processes are left or squid exits.   *)
LEMMA FreeKeeps ==
  ASSUME HelperInv, NEW s \in Range(servers), helperServerFree(s, srv),
         main.loop # "kick", main.srv \in {None, s}
  PROVE  HelperInv'
  <1>. DEFINE list == Kept(servers, Servers \ {s})
              active == n_active - (IF srv[s].shutdown THEN 0 ELSE 1)
              gone == [srv EXCEPT ![s] = NewServer]
              dead == [child EXCEPT ![s] = [NewChild EXCEPT !.alive = FALSE]]
              restart == ~srv[s].shutdown /\ active * 2 <= n_to_start
  <1>1. /\ TypeOK /\ ServersOkay(servers, srv, child) /\ QueueOnce /\ Reading
        /\ Full /\ Counted
    BY DEF HelperInv
  <1>2. /\ asking' = asking \ HeldBy(srv, s)
        /\ IF restart /\ ~recent
           THEN /\ helperOpenServers(list, gone, dead)
                /\ n_running' = n_running - 1 + n_to_start
                /\ n_active' = active + n_to_start
                /\ fatal' = fatal
           ELSE /\ servers' = list /\ srv' = gone /\ child' = dead
                /\ n_running' = n_running - 1 /\ n_active' = active
                /\ main' = Idle /\ recent' = recent
                /\ fatal' = IF restart THEN "crashing too rapidly" ELSE fatal
        /\ UNCHANGED <<queue, config>>
    BY DEF helperServerFree, HeldBy
  <1>3. /\ servers \in Seq(Servers) /\ IsInjective(servers) /\ Range(servers) \subseteq Servers
        /\ srv \in [Servers -> ServerType] /\ child \in [Servers -> ChildType]
        /\ s \in Servers /\ IsFiniteSet(Servers) /\ n_to_start \in Nat \ {0}
        /\ n_running \in Nat /\ n_active \in Nat /\ None \notin Servers
        /\ recent \in BOOLEAN
    BY <1>1, RangeOfSeq, Constants DEF ServersOkay, TypeOK
  <1>4. NewServer \in ServerType
    BY <1>1, NewHolds
  <1>5. PICK c \in ChildType : c = [NewChild EXCEPT !.alive = FALSE] /\ c.got = {} /\ c.said = <<>>
    <2>1. NewChild \in ChildType /\ NewChild.got = {} /\ NewChild.said = <<>>
      BY DEF NewChild, ChildType
    <2>2. PICK c : c = [NewChild EXCEPT !.alive = FALSE]
      OBVIOUS
    <2>. HIDE DEF NewChild
    <2>3. c \in ChildType /\ c.got = {} /\ c.said = <<>>
      BY <2>1, <2>2 DEF ChildType
    <2>. QED
      BY <2>2, <2>3
  <1>6. list \in Seq(Servers) /\ IsInjective(list) /\ Range(list) = Range(servers) \cap (Servers \ {s})
    BY <1>3, KeptProperties
  <1>7. Range(list) = Range(servers) \ {s}
    BY <1>3, <1>6
  <1>8. /\ gone \in [Servers -> ServerType] /\ gone[s] = NewServer
        /\ \A t \in Servers \ {s} : gone[t] = srv[t]
    BY <1>3, <1>4
  <1>9. /\ dead \in [Servers -> ChildType] /\ dead[s] = c
        /\ \A t \in Servers \ {s} : dead[t] = child[t]
    BY <1>3, <1>5
  <1>10. PICK l1, sv1, ch1 : l1 = list /\ sv1 = gone /\ ch1 = dead
    OBVIOUS
  <1>11. PICK act : act = active
    OBVIOUS
  <1>12. /\ l1 = Kept(servers, Servers \ {s}) /\ l1 \in Seq(Servers) /\ IsInjective(l1)
         /\ Range(l1) = Range(servers) \ {s}
         /\ sv1 \in [Servers -> ServerType] /\ sv1[s] = NewServer
         /\ \A t \in Servers \ {s} : sv1[t] = srv[t]
         /\ ch1 \in [Servers -> ChildType] /\ ch1[s].got = {} /\ ch1[s].said = <<>>
         /\ \A t \in Servers \ {s} : ch1[t] = child[t]
    BY <1>5, <1>6, <1>7, <1>8, <1>9, <1>10
  <1>13. IF (~srv[s].shutdown /\ act * 2 <= n_to_start) /\ ~recent
           THEN /\ helperOpenServers(l1, sv1, ch1)
                /\ n_running' = n_running - 1 + n_to_start
                /\ n_active' = act + n_to_start
                /\ fatal' = fatal
           ELSE /\ servers' = l1 /\ srv' = sv1 /\ child' = ch1
                /\ n_running' = n_running - 1 /\ n_active' = act
                /\ main' = Idle /\ recent' = recent
                /\ fatal' = IF ~srv[s].shutdown /\ act * 2 <= n_to_start
                            THEN "crashing too rapidly" ELSE fatal
    BY <1>2, <1>10, <1>11
  <1>14. act = n_active - (IF srv[s].shutdown THEN 0 ELSE 1)
    BY <1>11
  <1>. HIDE DEF list, active, gone, dead, restart
  <1>15. \A t \in Range(l1) : t \in Servers \ {s}
    BY <1>3, <1>12
  <1>16. \A t \in Servers \ Range(l1) :
             sv1[t] = NewServer /\ ch1[t].got = {} /\ ch1[t].said = <<>>
    BY <1>1, <1>12 DEF ServersOkay, Unlisted
  <1>17. /\ ServersOkay(l1, sv1, ch1)
         /\ \A t \in Range(l1) : HeldBy(sv1, t) = HeldBy(srv, t)
         /\ \A t \in Servers \ Range(l1) : HeldBy(sv1, t) = {}
    <2>1. Stay(l1, sv1, ch1) /\ Unlisted(l1, sv1, ch1)
      BY <1>12, <1>15, <1>16 DEF Stay, Unlisted
    <2>0. PICK K : K = Servers \ {s}
      OBVIOUS
    <2>2. /\ l1 = Kept(servers, K)
          /\ sv1 \in [Servers -> ServerType] /\ ch1 \in [Servers -> ChildType]
      BY <1>12, <2>0
    <2>3. TypeOK /\ ServersOkay(servers, srv, child)
      BY <1>1
    <2>4. /\ ServersOkay(l1, sv1, ch1)
          /\ Range(l1) = Range(servers) \cap K /\ Range(l1) \subseteq Servers
          /\ \A t \in Range(l1) : HeldBy(sv1, t) = HeldBy(srv, t)
          /\ \A t \in Servers \ Range(l1) : HeldBy(sv1, t) = {}
      BY <2>1, <2>2, <2>3, CloseServers
    <2>. QED
      BY <2>4
  <1>18. Len(l1) = n_running - 1
    <2>1. IsFiniteSet(Range(servers)) /\ Cardinality(Range(servers)) = n_running
      BY <1>1, <1>3, LengthOfOnce DEF Counted
    <2>2. Cardinality(Range(l1)) = Len(l1)
      BY <1>12, LengthOfOnce
    <2>3. Cardinality(Range(servers) \ {s}) = n_running - 1
      BY <2>1, FS_RemoveElement
    <2>. QED
      BY <2>2, <2>3, <1>12
  <1>19. Open(l1, sv1) = Open(servers, srv) \ {s}
    BY <1>12, <1>15 DEF Open
  <1>20. /\ Cardinality(Open(l1, sv1)) = act /\ act \in Nat
    <2>1. IsFiniteSet(Open(servers, srv)) /\ Cardinality(Open(servers, srv)) = n_active
      BY <1>1, <1>3, FS_Subset DEF Open, Counted
    <2>2. s \in Open(servers, srv) <=> ~srv[s].shutdown
      BY DEF Open
    <2>3. IsFiniteSet(Open(servers, srv) \ {s})
          /\ Cardinality(Open(servers, srv) \ {s}) = act
      BY <2>1, <2>2, <1>3, <1>14, FS_RemoveElement
    <2>. QED
      BY <2>3, <1>19, FS_CardinalityType
  <1>21. Len(l1) \in Nat
    BY <1>12, LenProperties
  <1>22. /\ concurrency' = concurrency
         /\ (ServersOkay(servers, srv, child)' <=> ServersOkay(servers', srv', child'))
         /\ (QueueOnce' <=> WaitOnce(queue', srv', asking'))
         /\ queue' = queue
    BY <1>2, SameConcurrency
  <1>23. WaitOnce(queue, sv1, asking')
    <2>1. WaitOnce(queue, srv, asking)
      BY <1>1 DEF QueueOnce
    <2>2. \A t \in Servers \ {s} : HeldBy(sv1, t) = HeldBy(srv, t)
      BY <1>12 DEF HeldBy
    <2>3. HeldBy(sv1, s) = {}
      BY <1>12, <1>17, <1>3
    <2>4. \A t \in Servers \ {s} : HeldBy(srv, t) \cap HeldBy(srv, s) = {}
      BY <1>1, <1>3 DEF ServersOkay, HeldOnce, HeldBy
    <2>5. asking' = asking \ HeldBy(srv, s)
      BY <1>2
    <2>. QED
      BY <2>1, <2>2, <2>3, <2>4, <2>5, <1>3 DEF WaitOnce
  <1>24. CASE (~srv[s].shutdown /\ act * 2 <= n_to_start) /\ ~recent
    <2>1. /\ helperOpenServers(l1, sv1, ch1)
          /\ n_running' = n_running - 1 + n_to_start
          /\ n_active' = act + n_to_start
          /\ fatal' = fatal
      BY <1>13, <1>24
    <2>2. /\ ServersOkay(servers', srv', child')
          /\ Len(servers') = Len(l1) + n_to_start
          /\ Cardinality(Open(servers', srv')) = Cardinality(Open(l1, sv1)) + n_to_start
          /\ \A t \in Servers : HeldBy(srv', t) = HeldBy(sv1, t)
          /\ recent' = TRUE
          /\ main' = [loop |-> "kick", srv |-> None, left |-> 0]
      BY <1>1, <1>17, <2>1, OpenStep
    <2>3. ServersOkay(servers, srv, child)'
      BY <1>22, <2>2
    <2>4. WaitOnce(queue, srv', asking')
      BY <1>23, <2>2 DEF WaitOnce
    <2>5. QueueOnce'
      BY <1>22, <2>4
    <2>6. /\ main'.loop = "kick" /\ main'.srv = None
          /\ main' \in [loop : {"none", "read", "kick"}, srv : Servers \cup {None}, left : Nat]
      BY <2>2
    <2>7. n_running' \in Nat /\ n_active' \in Nat /\ n_active' > 0 /\ n_running' = Len(servers')
          /\ n_active' = Cardinality(Open(servers', srv'))
      BY <1>3, <1>18, <1>20, <1>21, <2>1, <2>2
    <2>8. TypeOK'
      BY <1>1, <1>2, <1>22, <2>1, <2>2, <2>3, <2>6, <2>7 DEF TypeOK, ServersOkay, config
    <2>9. Reading' /\ Full' /\ Counted'
      BY <2>6, <2>7 DEF Reading, Full, Counted, Open
    <2>. QED
      BY <2>3, <2>5, <2>8, <2>9 DEF HelperInv
  <1>25. CASE ~((~srv[s].shutdown /\ act * 2 <= n_to_start) /\ ~recent)
    <2>1. /\ servers' = l1 /\ srv' = sv1 /\ child' = ch1
          /\ n_running' = n_running - 1 /\ n_active' = act
          /\ main' = Idle /\ recent' = recent
          /\ fatal' = IF ~srv[s].shutdown /\ act * 2 <= n_to_start
                      THEN "crashing too rapidly" ELSE fatal
      BY <1>13, <1>25
    <2>2. ServersOkay(servers, srv, child)'
      BY <1>17, <1>22, <2>1
    <2>3. QueueOnce'
      BY <1>22, <1>23, <2>1
    <2>4. /\ main'.loop = "none" /\ main'.srv = None
          /\ main' \in [loop : {"none", "read", "kick"}, srv : Servers \cup {None}, left : Nat]
      BY <2>1 DEF Idle
    <2>5. n_running' \in Nat /\ n_active' \in Nat /\ n_running' = Len(servers')
          /\ n_active' = Cardinality(Open(servers', srv'))
      BY <1>18, <1>20, <1>21, <2>1
    <2>6. fatal' # "crashing too rapidly" => n_active' > 0
      <3>. SUFFICES ASSUME fatal' # "crashing too rapidly" PROVE act > 0
        BY <2>1
      <3>1. ~(~srv[s].shutdown /\ act * 2 <= n_to_start) /\ fatal # "crashing too rapidly"
        BY <2>1
      <3>2. CASE srv[s].shutdown
        <4>1. act = n_active - 0 /\ n_active \in Nat
          BY <1>3, <1>14, <3>2
        <4>2. n_active > 0
          BY <3>1, <1>1 DEF Counted
        <4>3. n_active - 0 = n_active
          BY <4>1, MinusZero
        <4>. QED
          BY <4>1, <4>2, <4>3
      <3>3. CASE ~srv[s].shutdown
        <4>1. ~(act * 2 <= n_to_start)
          BY <3>1, <3>3
        <4>2. act \in Nat /\ n_to_start \in Nat \ {0}
          BY <1>3, <1>20
        <4>. QED
          BY <4>1, <4>2, MoreThanHalf
      <3>. QED
        BY <3>2, <3>3
    <2>7. TypeOK'
      BY <1>1, <1>2, <1>22, <2>1, <2>2, <2>4, <2>5 DEF TypeOK, ServersOkay, config
    <2>8. Full'
      <3>. SUFFICES ASSUME fatal' = "", queue' # <<>>, NEW t \in Open(servers', srv')
                    PROVE  srv'[t].pending = concurrency'
        BY DEF Full, Open
      <3>1. fatal = "" /\ queue # <<>>
        BY <1>22, <2>1
      <3>2. t \in Open(servers, srv) /\ t # s /\ t \in Servers
        BY <1>3, <1>19, <2>1 DEF Open
      <3>3. t # main.srv
        BY <3>2, <1>3
      <3>4. srv[t].pending = concurrency
        BY <3>1, <3>2, <3>3, <1>1 DEF Full
      <3>. QED
        BY <3>2, <3>4, <1>12, <1>22, <2>1
    <2>9. Reading' /\ Counted'
      BY <2>4, <2>5, <2>6 DEF Reading, Counted, Open
    <2>. QED
      BY <2>2, <2>3, <2>7, <2>8, <2>9 DEF HelperInv
  <1>. QED
    BY <1>24, <1>25
(* The process has closed its end.                                           *)
LEMMA ReadEofKeeps ==
  ASSUME HelperInv, NEW s \in Servers, ReadEof(s)
  PROVE  HelperInv'
  <1>1. s \in Range(servers) /\ main.loop = "none" /\ helperServerFree(s, srv)
    BY DEF ReadEof, Running, Listed
  <1>2. main.srv = None
    BY <1>1 DEF HelperInv, Reading
  <1>3. main.loop # "kick" /\ main.srv \in {None, s}
    BY <1>1, <1>2
  <1>. QED
    BY <1>1, <1>3, FreeKeeps

(* The end of helperHandleRead: a server that has nothing more to do is      *)
(* closed when it was to be, and otherwise the queue is kicked.              *)
LEMMA ReadEndKeeps ==
  ASSUME HelperInv, NEW s \in Servers, ReadEnd(s)
  PROVE  HelperInv'
  <1>1. /\ TypeOK /\ ServersOkay(servers, srv, child) /\ QueueOnce /\ Reading
        /\ Full /\ Counted
    BY DEF HelperInv
  <1>2. main.loop = "read" /\ main.srv = s /\ s \in Range(servers)
    BY <1>1 DEF ReadEnd, Reading
  <1>3. CASE srv[s].shutdown /\ srv[s].pending = 0
    <2>1. helperServerFree(s, srv)
      BY <1>3 DEF ReadEnd
    <2>2. main.loop # "kick" /\ main.srv \in {None, s}
      BY <1>2
    <2>. QED
      BY <1>2, <2>1, <2>2, FreeKeeps
  <1>4. CASE ~(srv[s].shutdown /\ srv[s].pending = 0)
    <2>1. /\ main' = [loop |-> "kick", srv |-> None, left |-> 0]
          /\ UNCHANGED <<servers, srv, child, queue, n_running, n_active,
                         recent, asking, config, fatal>>
      BY <1>4 DEF ReadEnd
    <2>2. /\ main'.loop = "kick" /\ main'.srv = None
          /\ main' \in [loop : {"none", "read", "kick"}, srv : Servers \cup {None}, left : Nat]
      BY <2>1
    <2>3. /\ concurrency' = concurrency
          /\ (ServersOkay(servers, srv, child)' <=> ServersOkay(servers', srv', child'))
          /\ (QueueOnce' <=> WaitOnce(queue', srv', asking'))
      BY <2>1, SameConcurrency
    <2>4. ServersOkay(servers, srv, child)' /\ QueueOnce'
      BY <1>1, <2>1, <2>3 DEF QueueOnce
    <2>5. TypeOK'
      BY <1>1, <2>1, <2>2, <2>3, <2>4 DEF TypeOK, ServersOkay, config
    <2>6. Reading' /\ Full' /\ Counted'
      BY <1>1, <2>1, <2>2 DEF Reading, Full, Counted, Open
    <2>. QED
      BY <2>4, <2>5, <2>6 DEF HelperInv
  <1>. QED
    BY <1>3, <1>4

(* redirectReconfigure: the servers that have something to do stay until     *)
(* they have done it, and new ones take what is queued.                      *)
LEMMA ReconfigureKeeps ==
  ASSUME HelperInv, redirectReconfigure
  PROVE  HelperInv'
  <1>. DEFINE B == {s \in Servers :
                      srv[s].shutdown \/ srv[s].writing # <<>> \/ srv[s].pending > 0}
              busy == Kept(servers, B)
              svb == [s \in Servers |-> IF s \in Range(busy)
                                        THEN [srv[s] EXCEPT !.shutdown = TRUE]
                                        ELSE NewServer]
              chb == [s \in Servers |-> IF s \in Range(busy) THEN child[s]
                                        ELSE [NewChild EXCEPT !.alive = FALSE]]
  <1>1. /\ TypeOK /\ ServersOkay(servers, srv, child) /\ QueueOnce /\ Reading
        /\ Full /\ Counted
    BY DEF HelperInv
  <1>2. /\ n_running' = Len(busy) + n_to_start /\ n_active' = n_to_start
        /\ helperOpenServers(busy, svb, chb)
        /\ UNCHANGED <<queue, asking, config, fatal>>
    BY DEF redirectReconfigure
  <1>3. /\ servers \in Seq(Servers) /\ IsInjective(servers) /\ Range(servers) \subseteq Servers
        /\ srv \in [Servers -> ServerType] /\ child \in [Servers -> ChildType]
        /\ n_to_start \in Nat \ {0} /\ IsFiniteSet(Requests)
    BY <1>1, RangeOfSeq, Constants DEF ServersOkay
  <1>4. NewServer \in ServerType
    BY <1>1, NewHolds
  <1>5. PICK c \in ChildType : c = [NewChild EXCEPT !.alive = FALSE] /\ c.got = {} /\ c.said = <<>>
    <2>1. NewChild \in ChildType /\ NewChild.got = {} /\ NewChild.said = <<>>
      BY DEF NewChild, ChildType
    <2>2. PICK c : c = [NewChild EXCEPT !.alive = FALSE]
      OBVIOUS
    <2>. HIDE DEF NewChild
    <2>3. c \in ChildType /\ c.got = {} /\ c.said = <<>>
      BY <2>1, <2>2 DEF ChildType
    <2>. QED
      BY <2>2, <2>3
  <1>6. PICK l1, K : l1 = busy /\ K = B
    OBVIOUS
  <1>7. l1 = Kept(servers, K)
    BY <1>6
  <1>8. l1 \in Seq(Servers) /\ Range(l1) = Range(servers) \cap K
    BY <1>3, <1>7, KeptProperties
  <1>9. Range(l1) \subseteq Servers /\ Len(l1) \in Nat
    BY <1>8, RangeOfSeq, LenProperties
  <1>10. PICK sv1 : sv1 = svb
    OBVIOUS
  <1>11. PICK ch1 : ch1 = chb
    OBVIOUS
  <1>12. helperOpenServers(l1, sv1, ch1) /\ n_running' = Len(l1) + n_to_start
    BY <1>2, <1>6, <1>10, <1>11
  <1>. HIDE DEF busy
  <1>13. sv1 = [s \in Servers |-> IF s \in Range(l1) THEN [srv[s] EXCEPT !.shutdown = TRUE]
                                  ELSE NewServer]
    BY <1>6, <1>10
  <1>14. ch1 = [s \in Servers |-> IF s \in Range(l1) THEN child[s] ELSE c]
    BY <1>5, <1>6, <1>11
  <1>. HIDE DEF svb, chb, NewServer, NewChild
  <1>15. ASSUME NEW s \in Servers
         PROVE  /\ [srv[s] EXCEPT !.shutdown = TRUE] \in ServerType
                /\ [srv[s] EXCEPT !.shutdown = TRUE].requests = srv[s].requests
                /\ [srv[s] EXCEPT !.shutdown = TRUE].pending = srv[s].pending
                /\ [srv[s] EXCEPT !.shutdown = TRUE].writing = srv[s].writing
                /\ [srv[s] EXCEPT !.shutdown = TRUE].wqueue = srv[s].wqueue
                /\ [srv[s] EXCEPT !.shutdown = TRUE].shutdown = TRUE
    <2>1. PICK v \in ServerType : v = srv[s]
      BY <1>3
    <2>2. /\ [v EXCEPT !.shutdown = TRUE] \in ServerType
          /\ [v EXCEPT !.shutdown = TRUE].requests = v.requests
          /\ [v EXCEPT !.shutdown = TRUE].pending = v.pending
          /\ [v EXCEPT !.shutdown = TRUE].writing = v.writing
          /\ [v EXCEPT !.shutdown = TRUE].wqueue = v.wqueue
          /\ [v EXCEPT !.shutdown = TRUE].shutdown = TRUE
      BY DEF ServerType
    <2>. QED
      BY <2>1, <2>2
  <1>16. sv1 \in [Servers -> ServerType]
    BY <1>4, <1>13, <1>15
  <1>17. ch1 \in [Servers -> ChildType]
    BY <1>3, <1>5, <1>14
  <1>18. \A s \in Range(l1) : /\ sv1[s].requests = srv[s].requests /\ sv1[s].pending = srv[s].pending
                              /\ sv1[s].writing = srv[s].writing /\ sv1[s].wqueue = srv[s].wqueue
                              /\ sv1[s].shutdown = TRUE /\ ch1[s] = child[s]
    BY <1>9, <1>13, <1>14, <1>15
  <1>19. \A s \in Servers \ Range(l1) : sv1[s] = NewServer /\ ch1[s] = c
    BY <1>13, <1>14
  <1>20. Stay(l1, sv1, ch1) /\ Unlisted(l1, sv1, ch1)
    BY <1>5, <1>18, <1>19 DEF Stay, Unlisted
  <1>21. /\ ServersOkay(l1, sv1, ch1)
         /\ Range(l1) = Range(servers) \cap K /\ Range(l1) \subseteq Servers
         /\ \A s \in Range(l1) : HeldBy(sv1, s) = HeldBy(srv, s)
         /\ \A s \in Servers \ Range(l1) : HeldBy(sv1, s) = {}
    BY <1>1, <1>7, <1>16, <1>17, <1>20, CloseServers
  <1>22. /\ ServersOkay(servers', srv', child')
         /\ Len(servers') = Len(l1) + n_to_start
         /\ Cardinality(Open(servers', srv')) = Cardinality(Open(l1, sv1)) + n_to_start
         /\ \A s \in Servers : HeldBy(srv', s) = HeldBy(sv1, s)
         /\ recent' = TRUE
         /\ main' = [loop |-> "kick", srv |-> None, left |-> 0]
    BY <1>1, <1>12, <1>21, OpenStep
  <1>23. Open(l1, sv1) = {}
    BY <1>18 DEF Open
  <1>24. Cardinality(Open(servers', srv')) = n_to_start
    <2>1. Cardinality(Open(l1, sv1)) = 0
      BY <1>23, FS_EmptySet
    <2>. QED
      BY <2>1, <1>3, <1>22
  <1>25. \A s \in Servers \ Range(l1) : HeldBy(srv, s) = {}
    <2>. SUFFICES ASSUME NEW s \in Servers \ Range(l1) PROVE HeldBy(srv, s) = {}
      OBVIOUS
    <2>1. srv[s].pending = 0
      <3>1. CASE s \in Range(servers)
        <4>1. s \notin K
          BY <3>1, <1>8
        <4>2. ~(srv[s].pending > 0)
          BY <4>1, <1>6
        <4>3. srv[s].pending \in 0..concurrency /\ concurrency \in Nat
          BY <1>1, <1>3, Constants DEF ServerType
        <4>. QED
          BY <4>2, <4>3
      <3>2. CASE s \notin Range(servers)
        <4>1. srv[s] = NewServer /\ NewServer.pending = 0
          BY <3>2, <1>1, NewHolds DEF ServersOkay, Unlisted
        <4>. QED
          BY <4>1
      <3>. QED
        BY <3>1, <3>2
    <2>2. srv[s].requests \in [Slots -> Requests \cup {None}]
      BY <1>3 DEF ServerType
    <2>3. HeldBy(srv, s) \subseteq Requests
      BY <2>2 DEF HeldBy
    <2>4. IsFiniteSet(HeldBy(srv, s)) /\ Cardinality(HeldBy(srv, s)) = 0
      BY <2>1, <2>3, <1>1, <1>3, FS_Subset DEF ServersOkay
    <2>. QED
      BY <2>4, FS_EmptySet
  <1>26. \A s \in Servers : HeldBy(srv', s) = HeldBy(srv, s)
    BY <1>21, <1>22, <1>25
  <1>27. /\ concurrency' = concurrency
         /\ (ServersOkay(servers, srv, child)' <=> ServersOkay(servers', srv', child'))
         /\ (QueueOnce' <=> WaitOnce(queue', srv', asking'))
    BY <1>2, SameConcurrency
  <1>28. WaitOnce(queue, srv', asking)
    BY <1>1, <1>26 DEF QueueOnce, WaitOnce
  <1>29. ServersOkay(servers, srv, child)' /\ QueueOnce'
    BY <1>2, <1>22, <1>27, <1>28
  <1>30. /\ main'.loop = "kick" /\ main'.srv = None
         /\ main' \in [loop : {"none", "read", "kick"}, srv : Servers \cup {None}, left : Nat]
    BY <1>22
  <1>31. n_running' \in Nat /\ n_active' \in Nat /\ n_active' > 0
         /\ n_running' = Len(servers') /\ n_active' = Cardinality(Open(servers', srv'))
    BY <1>2, <1>3, <1>9, <1>12, <1>22, <1>24
  <1>32. TypeOK'
    BY <1>1, <1>2, <1>22, <1>27, <1>29, <1>30, <1>31 DEF TypeOK, ServersOkay, config
  <1>33. Reading' /\ Full' /\ Counted'
    BY <1>30, <1>31 DEF Reading, Full, Counted, Open
  <1>. QED
    BY <1>29, <1>32, <1>33 DEF HelperInv
(* Time passes, and squid that has exited stays so.                          *)
LEMMA QuietKeeps ==
  ASSUME HelperInv, recent' \in BOOLEAN,
         UNCHANGED <<servers, srv, child, queue, n_running, n_active, asking,
                     main, config, fatal>>
  PROVE  HelperInv'
  <1>1. /\ TypeOK /\ ServersOkay(servers, srv, child) /\ QueueOnce /\ Reading
        /\ Full /\ Counted
    BY DEF HelperInv
  <1>2. /\ concurrency' = concurrency
        /\ (ServersOkay(servers, srv, child)' <=> ServersOkay(servers', srv', child'))
        /\ (QueueOnce' <=> WaitOnce(queue', srv', asking'))
    BY SameConcurrency
  <1>3. ServersOkay(servers, srv, child)' /\ QueueOnce'
    BY <1>1, <1>2 DEF QueueOnce
  <1>4. TypeOK'
    BY <1>1, <1>2, <1>3 DEF TypeOK, ServersOkay, config
  <1>5. Reading' /\ Full' /\ Counted'
    BY <1>1, <1>2 DEF Reading, Full, Counted, Open
  <1>. QED
    BY <1>3, <1>4, <1>5 DEF HelperInv
-----------------------------------------------------------------------------
(* The processes that are started first.                                     *)
LEMMA InitHolds ==
  ASSUME Init
  PROVE  HelperInv
  <1>. DEFINE new0 == CHOOSE x \in SUBSET Servers : Cardinality(x) = n_to_start
  <1>1. /\ servers = SetToSeq(new0)
        /\ child = [s \in Servers |->
                       IF s \in new0 THEN NewChild ELSE [NewChild EXCEPT !.alive = FALSE]]
        /\ srv = [s \in Servers |-> NewServer]
        /\ queue = <<>> /\ n_running = n_to_start /\ n_active = n_to_start
        /\ recent = TRUE /\ asking = {} /\ main = Idle
        /\ bypass \in BOOLEAN /\ fatal = "" /\ concurrency \in DOMAIN MaxAsking
    BY DEF Init
  <1>2. /\ IsFiniteSet(Servers) /\ n_to_start \in Nat \ {0}
        /\ n_to_start <= Cardinality(Servers)
    <2>1. Cardinality(Servers) \in Nat
      BY HelperAssumption, FS_CardinalityType
    <2>. QED
      BY <2>1, HelperAssumption
  <1>3. \E x \in SUBSET Servers : Cardinality(x) = n_to_start
    BY <1>2, SubsetOfSize
  <1>4. new0 \in SUBSET Servers /\ Cardinality(new0) = n_to_start
    BY <1>3
  <1>5. PICK new \in SUBSET Servers : new = new0 /\ Cardinality(new) = n_to_start
    BY <1>4
  <1>6. PICK c : c = [NewChild EXCEPT !.alive = FALSE]
    OBVIOUS
  <1>7. NewChild \in ChildType /\ NewChild.got = {} /\ NewChild.said = <<>>
    BY DEF NewChild, ChildType
  <1>8. child = [s \in Servers |-> IF s \in new THEN NewChild ELSE c]
        /\ servers = SetToSeq(new)
    BY <1>1, <1>5, <1>6
  <1>. HIDE DEF new0
  <1>9. c \in ChildType /\ c.got = {} /\ c.said = <<>>
    <2>. HIDE DEF NewChild
    <2>. QED
      BY <1>6, <1>7 DEF ChildType
  <1>. HIDE DEF NewChild
  <1>10. IsFiniteSet(new)
    BY <1>2, FS_Subset
  <1>11. /\ servers \in Seq(new) /\ Len(servers) = n_to_start
         /\ IsInjective(servers) /\ Range(servers) = new
    BY <1>5, <1>8, <1>10, SetAsSequence
  <1>12. servers \in Seq(Servers)
    BY <1>11
  <1>13. concurrency \in Nat \ {0}
    <2>1. DOMAIN MaxAsking = 1..Len(MaxAsking) /\ Len(MaxAsking) \in Nat
      BY HelperAssumption, LenProperties
    <2>2. concurrency \in DOMAIN MaxAsking
      BY <1>1
    <2>. QED
      BY <2>1, <2>2
  <1>14. /\ NewServer \in ServerType /\ NewServer.pending = 0 /\ ~NewServer.shutdown
         /\ \A i \in Slots : NewServer.requests[i] = None
    <2>1. 0 \in 0..concurrency
      BY <1>13
    <2>2. <<>> \in Seq(Slots \X Requests)
      OBVIOUS
    <2>. QED
      BY <2>1, <2>2 DEF NewServer, ServerType
  <1>15. srv \in [Servers -> ServerType] /\ \A s \in Servers : srv[s] = NewServer
    <2>. HIDE DEF NewServer
    <2>. QED
      BY <1>1, <1>14
  <1>16. /\ child \in [Servers -> ChildType]
         /\ \A s \in Servers : child[s].got = {} /\ child[s].said = <<>>
    BY <1>7, <1>8, <1>9
  <1>17. \A s \in Servers : LinesOwn(srv[s], child[s]) /\ LinesOnce(srv[s], child[s])
    BY <1>15, <1>16, NoLines
  <1>. HIDE DEF NewServer
  <1>18. \A s \in Servers : HeldBy(srv, s) = {}
    BY <1>14, <1>15 DEF HeldBy
  <1>19. \A s \in Servers : srv[s].pending = Cardinality(HeldBy(srv, s))
    BY <1>14, <1>15, <1>18, FS_EmptySet
  <1>20. HeldOnce(srv)
    BY <1>14, <1>15 DEF HeldOnce
  <1>21. Unlisted(servers, srv, child)
    BY <1>15, <1>16 DEF Unlisted
  <1>22. ServersOkay(servers, srv, child)
    BY <1>11, <1>12, <1>15, <1>16, <1>17, <1>19, <1>20, <1>21 DEF ServersOkay
  <1>23. /\ main.loop = "none" /\ main.srv = None
         /\ main \in [loop : {"none", "read", "kick"}, srv : Servers \cup {None}, left : Nat]
    BY <1>1 DEF Idle
  <1>24. TypeOK
    <2>1. queue \in Seq(Requests) /\ asking \subseteq Requests
      <3>1. <<>> \in Seq(Requests) /\ {} \subseteq Requests
        OBVIOUS
      <3>2. queue = <<>> /\ asking = {}
        BY <1>1
      <3>. QED
        BY <3>1, <3>2
    <2>2. n_running \in Nat /\ n_active \in Nat
      BY <1>1, <1>2
    <2>3. recent \in BOOLEAN /\ bypass \in BOOLEAN
      BY <1>1
    <2>4. concurrency \in DOMAIN MaxAsking
      BY <1>1
    <2>5. fatal \in {"", "too many queued", "crashing too rapidly"}
      BY <1>1
    <2>. QED
      BY <2>1, <2>2, <2>3, <2>4, <2>5, <1>12, <1>15, <1>16, <1>23 DEF TypeOK
  <1>25. QueueOnce
    BY <1>1, <1>18, EmptyQueue DEF QueueOnce, WaitOnce
  <1>26. Open(servers, srv) = new
    BY <1>11, <1>14, <1>15 DEF Open
  <1>27. Reading /\ Full /\ Counted
    <2>1. Reading
      BY <1>23 DEF Reading
    <2>2. queue = <<>>
      BY <1>1
    <2>3. Full
      BY <2>2 DEF Full
    <2>4. n_running = n_to_start /\ n_active = n_to_start
      BY <1>1
    <2>5. n_active > 0
      BY <2>4, <1>2
    <2>6. n_active = Cardinality(Open(servers, srv))
      BY <2>4, <1>5, <1>26
    <2>. QED
      BY <2>1, <2>3, <2>4, <2>5, <2>6, <1>11 DEF Counted
  <1>. QED
    BY <1>22, <1>24, <1>25, <1>27 DEF HelperInv

(* Every step keeps the invariant.                                           *)
LEMMA Inductive ==
  ASSUME HelperInv, [Next]_vars
  PROVE  HelperInv'
  <1>1. recent \in BOOLEAN
    BY DEF HelperInv, TypeOK
  <1>2. CASE UNCHANGED vars
    BY <1>1, <1>2, QuietKeeps DEF vars
  <1>3. CASE TimePasses
    BY <1>3, QuietKeeps DEF TimePasses
  <1>4. CASE Exited
    BY <1>1, <1>4, QuietKeeps DEF Exited, vars
  <1>5. ASSUME NEW s \in Servers,
               \/ helperDispatch_done(s) \/ Die(s) \/ ReadEof(s)
               \/ helperHandleRead(s) \/ ReadAnswer(s) \/ ReadEnd(s)
               \/ \E i \in Slots : Answer(s, i)
        PROVE  HelperInv'
    BY <1>5, DoneKeeps, DieKeeps, ReadEofKeeps, HandleReadKeeps, ReadAnswerKeeps,
       ReadEndKeeps, AnswerKeeps
  <1>. QED
    BY <1>2, <1>3, <1>4, <1>5, StartKeeps, KickKeeps, ReconfigureKeeps DEF Next

(* The invariant always holds.                                               *)
LEMMA HelperInvAlways == Spec => []HelperInv
  <1>1. Init => HelperInv
    BY InitHolds
  <1>2. HelperInv /\ [Next]_vars => HelperInv'
    BY Inductive
  <1>. QED
    BY <1>1, <1>2, PTL DEF Spec

(* n_running, n_active and pending count what they are meant to count, and   *)
(* every requester that waits is in the queue or on one channel, once,       *)
(* through crashes, restarts and reconfigurations.                           *)
THEOREM ServersAgree == Spec => []ServersConsistent
  <1>1. HelperInv => ServersConsistent
    <2>. SUFFICES ASSUME HelperInv PROVE TypeOK /\ CountsExact /\ WaitingOnce
      BY DEF ServersConsistent
    <2>1. /\ TypeOK /\ ServersOkay(servers, srv, child) /\ QueueOnce /\ Counted
      BY DEF HelperInv
    <2>2. \A s \in Servers : Held(s) = HeldBy(srv, s)
      BY DEF Held, HeldBy
    <2>3. CountsExact
      BY <2>1, <2>2 DEF CountsExact, ServersOkay, Counted, Open
    <2>4. WaitingOnce
      <3>. DEFINE U == UNION {Held(s) : s \in Servers}
      <3>1. /\ queue \in Seq(Requests) /\ asking \subseteq Requests
            /\ IsInjective(queue) /\ WaitOnce(queue, srv, asking)
        BY <2>1 DEF TypeOK, QueueOnce, WaitOnce
      <3>2. \A r : r \in U <=> \E s \in Servers : r \in HeldBy(srv, s)
        BY <2>2
      <3>3. U \subseteq asking /\ Range(queue) \cap U = {} /\ asking = Range(queue) \cup U
        <4>. HIDE DEF U
        <4>. QED
          BY <3>1, <3>2 DEF WaitOnce
      <3>4. IsFiniteSet(Requests)
        BY <2>1, Constants
      <3>5. IsFiniteSet(U) /\ IsFiniteSet(Range(queue)) /\ Cardinality(Range(queue)) = Len(queue)
        <4>1. IsFiniteSet(asking)
          BY <3>1, <3>4, FS_Subset
        <4>. HIDE DEF U
        <4>2. IsFiniteSet(U)
          BY <4>1, <3>3, FS_Subset
        <4>. QED
          BY <4>2, <3>1, LengthOfOnce
      <3>6. Len(queue) + Cardinality(U) = Cardinality(asking)
        <4>. HIDE DEF U
        <4>1. Cardinality(Range(queue) \cup U)
                = Cardinality(Range(queue)) + Cardinality(U) - Cardinality(Range(queue) \cap U)
          BY <3>5, FS_Union
        <4>2. Cardinality(Range(queue) \cap U) = 0
          BY <3>3, FS_EmptySet
        <4>3. Cardinality(U) \in Nat /\ Len(queue) \in Nat
          BY <3>1, <3>5, FS_CardinalityType, LenProperties
        <4>. QED
          BY <4>1, <4>2, <4>3, <3>3, <3>5
      <3>. QED
        BY <3>3, <3>6 DEF WaitingOnce
    <2>. QED
      BY <2>1, <2>3, <2>4
  <1>. QED
    BY <1>1, HelperInvAlways, PTL

(* An answer is given to the requester whose line was answered, although     *)
(* channels are reused, answers come in any order and processes die.         *)
THEOREM AnswersGoHome == Spec => []OwnAnswers
  <1>1. HelperInv => OwnAnswers
    BY DEF HelperInv, ServersOkay, LinesOwn, Lines, OwnAnswers
  <1>. QED
    BY <1>1, HelperInvAlways, PTL

(* Numbers above zero.                                                       *)
LEMMA NotEmptied ==
  /\ \A n \in Nat \ {0} : n > 0 /\ ~(n < n)
  /\ ~(0 > 0)
  OBVIOUS

(* While requests are queued and squid is in none of its loops, every server *)
(* that may take them is full, and there is one, whose answers kick the      *)
(* queue.                                                                    *)
THEOREM QueueIsKicked == Spec => []SomeoneKicks
  <1>1. HelperInv => SomeoneKicks
    <2>. SUFFICES ASSUME HelperInv, fatal = "", main.loop = "none", queue # <<>>
                  PROVE  /\ GetFirstAvailable(servers, srv) = None
                         /\ \E s \in Range(servers) : ~srv[s].shutdown /\ srv[s].pending > 0
      BY DEF SomeoneKicks, Running
    <2>1. /\ TypeOK /\ ServersOkay(servers, srv, child) /\ Reading /\ Full /\ Counted
      BY DEF HelperInv
    <2>2. main.srv = None /\ None \notin Servers /\ Range(servers) \subseteq Servers
          /\ concurrency \in Nat \ {0} /\ IsFiniteSet(Servers)
      BY <2>1, Constants, RangeOfSeq DEF Reading, TypeOK
    <2>3. \A s \in Open(servers, srv) : srv[s].pending = concurrency
      BY <2>1, <2>2 DEF Full, Open
    <2>4. PICK a : a = GetFirstAvailable(servers, srv)
      OBVIOUS
    <2>5. a # None => /\ a \in Open(servers, srv) /\ srv[a].pending < concurrency
      BY <2>1, <2>4, Available
    <2>6. a = None
      <3>. SUFFICES ASSUME a # None PROVE FALSE
        OBVIOUS
      <3>1. srv[a].pending = concurrency /\ srv[a].pending < concurrency
        BY <2>3, <2>5
      <3>. QED
        BY <3>1, <2>2, Zenon, NotEmptied
    <2>7. Open(servers, srv) # {}
      <3>1. n_active > 0 /\ n_active = Cardinality(Open(servers, srv))
        BY <2>1 DEF Counted
      <3>2. Cardinality({}) = 0
        BY FS_EmptySet
      <3>. QED
        BY <3>1, <3>2, Zenon, NotEmptied
    <2>8. \E s \in Range(servers) : ~srv[s].shutdown /\ srv[s].pending > 0
      <3>1. PICK s \in Open(servers, srv) : TRUE
        BY <2>7
      <3>2. srv[s].pending = concurrency /\ s \in Range(servers) /\ ~srv[s].shutdown
        BY <2>3, <3>1 DEF Open
      <3>3. concurrency > 0
        BY <2>2, Zenon, NotEmptied
      <3>. QED
        BY <3>2, <3>3
    <2>. QED
      BY <2>4, <2>6, <2>8
  <1>. QED
    BY <1>1, HelperInvAlways, PTL
=============================================================================
