--------------------------- MODULE PeeringProofs ----------------------------
(* Proofs about peer selection and forwarding, for any peers, any number of  *)
(* requests and any limits: a peer is charged with exactly the connections   *)
(* open to it, a connection goes to the server that a failure would be       *)
(* blamed on, and a request goes only where it may.                          *)
EXTENDS Peering, QueueLemmas, FiniteSetTheorems, TLAPS

(* The peers in the course of a handler: what is charged has yet to be shown *)
(* not negative.                                                             *)
PeerSoFar == [tcp_up : 0..PEER_TCP_MAGIC_COUNT, alive : BOOLEAN,
              probe : {"no", "asked", "late"}, test_fd : BOOLEAN,
              conn_open : Int, idle : 0..MaxIdle]
PeersSoFar == [Peers -> PeerSoFar]

(* A list of servers a request may go to, each listed once.                  *)
ListOkay(servers, direct) ==
    /\ \A i \in 1..Len(servers) :
          /\ direct = "no" => servers[i].peer # Direct
          /\ servers[i].peer \in Siblings => servers[i].code = "hit"
    /\ \A i, j \in 1..Len(servers) : servers[i].peer = servers[j].peer => i = j

(* A request between two handlers, or before it is connected.                *)
Listed(q) ==
    /\ q \in RequestType /\ ListOkay(q.servers, q.direct)
    /\ q.n_recv <= q.expected /\ q.expected <= Cardinality(q.pinged)

(* It has a server left and tries left.                                      *)
Ready(q) ==
    /\ Listed(q) /\ q.servers # <<>>
    /\ q.n_tries <= MaxTries /\ q.origin_tries <= MaxOriginTries

(* What it waits for goes with what it has.                                  *)
Sound(q) ==
    /\ Listed(q)
    /\ q.stage \in {"none", "ping"} =>
          q.servers = <<>> /\ q.n_tries = 0 /\ q.origin_tries = 0 /\ q.fd = None
    /\ q.stage = "ping" => q.n_recv < q.expected
    /\ q.stage \in {"connect", "reply"} =>
          q.servers # <<>> /\ q.fd = q.servers[1].peer
    /\ q.stage = "restart" => Ready(q) /\ q.fd = None

(* The connections of all requests but r are what the peers are charged with.*)
Others(r, p) == {u \in DOMAIN req \ {r} : req[u].fd = p}
Uncharged(r, ps) ==
    /\ ps \in PeersSoFar
    /\ \A p \in Peers : ps[p].conn_open = ps[p].idle + Cardinality(Others(r, p))

(* A peer's state changes, and not its connections.                          *)
SameCharges(ps) ==
    /\ ps \in PeersSoFar
    /\ \A p \in Peers : ps[p].conn_open = peer[p].conn_open /\ ps[p].idle = peer[p].idle

(* The inductive invariant.                                                  *)
PeeringInv ==
    /\ TypeOK /\ ConnOpenExact
    /\ \A r \in DOMAIN req : Sound(req[r])
-----------------------------------------------------------------------------
(* Connections are charged and discharged. *)

(* A peer can be charged by finitely many requests.                          *)
LEMMA OthersFinite ==
  ASSUME PeeringInv, NEW r, NEW p
  PROVE  IsFiniteSet(Others(r, p)) /\ Cardinality(Others(r, p)) \in Nat
  <1>1. Others(r, p) \in SUBSET Requests
    BY DEF PeeringInv, TypeOK, Others
  <1>. QED
    BY <1>1, PeeringAssumption, FS_Subset, FS_CardinalityType

(* The connections of r's handler and those of the others.                   *)
LEMMA ChargeSplit ==
  ASSUME PeeringInv, NEW r \in DOMAIN req, NEW p, NEW f,
         f \in [DOMAIN req -> RequestType],
         \A u \in DOMAIN req \ {r} : f[u] = req[u]
  PROVE  Cardinality({u \in DOMAIN f : f[u].fd = p})
           = Cardinality(Others(r, p)) + (IF f[r].fd = p THEN 1 ELSE 0)
  <1> DEFINE all == {u \in DOMAIN f : f[u].fd = p}
  <1>0. DOMAIN f = DOMAIN req
    OBVIOUS
  <1>1. IsFiniteSet(Others(r, p)) /\ Cardinality(Others(r, p)) \in Nat /\ r \notin Others(r, p)
    BY OthersFinite DEF Others
  <1> SUFFICES Cardinality(all) = Cardinality(Others(r, p))
                                  + (IF f[r].fd = p THEN 1 ELSE 0)
    OBVIOUS
  <1> HIDE DEF all
  <1>2. CASE f[r].fd = p
    <2>1. all = Others(r, p) \cup {r}
      BY <1>0, <1>2 DEF Others, all
    <2>. QED
      BY <1>1, <1>2, <2>1, FS_AddElement
  <1>3. CASE f[r].fd # p
    <2>1. all = Others(r, p)
      BY <1>0, <1>3 DEF Others, all
    <2>. QED
      BY <1>1, <1>3, <2>1
  <1>. QED
    BY <1>2, <1>3

(* The same before the step.                                                 *)
LEMMA ChargedNow ==
  ASSUME PeeringInv, NEW r \in DOMAIN req, NEW p \in Peers
  PROVE  peer[p].conn_open = peer[p].idle + Cardinality(Others(r, p))
                             + (IF req[r].fd = p THEN 1 ELSE 0)
  <1> DEFINE all == {u \in DOMAIN req : req[u].fd = p}
  <1>1. IsFiniteSet(Others(r, p)) /\ Cardinality(Others(r, p)) \in Nat /\ r \notin Others(r, p)
    BY OthersFinite DEF Others
  <1> HIDE DEF all
  <1>2. Cardinality(all) = Cardinality(Others(r, p)) + (IF req[r].fd = p THEN 1 ELSE 0)
    <2>1. CASE req[r].fd = p
      <3>1. all = Others(r, p) \cup {r}
        BY <2>1 DEF Others, all
      <3>. QED
        BY <1>1, <2>1, <3>1, FS_AddElement
    <2>2. CASE req[r].fd # p
      <3>1. all = Others(r, p)
        BY <2>2 DEF Others, all
      <3>. QED
        BY <1>1, <2>2, <3>1
    <2>. QED
      BY <2>1, <2>2
  <1>3. peer[p].conn_open = peer[p].idle + Cardinality(all)
    BY DEF PeeringInv, ConnOpenExact, all
  <1>4. peer[p].idle \in Int
    BY DEF PeeringInv, TypeOK, PeerType
  <1>. QED
    BY <1>1, <1>2, <1>3, <1>4

(* Without a connection of r to a peer, the peers are as they should be.     *)
LEMMA NothingCharged ==
  ASSUME PeeringInv, NEW r \in DOMAIN req, req[r].fd \notin Peers
  PROVE  Uncharged(r, peer)
  <1>1. peer \in PeersSoFar
    BY DEF PeeringInv, TypeOK, PeerType, PeersSoFar, PeerSoFar
  <1>2. ASSUME NEW p \in Peers PROVE peer[p].conn_open = peer[p].idle + Cardinality(Others(r, p))
    <2>1. req[r].fd # p
      OBVIOUS
    <2>2. peer[p].idle \in Int /\ Cardinality(Others(r, p)) \in Int
      BY OthersFinite DEF PeeringInv, TypeOK, PeerType
    <2>. QED
      BY <2>1, <2>2, ChargedNow
  <1>. QED
    BY <1>1, <1>2 DEF Uncharged

(* The connection of r is closed: fwdPeerClosed takes it off its peer.       *)
LEMMA ConnectionClosed ==
  ASSUME PeeringInv, NEW r \in DOMAIN req, NEW ps0, SameCharges(ps0)
  PROVE  Uncharged(r, fwdPeerClosed(ps0, req[r].fd))
  <1> DEFINE ps == fwdPeerClosed(ps0, req[r].fd)
  <1>1. ps0 \in PeersSoFar
    BY DEF SameCharges
  <1>2. ps \in PeersSoFar
    BY <1>1 DEF fwdPeerClosed, PeersSoFar, PeerSoFar
  <1>3. ASSUME NEW p \in Peers PROVE ps[p].conn_open = ps[p].idle + Cardinality(Others(r, p))
    <2>1. /\ peer[p].conn_open \in Int /\ peer[p].idle \in Int
          /\ Cardinality(Others(r, p)) \in Int
          /\ ps0[p].conn_open = peer[p].conn_open /\ ps0[p].idle = peer[p].idle
      BY OthersFinite DEF PeeringInv, TypeOK, PeerType, SameCharges
    <2>2. CASE req[r].fd = p
      <3>1. ps[p].conn_open = ps0[p].conn_open - 1 /\ ps[p].idle = ps0[p].idle
        BY <1>1, <2>2 DEF fwdPeerClosed, PeersSoFar, PeerSoFar
      <3>. QED
        BY <2>1, <2>2, <3>1, ChargedNow
    <2>3. CASE req[r].fd # p
      <3>1. ps[p] = ps0[p]
        BY <1>1, <2>3 DEF fwdPeerClosed, PeersSoFar
      <3>. QED
        BY <2>1, <2>3, <3>1, ChargedNow
    <2>. QED
      BY <2>2, <2>3
  <1>. QED
    BY <1>2, <1>3 DEF Uncharged
-----------------------------------------------------------------------------
(* The ends of handlers. *)

(* A request that is no more has nothing.                                    *)
LEMMA NothingSound == Sound(NoRequest)
  <1>1. /\ NoRequest.stage = "none" /\ NoRequest.servers = <<>> /\ NoRequest.n_tries = 0
        /\ NoRequest.origin_tries = 0 /\ NoRequest.fd = None /\ NoRequest.n_recv = 0
        /\ NoRequest.expected = 0 /\ NoRequest.pinged = {}
    BY DEF NoRequest
  <1>2. NoRequest \in RequestType
    <2>1. /\ <<>> \in Seq(ServerType) /\ "none" \in Stages
          /\ 0 \in 0..(MaxTries + 1) /\ 0 \in 0..(MaxOriginTries + 1)
      BY PeeringAssumption DEF Stages
    <2>. QED
      BY <2>1 DEF NoRequest, RequestType
  <1>3. ListOkay(NoRequest.servers, NoRequest.direct)
    BY <1>1 DEF ListOkay
  <1>4. Cardinality({}) = 0
    BY FS_EmptySet
  <1>. QED
    BY <1>1, <1>2, <1>3, <1>4 DEF Sound, Listed

(* A handler ends with r as q and its connection charged.                    *)
LEMMA GoesKeeps ==
  ASSUME PeeringInv, NEW r \in DOMAIN req, NEW ps \in PeersSoFar, NEW q, Sound(q),
         \A p \in Peers : ps[p].conn_open = ps[p].idle + Cardinality(Others(r, p))
                                            + (IF q.fd = p THEN 1 ELSE 0),
         Goes(r, ps, q)
  PROVE  PeeringInv'
  <1>1. /\ peer' = ps /\ req' = [req EXCEPT ![r] = q] /\ q \in RequestType
        /\ req \in [DOMAIN req -> RequestType] /\ DOMAIN req \subseteq Requests
        /\ Peers \subseteq AllPeers
    BY DEF Goes, Sound, Listed, PeeringInv, TypeOK
  <1>2. /\ req' \in [DOMAIN req -> RequestType] /\ DOMAIN req' = DOMAIN req
        /\ req'[r] = q /\ \A u \in DOMAIN req \ {r} : req'[u] = req[u]
    BY <1>1
  <1>3. Peers' = Peers
    BY <1>1 DEF Peers, PeersSoFar
  <1>4. ASSUME NEW p \in Peers
        PROVE  /\ ps[p] \in PeerType
               /\ ps[p].conn_open = ps[p].idle
                     + Cardinality({u \in DOMAIN req' : req'[u].fd = p})
    <2>1. Cardinality({u \in DOMAIN req' : req'[u].fd = p})
            = Cardinality(Others(r, p)) + (IF q.fd = p THEN 1 ELSE 0)
      BY <1>2, ChargeSplit
    <2>2. Cardinality(Others(r, p)) \in Nat
      BY OthersFinite
    <2>3. ps[p].idle \in Nat
      BY PeeringAssumption DEF PeersSoFar, PeerSoFar
    <2>4. ps[p].conn_open \in Nat
      BY <2>2, <2>3
    <2>5. ps[p] \in PeerType
      BY <2>4 DEF PeersSoFar, PeerSoFar, PeerType
    <2>6. ps[p].conn_open = ps[p].idle + (Cardinality(Others(r, p))
                                           + (IF q.fd = p THEN 1 ELSE 0))
      BY <2>2, <2>3
    <2>. QED
      BY <2>1, <2>5, <2>6
  <1>5. TypeOK'
    <2>1. peer' \in [Peers -> PeerType]
      BY <1>1, <1>4 DEF PeersSoFar
    <2>. QED
      BY <1>1, <1>2, <1>3, <2>1 DEF TypeOK
  <1>6. ConnOpenExact'
    BY <1>1, <1>3, <1>4 DEF ConnOpenExact
  <1>7. \A u \in DOMAIN req' : Sound(req'[u])
    BY <1>2 DEF PeeringInv
  <1>. QED
    BY <1>5, <1>6, <1>7 DEF PeeringInv, Sound, Listed, Ready, ListOkay

(* A handler ends r, whose connection is closed by then.                     *)
LEMMA EndsKeeps ==
  ASSUME PeeringInv, NEW r \in DOMAIN req, NEW ps, Uncharged(r, ps), Ends(r, ps)
  PROVE  PeeringInv'
  <1>1. Goes(r, ps, NoRequest)
    BY DEF Ends, Goes
  <1>2. \A p \in Peers : NoRequest.fd # p
    BY PeeringAssumption DEF NoRequest, PeeringInv, TypeOK
  <1>3. ps \in PeersSoFar
    BY DEF Uncharged
  <1>4. ASSUME NEW p \in Peers
        PROVE  ps[p].conn_open = ps[p].idle + Cardinality(Others(r, p))
                                 + (IF NoRequest.fd = p THEN 1 ELSE 0)
    <2>1. ps[p].idle \in Int /\ Cardinality(Others(r, p)) \in Int
      BY <1>3, OthersFinite DEF PeersSoFar, PeerSoFar
    <2>. QED
      BY <1>2, <2>1 DEF Uncharged
  <1>. QED
    BY <1>1, <1>3, <1>4, NothingSound, GoesKeeps

(* A handler ends with r waiting, and no connection.                         *)
LEMMA WaitsKeeps ==
  ASSUME PeeringInv, NEW r \in DOMAIN req, NEW ps, Uncharged(r, ps),
         NEW q, Sound(q), q.fd = None, Goes(r, ps, q)
  PROVE  PeeringInv'
  <1>2. \A p \in Peers : q.fd # p
    BY PeeringAssumption DEF PeeringInv, TypeOK
  <1>3. ps \in PeersSoFar
    BY DEF Uncharged
  <1>4. ASSUME NEW p \in Peers
        PROVE  ps[p].conn_open = ps[p].idle + Cardinality(Others(r, p))
                                 + (IF q.fd = p THEN 1 ELSE 0)
    <2>1. ps[p].idle \in Int /\ Cardinality(Others(r, p)) \in Int
      BY <1>3, OthersFinite DEF PeersSoFar, PeerSoFar
    <2>. QED
      BY <1>2, <2>1 DEF Uncharged
  <1>. QED
    BY <1>3, <1>4, GoesKeeps

(* fwdConnectStart: whichever way the connection is come by, it goes to the  *)
(* first server and is charged to it.                                        *)
LEMMA ConnectKeeps ==
  ASSUME PeeringInv, NEW r \in DOMAIN req, NEW ps, Uncharged(r, ps),
         NEW q, Ready(q), fwdConnectStart(r, ps, q)
  PROVE  PeeringInv'
  <1> DEFINE p == q.servers[1].peer
             q1 == [q EXCEPT !.n_tries = @ + 1, !.fd = p,
                             !.origin_tries = IF p = Direct THEN @ + 1 ELSE @]
             idle == p \in Peers /\ ps[p].idle > 0
             less == IF idle THEN [ps EXCEPT ![p].idle = @ - 1] ELSE ps
             shut == IF idle THEN fwdPeerClosed(less, p) ELSE ps
             more == IF p \in Peers THEN [shut EXCEPT ![p].conn_open = @ + 1] ELSE shut
  <1>1. q \in RequestType /\ q.servers \in Seq(ServerType) /\ q.servers # <<>>
    BY DEF Ready, Listed, RequestType
  <1>2. p \in AllPeers \cup {Direct}
    <2>1. 1 \in 1..Len(q.servers)
      BY <1>1, EmptySeq, LenProperties
    <2>2. q.servers[1] \in ServerType
      BY <1>1, <2>1, ElementOfSeq
    <2>. QED
      BY <2>2 DEF ServerType
  <1>3. ASSUME NEW s \in {"reply", "connect"}
        PROVE  Sound([q1 EXCEPT !.stage = s]) /\ [q1 EXCEPT !.stage = s].fd = p
    <2> DEFINE z == [q1 EXCEPT !.stage = s]
    <2>1. /\ q.n_tries + 1 \in 0..(MaxTries + 1) /\ s \in Stages
          /\ q.origin_tries \in 0..(MaxOriginTries + 1)
          /\ q.origin_tries + 1 \in 0..(MaxOriginTries + 1)
      BY <1>1, PeeringAssumption DEF Ready, RequestType, Stages
    <2>2. /\ z \in RequestType /\ z.stage = s /\ z.fd = p /\ z.servers = q.servers
          /\ z.direct = q.direct /\ z.n_recv = q.n_recv /\ z.expected = q.expected
          /\ z.pinged = q.pinged
      BY <1>1, <1>2, <2>1 DEF RequestType
    <2> HIDE DEF z
    <2>3. Listed(z)
      BY <2>2 DEF Ready, Listed
    <2>4. Sound(z)
      BY <1>1, <2>2, <2>3 DEF Sound
    <2>. QED
      BY <2>2, <2>4 DEF z
  <1>4. ps \in PeersSoFar
    BY DEF Uncharged
  <1>5. ASSUME NEW x \in Peers
        PROVE  ps[x].idle \in 0..MaxIdle /\ ps[x].conn_open \in Int /\ Cardinality(Others(r, x)) \in Nat
    BY <1>4, OthersFinite DEF PeersSoFar, PeerSoFar
  <1>6. less \in PeersSoFar /\ shut \in PeersSoFar /\ more \in PeersSoFar
    <2>1. less \in PeersSoFar
      BY <1>4, <1>5, PeeringAssumption DEF PeersSoFar, PeerSoFar
    <2>2. shut \in PeersSoFar
      <3> HIDE DEF less
      <3>. QED
        BY <1>4, <2>1 DEF fwdPeerClosed, PeersSoFar, PeerSoFar
    <2>3. more \in PeersSoFar
      <3> HIDE DEF shut
      <3>. QED
        BY <2>2 DEF PeersSoFar, PeerSoFar
    <2>. QED
      BY <2>1, <2>2, <2>3
  <1>7. Uncharged(r, shut)
    <2>1. ASSUME NEW x \in Peers
          PROVE  shut[x].conn_open = shut[x].idle + Cardinality(Others(r, x))
      <3>1. ps[x].conn_open = ps[x].idle + Cardinality(Others(r, x))
        BY DEF Uncharged
      <3>2. CASE idle /\ x = p
        <4>1. shut[x].idle = ps[x].idle - 1 /\ shut[x].conn_open = ps[x].conn_open - 1
          BY <1>4, <3>2 DEF fwdPeerClosed, PeersSoFar, PeerSoFar
        <4> HIDE DEF shut
        <4>. QED
          BY <1>5, <3>1, <4>1
      <3>3. CASE ~(idle /\ x = p)
        <4>1. shut[x] = ps[x]
          BY <1>4, <3>3 DEF fwdPeerClosed, PeersSoFar, PeerSoFar
        <4>. QED
          BY <3>1, <4>1
      <3>. QED
        BY <3>2, <3>3
    <2>. QED
      BY <1>6, <2>1 DEF Uncharged
  <1>8. CASE (idle \/ p = Direct) /\ Goes(r, less, [q1 EXCEPT !.stage = "reply"])
    <2>1. ASSUME NEW x \in Peers
          PROVE  less[x].conn_open = less[x].idle + Cardinality(Others(r, x))
                                     + (IF p = x THEN 1 ELSE 0)
      <3>1. ps[x].conn_open = ps[x].idle + Cardinality(Others(r, x))
        BY DEF Uncharged
      <3>2. CASE x = p
        <4>0. idle
          BY <1>8, <3>2, PeeringAssumption DEF PeeringInv, TypeOK
        <4>1. less[x].idle = ps[x].idle - 1 /\ less[x].conn_open = ps[x].conn_open
          BY <1>4, <3>2, <4>0 DEF PeersSoFar, PeerSoFar
        <4>. QED
          BY <1>5, <3>1, <3>2, <4>1
      <3>3. CASE x # p
        <4>1. less[x] = ps[x]
          BY <1>4, <3>3 DEF PeersSoFar, PeerSoFar
        <4>. QED
          BY <1>5, <3>1, <3>3, <4>1
      <3>. QED
        BY <3>2, <3>3
    <2> DEFINE z == [q1 EXCEPT !.stage = "reply"]
    <2>2. Sound(z) /\ z.fd = p
      BY <1>3
    <2>3. Goes(r, less, z) /\ less \in PeersSoFar
      BY <1>6, <1>8
    <2> HIDE DEF less, z, p
    <2>. QED
      BY <2>1, <2>2, <2>3, GoesKeeps
  <1>9. CASE Goes(r, more, [q1 EXCEPT !.stage = "connect"])
    <2>0. ASSUME NEW x \in Peers
          PROVE  /\ shut[x].idle \in Int /\ shut[x].conn_open \in Int
                 /\ shut[x].conn_open = shut[x].idle + Cardinality(Others(r, x))
      <3> HIDE DEF shut
      <3>. QED
        BY <1>6, <1>7 DEF PeersSoFar, PeerSoFar, Uncharged
    <2>1. ASSUME NEW x \in Peers
          PROVE  more[x].conn_open = more[x].idle + Cardinality(Others(r, x))
                                     + (IF p = x THEN 1 ELSE 0)
      <3> HIDE DEF shut
      <3>2. CASE x = p
        <4>1. more[x].idle = shut[x].idle /\ more[x].conn_open = shut[x].conn_open + 1
          BY <1>6, <3>2 DEF PeersSoFar, PeerSoFar
        <4>. QED
          BY <1>5, <2>0, <3>2, <4>1
      <3>3. CASE x # p
        <4>1. more[x] = shut[x]
          BY <1>6, <3>3 DEF PeersSoFar, PeerSoFar
        <4>. QED
          BY <1>5, <2>0, <3>3, <4>1
      <3>. QED
        BY <3>2, <3>3
    <2> DEFINE z == [q1 EXCEPT !.stage = "connect"]
    <2>2. Sound(z) /\ z.fd = p
      BY <1>3
    <2>3. Goes(r, more, z) /\ more \in PeersSoFar
      BY <1>6, <1>9
    <2> HIDE DEF more, z, p
    <2>. QED
      BY <2>1, <2>2, <2>3, GoesKeeps
  <1>10. CASE Ends(r, shut)
    BY <1>7, <1>10, EndsKeeps
  <1>. QED
    BY <1>8, <1>9, <1>10 DEF fwdConnectStart
-----------------------------------------------------------------------------
(* The lists of servers. *)

(* peerAddFwdServer keeps a list a list of servers the request may go to.    *)
LEMMA ServerAdded ==
  ASSUME NEW servers \in Seq(ServerType), NEW direct, ListOkay(servers, direct),
         NEW p \in AllPeers \cup {Direct}, NEW code \in {"hit", "miss", "parent", "direct"},
         direct = "no" => p # Direct, p \in Siblings => code = "hit"
  PROVE  /\ peerAddFwdServer(servers, p, code) \in Seq(ServerType)
         /\ ListOkay(peerAddFwdServer(servers, p, code), direct)
  <1> DEFINE new == [peer |-> p, code |-> code]
             list == Append(servers, new)
  <1>1. CASE \E i \in 1..Len(servers) : servers[i].peer = p
    BY <1>1 DEF peerAddFwdServer
  <1>2. CASE ~\E i \in 1..Len(servers) : servers[i].peer = p
    <2>1. new \in ServerType /\ new.peer = p /\ new.code = code
      BY DEF ServerType
    <2>2. peerAddFwdServer(servers, p, code) = list
      BY <1>2 DEF peerAddFwdServer
    <2> HIDE DEF new
    <2>3. /\ list \in Seq(ServerType) /\ Len(list) = Len(servers) + 1
          /\ \A i \in 1..Len(servers) : list[i] = servers[i]
          /\ list[Len(servers) + 1] = new /\ Len(servers) \in Nat
      BY <2>1, AppendProperties, LenProperties
    <2> HIDE DEF list
    <2>4. \A i \in 1..Len(list) : i \in 1..Len(servers) \/ i = Len(servers) + 1
      BY <2>3
    <2>5. ListOkay(list, direct)
      BY <1>2, <2>1, <2>3, <2>4 DEF ListOkay
    <2>. QED
      BY <2>2, <2>3, <2>5
  <1>. QED
    BY <1>1, <1>2

(* Adding all parents that are okay does, too.                               *)
LEMMA AllAdded ==
  ASSUME NEW servers \in Seq(ServerType), NEW direct, ListOkay(servers, direct), NEW ps
  PROVE  /\ AddAll(servers, ps) \in Seq(ServerType)
         /\ ListOkay(AddAll(servers, ps), direct)
  <1> DEFINE S == OkayParents(ps) \ {servers[i].peer : i \in 1..Len(servers)}
             new == SetToSeq(S)
             tail == [i \in 1..Len(new) |-> [peer |-> new[i], code |-> "parent"]]
             list == servers \o tail
  <1>1. S \subseteq AllPeers /\ S \subseteq Parents /\ IsFiniteSet(S)
    BY PeeringAssumption, FS_Subset DEF OkayParents, AllPeers
  <1> HIDE DEF S
  <1>2. new \in Seq(S) /\ IsInjective(new)
    BY <1>1, SetAsSequence
  <1> HIDE DEF new
  <1>3. /\ Len(new) \in Nat /\ \A i \in 1..Len(new) : new[i] \in S
        /\ \A i, j \in 1..Len(new) : new[i] = new[j] => i = j
    BY <1>2, ElementOfSeq, LenProperties DEF IsInjective
  <1>4. /\ tail \in Seq(ServerType) /\ Len(tail) = Len(new)
        /\ \A i \in 1..Len(new) : tail[i].peer = new[i] /\ tail[i].code = "parent"
    BY <1>1, <1>3 DEF ServerType
  <1> HIDE DEF tail
  <1>5. /\ list \in Seq(ServerType) /\ Len(list) = Len(servers) + Len(tail)
        /\ \A i \in 1..(Len(servers) + Len(tail)) :
              list[i] = IF i <= Len(servers) THEN servers[i] ELSE tail[i - Len(servers)]
        /\ Len(servers) \in Nat
    <2>1. tail \in Seq(ServerType)
      BY <1>4
    <2>2. Len(servers) \in Nat
      BY LenProperties
    <2>. QED
      BY <2>1, <2>2, ConcatProperties
  <1> HIDE DEF list
  <1>6. ASSUME NEW i \in 1..Len(list)
        PROVE  \/ i \in 1..Len(servers) /\ list[i] = servers[i]
               \/ i - Len(servers) \in 1..Len(new) /\ list[i] = tail[i - Len(servers)]
    BY <1>3, <1>4, <1>5
  <1>7. \A i \in 1..Len(servers), j \in 1..Len(new) : servers[i].peer # tail[j].peer
    BY <1>3, <1>4 DEF S
  <1>8. \A j \in 1..Len(new) : /\ tail[j].peer \in Parents
                               /\ tail[j].peer # Direct /\ tail[j].peer \notin Siblings
    BY <1>1, <1>3, <1>4, PeeringAssumption DEF AllPeers
  <1>9. ASSUME NEW i \in 1..Len(list)
        PROVE  /\ direct = "no" => list[i].peer # Direct
               /\ list[i].peer \in Siblings => list[i].code = "hit"
    BY <1>6, <1>8 DEF ListOkay
  <1>10. ASSUME NEW i \in 1..Len(list), NEW j \in 1..Len(list), list[i].peer = list[j].peer
         PROVE  i = j
    <2>1. CASE i \in 1..Len(servers) /\ list[i] = servers[i]
      BY <1>6, <1>7, <1>10, <2>1 DEF ListOkay
    <2>2. CASE i - Len(servers) \in 1..Len(new) /\ list[i] = tail[i - Len(servers)]
      <3>1. j - Len(servers) \in 1..Len(new) /\ list[j] = tail[j - Len(servers)]
        BY <1>6, <1>7, <1>10, <2>2
      <3>2. i - Len(servers) = j - Len(servers)
        BY <1>3, <1>4, <1>10, <2>2, <3>1
      <3>. QED
        BY <1>5, <3>2
    <2>. QED
      BY <1>6, <2>1, <2>2
  <1>11. AddAll(servers, ps) = list
    BY DEF AddAll, list, tail, new, S
  <1>. QED
    BY <1>5, <1>9, <1>10, <1>11 DEF ListOkay

(* Whatever peer_select.c adds to what the replies selected may be used.     *)
LEMMA ServersAllowed ==
  ASSUME NEW first \in Seq(ServerType), NEW direct, ListOkay(first, direct), NEW ps,
         NEW s \in Servers(ps, direct, first)
  PROVE  s \in Seq(ServerType) /\ ListOkay(s, direct)
  <1> DEFINE okay == OkayParents(ps)
             Good(l) == l \in Seq(ServerType) /\ ListOkay(l, direct)
             some == IF okay = {} THEN {first}
                     ELSE {peerAddFwdServer(first, p, "parent") : p \in okay}
             last == peerAddFwdServer(first, Direct, "direct")
  <1>0. Direct \notin Siblings /\ okay \subseteq AllPeers /\ Direct \notin okay
        /\ okay \cap Siblings = {}
    BY PeeringAssumption DEF AllPeers, OkayParents
  <1> HIDE DEF okay
  <1>1. ASSUME NEW l, Good(l), NEW p \in okay PROVE Good(peerAddFwdServer(l, p, "parent"))
    BY <1>0, <1>1, ServerAdded
  <1>2. ASSUME NEW l, Good(l), direct # "no" PROVE Good(peerAddFwdServer(l, Direct, "direct"))
    BY <1>0, <1>2, ServerAdded
  <1>3. ASSUME NEW l, Good(l) PROVE Good(AddAll(l, ps))
    BY <1>3, AllAdded
  <1>4. Good(first)
    OBVIOUS
  <1> HIDE DEF Good
  <1>5. \A l \in some : Good(l)
    BY <1>1, <1>4
  <1> HIDE DEF some
  <1>6. direct # "no" => Good(last)
    BY <1>2, <1>4
  <1> HIDE DEF last
  <1>7. CASE direct = "yes"
    <2>1. s = last
      BY <1>7 DEF Servers, last
    <2>. QED
      BY <1>6, <1>7, <2>1 DEF Good
  <1>8. CASE direct = "no"
    <2>1. s \in {AddAll(l, ps) : l \in some}
      BY <1>8 DEF Servers, some, okay
    <2>. QED
      BY <1>3, <1>5, <2>1 DEF Good
  <1>9. CASE direct \notin {"yes", "no"}
    <2>1. s \in {last} \cup {peerAddFwdServer(l, Direct, "direct") : l \in some}
                       \cup {peerAddFwdServer(last, p, "parent") : p \in okay}
      BY <1>9 DEF Servers, some, okay, last
    <2>. QED
      BY <1>1, <1>2, <1>5, <1>6, <1>9, <2>1 DEF Good
  <1>. QED
    BY <1>7, <1>8, <1>9
-----------------------------------------------------------------------------
(* Selecting and selecting again. *)

(* Probing dead peers changes nothing that is counted.                       *)
LEMMA ProbedSame ==
  ASSUME PeeringInv, NEW r, NEW ps, Uncharged(r, ps), NEW looked, NEW ps1 \in Probed(ps, looked)
  PROVE  Uncharged(r, ps1)
  <1>1. ps \in PeersSoFar /\ DOMAIN ps = Peers
    BY DEF Uncharged, PeersSoFar
  <1>2. PICK S : ps1 = [p \in DOMAIN ps |-> IF p \in S THEN [ps[p] EXCEPT !.test_fd = TRUE]
                                            ELSE ps[p]]
    BY DEF Probed
  <1>3. ps1 \in PeersSoFar
    BY <1>1, <1>2 DEF PeersSoFar, PeerSoFar
  <1>4. \A p \in Peers : ps1[p].conn_open = ps[p].conn_open /\ ps1[p].idle = ps[p].idle
    BY <1>1, <1>2 DEF PeersSoFar, PeerSoFar
  <1>. QED
    BY <1>3, <1>4 DEF Uncharged

(* peerSelectCallback: the first server selected is connected to.            *)
LEMMA SelectedKeeps ==
  ASSUME PeeringInv, NEW r \in DOMAIN req, NEW ps, Uncharged(r, ps),
         NEW q \in RequestType, q.n_tries = 0, q.origin_tries = 0,
         NEW first \in Seq(ServerType), ListOkay(first, q.direct),
         peerSelectCallback(r, ps, q, first)
  PROVE  PeeringInv'
  <1>1. PICK ps1 \in Probed(ps, Parents), s \in Servers(ps, q.direct, first) :
           \/ Ends(r, ps1)
           \/ /\ s # <<>>
              /\ fwdConnectStart(r, ps1, [q EXCEPT !.servers = s, !.pinged = {},
                     !.expected = 0, !.n_recv = 0, !.miss = None])
    BY DEF peerSelectCallback
  <1>2. Uncharged(r, ps1)
    BY ProbedSame
  <1>3. CASE Ends(r, ps1)
    BY <1>2, <1>3, EndsKeeps
  <1>4. CASE /\ s # <<>>
             /\ fwdConnectStart(r, ps1, [q EXCEPT !.servers = s, !.pinged = {},
                    !.expected = 0, !.n_recv = 0, !.miss = None])
    <2> DEFINE z == [q EXCEPT !.servers = s, !.pinged = {},
                    !.expected = 0, !.n_recv = 0, !.miss = None]
    <2>1. s \in Seq(ServerType) /\ ListOkay(s, q.direct)
      BY ServersAllowed
    <2>2. /\ z \in RequestType /\ z.servers = s /\ z.direct = q.direct
          /\ z.pinged = {} /\ z.expected = 0 /\ z.n_recv = 0
          /\ z.n_tries = 0 /\ z.origin_tries = 0
      BY <2>1 DEF RequestType
    <2>3. fwdConnectStart(r, ps1, z)
      BY <1>4
    <2> HIDE DEF z
    <2>4. Listed(z)
      BY <2>1, <2>2, FS_EmptySet DEF Listed
    <2>5. Ready(z)
      BY <1>4, <2>2, <2>4, PeeringAssumption DEF Ready
    <2>. QED
      BY <1>2, <2>3, <2>5, ConnectKeeps
  <1>. QED
    BY <1>1, <1>3, <1>4

(* The servers left when one has failed are still allowed, and there are some.*)
LEMMA NextServerOkay ==
  ASSUME NEW servers \in Seq(ServerType), servers # <<>>, NEW direct, ListOkay(servers, direct)
  PROVE  /\ NextServer(servers) \in Seq(ServerType) /\ NextServer(servers) # <<>>
         /\ ListOkay(NextServer(servers), direct)
  <1> DEFINE n == Len(servers)
             rest == Tail(servers)
             again == Append(rest, servers[1])
  <1>1. n \in Nat /\ n >= 1
    BY EmptySeq, LenProperties
  <1>2. /\ rest \in Seq(ServerType) /\ Len(rest) = n - 1
        /\ \A i \in 1..(n - 1) : rest[i] = servers[i + 1]
    BY HeadTailProperties
  <1>3. servers[1] \in ServerType
    BY <1>1, ElementOfSeq
  <1> HIDE DEF rest
  <1>4. CASE n = 1
    BY <1>4 DEF NextServer
  <1>5. CASE n > 1 /\ Last(servers).peer # Direct
    <2>1. NextServer(servers) = again
      BY <1>5 DEF NextServer, rest
    <2>2. /\ again \in Seq(ServerType) /\ Len(again) = n
          /\ \A i \in 1..(n - 1) : again[i] = servers[i + 1]
          /\ again[n] = servers[1]
      <3>1. /\ again \in Seq(ServerType) /\ Len(again) = Len(rest) + 1
            /\ \A i \in 1..Len(rest) : again[i] = rest[i]
            /\ again[Len(rest) + 1] = servers[1]
        BY <1>2, <1>3, AppendProperties
      <3> HIDE DEF again
      <3>. QED
        BY <1>1, <1>2, <3>1
    <2> HIDE DEF again
    <2>3. \A i \in 1..n : \E k \in 1..n :
             /\ again[i] = servers[k]
             /\ k = IF i = n THEN 1 ELSE i + 1
      <3> SUFFICES ASSUME NEW i \in 1..n
                   PROVE  \E k \in 1..n : again[i] = servers[k] /\ k = IF i = n THEN 1 ELSE i + 1
        OBVIOUS
      <3>1. CASE i = n
        BY <1>1, <2>2, <3>1
      <3>2. CASE i # n
        <4>1. i \in 1..(n - 1) /\ i + 1 \in 1..n
          BY <1>1, <3>2
        <4>. QED
          BY <2>2, <3>2, <4>1
      <3>. QED
        BY <3>1, <3>2
    <2>4. ASSUME NEW i \in 1..n, NEW j \in 1..n, again[i].peer = again[j].peer PROVE i = j
      <3>1. PICK k \in 1..n : again[i] = servers[k] /\ k = IF i = n THEN 1 ELSE i + 1
        BY <2>3
      <3>2. PICK l \in 1..n : again[j] = servers[l] /\ l = IF j = n THEN 1 ELSE j + 1
        BY <2>3
      <3>3. k = l
        BY <2>4, <3>1, <3>2 DEF ListOkay
      <3>. QED
        BY <1>1, <3>1, <3>2, <3>3
    <2>5. ASSUME NEW i \in 1..n
          PROVE  /\ direct = "no" => again[i].peer # Direct
                 /\ again[i].peer \in Siblings => again[i].code = "hit"
      <3>1. PICK k \in 1..n : again[i] = servers[k]
        BY <2>3
      <3>. QED
        BY <3>1 DEF ListOkay
    <2>6. again # <<>>
      BY <1>1, <2>2, EmptySeq
    <2>. QED
      BY <2>1, <2>2, <2>4, <2>5, <2>6 DEF ListOkay
  <1>6. CASE n # 1 /\ ~(n > 1 /\ Last(servers).peer # Direct)
    <2>1. NextServer(servers) = rest
      BY <1>6 DEF NextServer, rest
    <2>2. Len(rest) >= 1 /\ rest # <<>>
      BY <1>1, <1>2, <1>6, EmptySeq
    <2>3. ListOkay(rest, direct)
      <3>1. \A i \in 1..Len(rest) : i + 1 \in 1..n /\ rest[i] = servers[i + 1]
        BY <1>1, <1>2
      <3>2. /\ \A i \in 1..n : /\ direct = "no" => servers[i].peer # Direct
                              /\ servers[i].peer \in Siblings => servers[i].code = "hit"
            /\ \A i, j \in 1..n : servers[i].peer = servers[j].peer => i = j
        BY DEF ListOkay
      <3>3. ASSUME NEW i \in 1..Len(rest), NEW j \in 1..Len(rest),
                   rest[i].peer = rest[j].peer
            PROVE  i = j
        <4>1. i + 1 = j + 1
          BY <3>1, <3>2, <3>3
        <4>2. i \in Nat /\ j \in Nat
          BY <1>1, <1>2
        <4>. QED
          BY <4>1, <4>2
      <3>. QED
        BY <3>1, <3>2, <3>3 DEF ListOkay
    <2>. QED
      BY <1>2, <2>1, <2>2, <2>3
  <1>. QED
    BY <1>4, <1>5, <1>6

(* fwdServerClosed: later again, with the next server, or the end.           *)
LEMMA ServerClosedKeeps ==
  ASSUME PeeringInv, NEW r \in DOMAIN req, NEW ps, Uncharged(r, ps),
         req[r].stage \in {"connect", "reply"},
         fwdServerClosed(r, ps, req[r])
  PROVE  PeeringInv'
  <1> DEFINE q == req[r]
             z == [q EXCEPT !.fd = None, !.stage = "restart", !.servers = NextServer(@)]
  <1>1. Sound(q)
    BY DEF PeeringInv
  <1>2. CASE fwdCheckRetry(q) /\ Goes(r, ps, z)
    <2>1. /\ q \in RequestType /\ q.servers \in Seq(ServerType) /\ q.servers # <<>>
          /\ ListOkay(q.servers, q.direct)
      BY <1>1 DEF Sound, Listed, RequestType
    <2>2. /\ NextServer(q.servers) \in Seq(ServerType) /\ NextServer(q.servers) # <<>>
          /\ ListOkay(NextServer(q.servers), q.direct)
      BY <2>1, NextServerOkay
    <2>3. /\ z \in RequestType /\ z.servers = NextServer(q.servers) /\ z.direct = q.direct
          /\ z.pinged = q.pinged /\ z.expected = q.expected /\ z.n_recv = q.n_recv
          /\ z.n_tries = q.n_tries /\ z.origin_tries = q.origin_tries
          /\ z.fd = None /\ z.stage = "restart"
      BY <2>1, <2>2 DEF RequestType, Stages
    <2> HIDE DEF z
    <2>4. Listed(z)
      BY <1>1, <2>2, <2>3 DEF Sound, Listed
    <2>5. Ready(z)
      BY <1>2, <2>2, <2>3, <2>4 DEF Ready, fwdCheckRetry
    <2>6. Sound(z)
      BY <2>3, <2>4, <2>5 DEF Sound
    <2>. QED
      BY <1>2, <2>3, <2>6, WaitsKeeps
  <1>3. CASE Ends(r, ps)
    BY <1>3, EndsKeeps
  <1>. QED
    BY <1>2, <1>3 DEF fwdServerClosed
-----------------------------------------------------------------------------
(* The handlers. *)

(* Peers whose connections do not change stay uncharged by r.                *)
LEMMA SameUncharged ==
  ASSUME NEW r, Uncharged(r, peer), NEW ps, SameCharges(ps)
  PROVE  Uncharged(r, ps)
  BY DEF Uncharged, SameCharges

(* A handler that leaves the connection of r where it is.                    *)
LEMMA SameKeeps ==
  ASSUME PeeringInv, NEW r \in DOMAIN req, NEW ps, SameCharges(ps),
         NEW q, Sound(q), q.fd = req[r].fd, Goes(r, ps, q)
  PROVE  PeeringInv'
  <1>1. \A p \in Peers : ps[p].conn_open = ps[p].idle + Cardinality(Others(r, p))
                                           + (IF q.fd = p THEN 1 ELSE 0)
    BY ChargedNow DEF SameCharges
  <1>. QED
    BY <1>1, GoesKeeps DEF SameCharges

(* A handler of a peer, that no request sees.                                *)
LEMMA PeerKeeps ==
  ASSUME PeeringInv, req' = req, peer' \in PeersSoFar,
         \A p \in Peers : /\ peer'[p].conn_open - peer'[p].idle
                               = peer[p].conn_open - peer[p].idle
                          /\ peer'[p].conn_open \in Nat
  PROVE  PeeringInv'
  <1>1. Peers' = Peers
    BY DEF Peers, PeersSoFar
  <1>2. TypeOK'
    <2>1. peer' \in [Peers -> PeerType]
      BY DEF PeersSoFar, PeerSoFar, PeerType
    <2>. QED
      BY <1>1, <2>1 DEF PeeringInv, TypeOK
  <1>3. ASSUME NEW p \in Peers
        PROVE  peer'[p].conn_open = peer'[p].idle
                                    + Cardinality({u \in DOMAIN req : req[u].fd = p})
    <2> DEFINE n == Cardinality({u \in DOMAIN req : req[u].fd = p})
    <2>1. peer[p].conn_open = peer[p].idle + n
      BY DEF PeeringInv, ConnOpenExact
    <2>2. n \in Nat
      <3>1. {u \in DOMAIN req : req[u].fd = p} \in SUBSET Requests
        BY DEF PeeringInv, TypeOK
      <3>. QED
        BY <3>1, PeeringAssumption, FS_Subset, FS_CardinalityType
    <2>3. /\ peer[p].idle \in Int /\ peer'[p].idle \in Int
          /\ peer[p].conn_open \in Int /\ peer'[p].conn_open \in Int
      BY DEF PeeringInv, TypeOK, PeerType, PeersSoFar, PeerSoFar
    <2> HIDE DEF n
    <2>4. peer'[p].conn_open = peer'[p].idle + n
      BY <2>1, <2>2, <2>3
    <2>. QED
      BY <2>4 DEF n
  <1>4. ConnOpenExact'
    BY <1>1, <1>3 DEF ConnOpenExact
  <1>5. \A u \in DOMAIN req' : Sound(req'[u])
    BY DEF PeeringInv
  <1>. QED
    BY <1>2, <1>4, <1>5 DEF PeeringInv, Sound, Listed, Ready, ListOkay

(* Failures, successes and replies of a peer change nothing that is counted. *)
LEMMA PeerStates ==
  ASSUME PeeringInv, NEW p \in Peers
  PROVE  /\ SameCharges(peer)
         /\ SameCharges(peerConnectFailed(peer, p))
         /\ SameCharges(peerConnectSucceded(peer, p))
         /\ SameCharges(neighborAlive(peer, p))
  <1>1. peer \in PeersSoFar
    BY DEF PeeringInv, TypeOK, PeerType, PeersSoFar, PeerSoFar
  <1>2. /\ peer[p].tcp_up \in 0..PEER_TCP_MAGIC_COUNT /\ peer[p].alive \in BOOLEAN
        /\ PEER_TCP_MAGIC_COUNT \in 0..PEER_TCP_MAGIC_COUNT
    BY <1>1, PeeringAssumption DEF PeersSoFar, PeerSoFar
  <1>3. SameCharges(peer)
    BY <1>1 DEF SameCharges
  <1>4. ASSUME NEW up \in 0..PEER_TCP_MAGIC_COUNT, NEW a \in BOOLEAN,
               NEW ps, ps = [peer EXCEPT ![p].tcp_up = up, ![p].alive = a]
        PROVE  SameCharges(ps)
    BY <1>1, <1>4 DEF SameCharges, PeersSoFar, PeerSoFar
  <1>5. SameCharges(peerConnectFailed(peer, p))
    <2>1. CASE peer[p].tcp_up = 0
      BY <1>3, <2>1 DEF peerConnectFailed
    <2>2. CASE peer[p].tcp_up # 0
      <3> DEFINE a == peer[p].alive /\ peer[p].tcp_up > 1
                 up == peer[p].tcp_up - 1
      <3>1. up \in 0..PEER_TCP_MAGIC_COUNT
        BY <1>2, <2>2, PeeringAssumption
      <3>2. a \in BOOLEAN
        OBVIOUS
      <3>3. peerConnectFailed(peer, p) = [peer EXCEPT ![p].tcp_up = up, ![p].alive = a]
        BY <2>2 DEF peerConnectFailed
      <3> HIDE DEF a, up
      <3>. QED
        BY <1>4, <3>1, <3>2, <3>3
    <2>. QED
      BY <2>1, <2>2
  <1>6. SameCharges(peerConnectSucceded(peer, p))
    <2> DEFINE a == peer[p].alive \/ peer[p].tcp_up = 0
    <2>1. a \in BOOLEAN
      OBVIOUS
    <2>2. peerConnectSucceded(peer, p)
            = [peer EXCEPT ![p].tcp_up = PEER_TCP_MAGIC_COUNT, ![p].alive = a]
      BY DEF peerConnectSucceded
    <2> HIDE DEF a
    <2>. QED
      BY <1>2, <1>4, <2>1, <2>2
  <1>7. SameCharges(neighborAlive(peer, p))
    <2>1. ASSUME NEW a \in BOOLEAN, NEW one, one = [peer[p] EXCEPT !.probe = "no", !.alive = a],
                 NEW ps, ps = [peer EXCEPT ![p] = one]
          PROVE  SameCharges(ps)
      <3>1. one \in PeerSoFar /\ one.conn_open = peer[p].conn_open /\ one.idle = peer[p].idle
        BY <1>1, <2>1 DEF PeersSoFar, PeerSoFar
      <3>. QED
        BY <1>1, <2>1, <3>1 DEF SameCharges, PeersSoFar
    <2> DEFINE a == peer[p].alive \/ peer[p].tcp_up > 0
    <2>2. a \in BOOLEAN
      OBVIOUS
    <2>3. neighborAlive(peer, p)
            = [peer EXCEPT ![p] = [peer[p] EXCEPT !.probe = "no", !.alive = a]]
      BY <1>1 DEF neighborAlive, PeersSoFar
    <2> HIDE DEF a
    <2>. QED
      BY <2>1, <2>2, <2>3
  <1>. QED
    BY <1>3, <1>5, <1>6, <1>7

(* Nothing is charged for a request that has no connection.                  *)
LEMMA FreeOf ==
  ASSUME PeeringInv, NEW r \in DOMAIN req, req[r].stage \notin {"connect", "reply"}
  PROVE  Uncharged(r, peer) /\ req[r].fd = None
  <1>1. req[r] \in RequestType /\ Sound(req[r])
    BY DEF PeeringInv, TypeOK
  <1>2. req[r].fd = None
    BY <1>1 DEF Sound, RequestType, Stages
  <1>3. None \notin Peers
    BY PeeringAssumption DEF PeeringInv, TypeOK
  <1>. QED
    BY <1>2, <1>3, NothingCharged

(* neighborsUdpPing marks peers dead and asked, and connects to none.        *)
LEMMA PingedSame ==
  ASSUME PeeringInv, NEW r, NEW ps, Uncharged(r, ps), NEW pinged
  PROVE  Uncharged(r, neighborsUdpPing(ps, pinged))
  <1> DEFINE ps1 == neighborsUdpPing(ps, pinged)
  <1>1. ps \in PeersSoFar
    BY DEF Uncharged
  <1>2. ASSUME NEW p \in Peers
        PROVE  /\ ps1[p] \in PeerSoFar
               /\ ps1[p].conn_open = ps[p].conn_open /\ ps1[p].idle = ps[p].idle
    <2>0. ps[p] \in PeerSoFar
      BY <1>1 DEF PeersSoFar
    <2>1. CASE p \notin pinged
      BY <2>0, <2>1 DEF neighborsUdpPing
    <2>2. CASE p \in pinged
      <3> DEFINE up == neighborUp(ps, p)
                 probe == IF ps[p].probe = "no" THEN "asked" ELSE ps[p].probe
      <3>1. up \in BOOLEAN
        BY DEF neighborUp
      <3>2. probe \in {"no", "asked", "late"}
        BY <2>0 DEF PeerSoFar
      <3>3. ps1[p] = [ps[p] EXCEPT !.alive = up, !.probe = probe]
        BY <2>0, <2>2 DEF neighborsUdpPing, PeerSoFar
      <3> HIDE DEF up, probe, ps1
      <3>. QED
        BY <2>0, <3>1, <3>2, <3>3 DEF PeerSoFar
    <2>. QED
      BY <2>1, <2>2
  <1>3. ps1 \in PeersSoFar
    BY <1>2 DEF PeersSoFar, neighborsUdpPing
  <1>. QED
    BY <1>2, <1>3 DEF Uncharged

(* A request is forwarded: queries are sent, or a server is selected at once.*)
LEMMA StartKeeps ==
  ASSUME PeeringInv, NEW r \in DOMAIN req, NEW d \in {"yes", "maybe", "no"},
         NEW h \in BOOLEAN, fwdStart(r, d, h)
  PROVE  PeeringInv'
  <1> DEFINE q == [NoRequest EXCEPT !.valid = TRUE, !.direct = d]
             icp == d # "yes" /\ (h \/ d = "no")
  <1>1. Uncharged(r, peer)
    BY FreeOf DEF fwdStart
  <1>2. /\ q \in RequestType /\ q.n_tries = 0 /\ q.origin_tries = 0 /\ q.servers = <<>>
        /\ q.n_recv = 0 /\ q.fd = None /\ q.direct = d
    <2>1. NoRequest \in RequestType
      BY NothingSound DEF Sound, Listed
    <2>. QED
      BY <2>1 DEF NoRequest, RequestType
  <1>3. <<>> \in Seq(ServerType) /\ ListOkay(<<>>, d)
    BY DEF ListOkay
  <1>4. CASE ~icp
    <2>1. peerSelectCallback(r, peer, q, <<>>)
      BY <1>4 DEF fwdStart
    <2> HIDE DEF q
    <2>. QED
      BY <1>1, <1>2, <1>3, <2>1, SelectedKeeps
  <1>5. CASE icp
    <2>1. PICK ps \in Probed(peer, Peers),
               dead \in SUBSET {p \in Peers : ~neighborUp(peer, p)} :
             LET up == {p \in Peers : neighborUp(ps, p)}
                 pinged == (up \cup dead) \ IF h THEN {} ELSE Siblings
                 ps1 == neighborsUdpPing(ps, pinged)
                 expected == Cardinality(pinged \cap up)
             IN  IF expected = 0 THEN peerSelectCallback(r, ps1, q, <<>>)
                 ELSE Goes(r, ps1, [q EXCEPT !.stage = "ping",
                           !.pinged = pinged, !.expected = expected])
      BY <1>5 DEF fwdStart
    <2> DEFINE up == {p \in Peers : neighborUp(ps, p)}
               pinged == (up \cup dead) \ IF h THEN {} ELSE Siblings
               ps1 == neighborsUdpPing(ps, pinged)
               expected == Cardinality(pinged \cap up)
               z == [q EXCEPT !.stage = "ping", !.pinged = pinged, !.expected = expected]
    <2>2. \/ peerSelectCallback(r, ps1, q, <<>>)
          \/ expected # 0 /\ Goes(r, ps1, z)
      BY <2>1
    <2>3. pinged \subseteq AllPeers
      BY DEF PeeringInv, TypeOK
    <2> HIDE DEF pinged, up
    <2>4. Uncharged(r, ps1)
      BY <1>1, ProbedSame, PingedSame
    <2>5. /\ IsFiniteSet(pinged) /\ expected <= Cardinality(pinged)
          /\ expected \in Nat /\ Cardinality(pinged) \in Nat
      <3>1. IsFiniteSet(pinged)
        BY <2>3, PeeringAssumption, FS_Subset
      <3>2. pinged \cap up \in SUBSET pinged
        OBVIOUS
      <3>3. IsFiniteSet(pinged \cap up) /\ Cardinality(pinged \cap up) <= Cardinality(pinged)
        BY <3>1, <3>2, FS_Subset
      <3>. QED
        BY <3>1, <3>3, FS_CardinalityType
    <2> HIDE DEF expected, ps1
    <2>6. CASE peerSelectCallback(r, ps1, q, <<>>)
      <3> HIDE DEF q
      <3>. QED
        BY <1>2, <1>3, <2>4, <2>6, SelectedKeeps
    <2>7. CASE expected # 0 /\ Goes(r, ps1, z)
      <3>1. /\ z \in RequestType /\ z.n_tries = 0 /\ z.origin_tries = 0 /\ z.servers = <<>>
            /\ z.n_recv = 0 /\ z.fd = None /\ z.direct = d /\ z.stage = "ping"
            /\ z.expected = expected /\ z.pinged = pinged
        <4> HIDE DEF q
        <4>. QED
          BY <1>2, <2>3, <2>5 DEF RequestType, Stages
      <3> HIDE DEF z
      <3>2. Listed(z)
        BY <1>3, <2>5, <3>1 DEF Listed
      <3>3. Sound(z)
        BY <2>5, <2>7, <3>1, <3>2 DEF Sound
      <3>. QED
        BY <2>4, <2>7, <3>1, <3>3, WaitsKeeps
    <2>. QED
      BY <2>2, <2>6, <2>7
  <1>. QED
    BY <1>4, <1>5

(* What the replies select may be used.                                      *)
LEMMA RepliesAllowed ==
  ASSUME NEW q \in RequestType, NEW hit \in AllPeers \cup {None}
  PROVE  Replies(q, hit) \in Seq(ServerType) /\ ListOkay(Replies(q, hit), q.direct)
  <1>1. ASSUME NEW x \in ServerType, x.peer # Direct, x.peer \in Siblings => x.code = "hit"
        PROVE  <<x>> \in Seq(ServerType) /\ ListOkay(<<x>>, q.direct)
    BY <1>1 DEF ListOkay
  <1>2. CASE hit # None
    <2> DEFINE x == [peer |-> hit, code |-> "hit"]
    <2>1. x \in ServerType /\ x.peer # Direct /\ x.code = "hit"
      BY <1>2, PeeringAssumption DEF ServerType
    <2>2. Replies(q, hit) = <<x>>
      BY <1>2 DEF Replies
    <2> HIDE DEF x
    <2>. QED
      BY <1>1, <2>1, <2>2
  <1>3. CASE hit = None /\ q.miss # None
    <2> DEFINE x == [peer |-> q.miss, code |-> "miss"]
    <2>1. x \in ServerType /\ x.peer # Direct /\ x.peer \notin Siblings
      BY <1>3, PeeringAssumption DEF ServerType, RequestType, AllPeers
    <2>2. Replies(q, hit) = <<x>>
      BY <1>3 DEF Replies
    <2> HIDE DEF x
    <2>. QED
      BY <1>1, <2>1, <2>2
  <1>4. CASE hit = None /\ q.miss = None
    <2>1. Replies(q, hit) = <<>>
      BY <1>4 DEF Replies
    <2>. QED
      BY <2>1 DEF ListOkay
  <1>. QED
    BY <1>2, <1>3, <1>4

(* An ICP reply, hit or miss, in any order and from any peer asked.          *)
LEMMA ReplyKeeps ==
  ASSUME PeeringInv, NEW r \in DOMAIN req, NEW p \in Peers,
         NEW op \in {"hit", "miss", "nofetch"}, IcpReply(r, p, op)
  PROVE  PeeringInv'
  <1> DEFINE q == req[r]
             ps == neighborAlive(peer, p)
  <1>1. q \in RequestType /\ Sound(q) /\ q.stage = "ping"
    BY DEF PeeringInv, TypeOK, IcpReply
  <1>2. Uncharged(r, ps) /\ q.fd = None
    BY <1>1, FreeOf, PeerStates, SameUncharged
  <1>3. q.n_tries = 0 /\ q.origin_tries = 0 /\ q.servers = <<>> /\ q.n_recv < q.expected
    BY <1>1 DEF Sound
  <1>4. p \in AllPeers /\ p # None
    BY PeeringAssumption DEF PeeringInv, TypeOK
  <1> HIDE DEF ps
  <1>5. CASE op = "hit"
    <2>1. peerSelectCallback(r, ps, q, Replies(q, p))
      BY <1>5 DEF IcpReply, ps
    <2>. QED
      BY <1>1, <1>2, <1>3, <1>4, <2>1, RepliesAllowed, SelectedKeeps
  <1>6. CASE op # "hit"
    <2>1. PICK m \in peerIcpParentMiss(q, p, op) :
             LET q1 == [q EXCEPT !.n_recv = @ + 1, !.miss = m]
             IN  IF q1.n_recv < q.expected THEN Goes(r, ps, q1)
                 ELSE peerSelectCallback(r, ps, q1, Replies(q1, None))
      BY <1>6 DEF IcpReply, ps
    <2> DEFINE q1 == [q EXCEPT !.n_recv = @ + 1, !.miss = m]
    <2>2. m \in Parents \cup {None}
      BY <1>1 DEF peerIcpParentMiss, RequestType
    <2>3. /\ q1 \in RequestType /\ q1.n_tries = 0 /\ q1.origin_tries = 0
          /\ q1.servers = q.servers /\ q1.direct = q.direct /\ q1.expected = q.expected
          /\ q1.pinged = q.pinged /\ q1.n_recv = q.n_recv + 1 /\ q1.stage = "ping"
          /\ q1.fd = q.fd
      <3>1. q.n_recv + 1 \in Nat
        BY <1>1 DEF RequestType
      <3> HIDE DEF q
      <3>. QED
        BY <1>1, <1>3, <2>2, <3>1 DEF RequestType
    <2>4. \/ q1.n_recv < q.expected /\ Goes(r, ps, q1)
          \/ peerSelectCallback(r, ps, q1, Replies(q1, None))
      BY <2>1
    <2> HIDE DEF q1
    <2>5. CASE q1.n_recv < q.expected /\ Goes(r, ps, q1)
      <3>1. Listed(q1)
        BY <1>1, <2>3, <2>5 DEF Sound, Listed, RequestType
      <3>2. Sound(q1)
        BY <1>2, <1>3, <2>3, <2>5, <3>1 DEF Sound
      <3>. QED
        BY <1>2, <2>3, <2>5, <3>2, WaitsKeeps
    <2>6. CASE peerSelectCallback(r, ps, q1, Replies(q1, None))
      BY <1>2, <2>3, <2>6, RepliesAllowed, SelectedKeeps
    <2>. QED
      BY <2>4, <2>5, <2>6
  <1>. QED
    BY <1>5, <1>6

(* No answer has come in time.                                               *)
LEMMA TimeoutKeeps ==
  ASSUME PeeringInv, NEW r \in DOMAIN req, peerPingTimeout(r)
  PROVE  PeeringInv'
  <1>1. req[r] \in RequestType /\ Sound(req[r]) /\ req[r].stage = "ping"
    BY DEF PeeringInv, TypeOK, peerPingTimeout
  <1>2. Uncharged(r, peer)
    BY <1>1, FreeOf
  <1>3. req[r].n_tries = 0 /\ req[r].origin_tries = 0
    BY <1>1 DEF Sound
  <1>. QED
    BY <1>1, <1>2, <1>3, RepliesAllowed, SelectedKeeps DEF peerPingTimeout

(* The connection is made.                                                   *)
LEMMA DispatchKeeps ==
  ASSUME PeeringInv, NEW r \in DOMAIN req, fwdDispatch(r)
  PROVE  PeeringInv'
  <1> DEFINE q == req[r]
             ps == IF q.fd \in Peers THEN peerConnectSucceded(peer, q.fd) ELSE peer
             z == [q EXCEPT !.stage = "reply"]
  <1>1. q \in RequestType /\ Sound(q) /\ q.stage = "connect"
    BY DEF PeeringInv, TypeOK, fwdDispatch
  <1>2. SameCharges(ps)
    <2>1. peer \in PeersSoFar
      BY DEF PeeringInv, TypeOK, PeerType, PeersSoFar, PeerSoFar
    <2>2. SameCharges(peer)
      BY <2>1 DEF SameCharges
    <2>. QED
      BY <2>2, PeerStates
  <1>3. Goes(r, ps, z)
    BY DEF fwdDispatch
  <1> HIDE DEF ps, q
  <1>4. /\ z \in RequestType /\ z.n_tries = q.n_tries /\ z.origin_tries = q.origin_tries
        /\ z.servers = q.servers /\ z.direct = q.direct /\ z.expected = q.expected
        /\ z.pinged = q.pinged /\ z.n_recv = q.n_recv /\ z.stage = "reply"
        /\ z.fd = q.fd
    BY <1>1 DEF RequestType, Stages
  <1> HIDE DEF z
  <1>5. Sound(z)
    BY <1>1, <1>4 DEF Sound, Listed
  <1>. QED
    BY <1>2, <1>3, <1>4, <1>5, SameKeeps DEF q

(* The connection cannot be made.                                            *)
LEMMA FailKeeps ==
  ASSUME PeeringInv, NEW r \in DOMAIN req, NEW dns \in BOOLEAN, ConnectFail(r, dns)
  PROVE  PeeringInv'
  <1> DEFINE p == req[r].servers[1].peer
             ps == IF p \in Peers /\ ~dns THEN peerConnectFailed(peer, p) ELSE peer
  <1>1. Sound(req[r]) /\ req[r].stage = "connect"
    BY DEF PeeringInv, ConnectFail
  <1>2. SameCharges(ps)
    <2>1. peer \in PeersSoFar
      BY DEF PeeringInv, TypeOK, PeerType, PeersSoFar, PeerSoFar
    <2>2. SameCharges(peer)
      BY <2>1 DEF SameCharges
    <2>. QED
      BY <2>2, PeerStates
  <1>3. CASE p = Direct /\ Ends(r, peer)
    <2>1. req[r].fd \notin Peers
      BY <1>1, <1>3, PeeringAssumption DEF Sound, PeeringInv, TypeOK
    <2>. QED
      BY <1>3, <2>1, NothingCharged, EndsKeeps
  <1>4. CASE fwdServerClosed(r, fwdPeerClosed(ps, req[r].fd), req[r])
    BY <1>1, <1>2, <1>4, ConnectionClosed, ServerClosedKeeps
  <1>. QED
    BY <1>3, <1>4 DEF ConnectFail

(* The server closes before the reply ends.                                  *)
LEMMA CloseKeeps ==
  ASSUME PeeringInv, NEW r \in DOMAIN req, ServerCloses(r)
  PROVE  PeeringInv'
  <1>1. peer \in PeersSoFar
    BY DEF PeeringInv, TypeOK, PeerType, PeersSoFar, PeerSoFar
  <1>2. SameCharges(peer)
    BY <1>1 DEF SameCharges
  <1>. QED
    BY <1>2, ConnectionClosed, ServerClosedKeeps DEF ServerCloses

(* The request is tried again.                                               *)
LEMMA RestartKeeps ==
  ASSUME PeeringInv, NEW r \in DOMAIN req, fwdRestart(r)
  PROVE  PeeringInv'
  <1>1. Sound(req[r]) /\ req[r].stage = "restart" /\ fwdConnectStart(r, peer, req[r])
    BY DEF PeeringInv, fwdRestart
  <1>2. Ready(req[r])
    BY <1>1 DEF Sound
  <1>. QED
    BY <1>1, <1>2, FreeOf, ConnectKeeps

(* The reply ends: the connection is kept or closed, the request is over or  *)
(* forwarded elsewhere.                                                      *)
LEMMA CompleteKeeps ==
  ASSUME PeeringInv, NEW r \in DOMAIN req, NEW keep \in BOOLEAN, fwdComplete(r, keep)
  PROVE  PeeringInv'
  <1> DEFINE q == req[r]
             ps == IF keep THEN [peer EXCEPT ![q.fd].idle = @ + 1]
                   ELSE fwdPeerClosed(peer, q.fd)
             z == [q EXCEPT !.servers = Tail(@), !.fd = None]
  <1>1. /\ q \in RequestType /\ Sound(q) /\ q.stage = "reply"
        /\ keep => q.fd \in Peers /\ peer[q.fd].idle < MaxIdle
    BY DEF PeeringInv, TypeOK, fwdComplete
  <1>2. peer \in PeersSoFar
    BY DEF PeeringInv, TypeOK, PeerType, PeersSoFar, PeerSoFar
  <1>3. Uncharged(r, ps)
    <2>1. CASE ~keep
      BY <1>2, <2>1, ConnectionClosed DEF SameCharges
    <2>2. CASE keep
      <3>0. peer[q.fd].idle + 1 \in 0..MaxIdle
        BY <1>1, <1>2, <2>2, PeeringAssumption DEF PeersSoFar, PeerSoFar
      <3>1. ps \in PeersSoFar
        BY <1>2, <2>2, <3>0 DEF PeersSoFar, PeerSoFar
      <3>2. ASSUME NEW p \in Peers
            PROVE  ps[p].conn_open = ps[p].idle + Cardinality(Others(r, p))
        <4>1. /\ peer[p].conn_open \in Int /\ peer[p].idle \in Int
              /\ Cardinality(Others(r, p)) \in Int
          BY OthersFinite DEF PeeringInv, TypeOK, PeerType
        <4>2. CASE q.fd = p
          <5>1. ps[p].conn_open = peer[p].conn_open /\ ps[p].idle = peer[p].idle + 1
            BY <1>2, <2>2, <4>2 DEF PeersSoFar, PeerSoFar
          <5>. QED
            BY <4>1, <4>2, <5>1, ChargedNow
        <4>3. CASE q.fd # p
          <5>1. ps[p] = peer[p]
            BY <1>2, <2>2, <4>3 DEF PeersSoFar
          <5>. QED
            BY <4>1, <4>3, <5>1, ChargedNow
        <4>. QED
          BY <4>2, <4>3
      <3>. QED
        BY <3>1, <3>2 DEF Uncharged
    <2>. QED
      BY <2>1, <2>2
  <1>4. \/ Ends(r, ps)
        \/ /\ q.n_tries < MaxTries /\ q.origin_tries < MaxOriginTries
           /\ Len(q.servers) > 1 /\ fwdConnectStart(r, ps, z)
    BY DEF fwdComplete
  <1> HIDE DEF ps, q
  <1>5. CASE Ends(r, ps)
    BY <1>3, <1>5, EndsKeeps DEF q
  <1>6. CASE /\ q.n_tries < MaxTries /\ q.origin_tries < MaxOriginTries
             /\ Len(q.servers) > 1 /\ fwdConnectStart(r, ps, z)
    <2> DEFINE n == Len(q.servers)
    <2>1. q.servers \in Seq(ServerType) /\ q.servers # <<>> /\ ListOkay(q.servers, q.direct)
      BY <1>1 DEF Sound, Listed, RequestType
    <2>2. /\ n \in Nat /\ Tail(q.servers) \in Seq(ServerType)
          /\ Len(Tail(q.servers)) = n - 1
          /\ \A i \in 1..(n - 1) : Tail(q.servers)[i] = q.servers[i + 1]
      BY <2>1, HeadTailProperties, LenProperties
    <2>3. ListOkay(Tail(q.servers), q.direct)
      BY <2>1, <2>2 DEF ListOkay
    <2>4. Tail(q.servers) # <<>>
      BY <1>6, <2>2, EmptySeq
    <2>5. /\ z \in RequestType /\ z.n_tries = q.n_tries /\ z.origin_tries = q.origin_tries
          /\ z.servers = Tail(q.servers) /\ z.direct = q.direct /\ z.expected = q.expected
          /\ z.pinged = q.pinged /\ z.n_recv = q.n_recv
      BY <1>1, <2>2 DEF RequestType
    <2>6. fwdConnectStart(r, ps, z)
      BY <1>6
    <2> HIDE DEF z
    <2>7. Listed(z)
      BY <1>1, <2>3, <2>5 DEF Sound, Listed
    <2>8. q.n_tries <= MaxTries /\ q.origin_tries <= MaxOriginTries
      BY <1>1, <1>6, PeeringAssumption DEF RequestType
    <2>9. Ready(z)
      BY <2>4, <2>5, <2>7, <2>8 DEF Ready
    <2>. QED
      BY <1>3, <2>6, <2>9, ConnectKeeps
  <1>. QED
    BY <1>4, <1>5, <1>6

(* The client goes away.                                                     *)
LEMMA AbortKeeps ==
  ASSUME PeeringInv, NEW r \in DOMAIN req, fwdAbort(r)
  PROVE  PeeringInv'
  <1> DEFINE q == req[r]
             z == [q EXCEPT !.valid = FALSE]
  <1>1. q \in RequestType /\ Sound(q)
    BY DEF PeeringInv, TypeOK
  <1>2. peer \in PeersSoFar
    BY DEF PeeringInv, TypeOK, PeerType, PeersSoFar, PeerSoFar
  <1>3. SameCharges(peer)
    BY <1>2 DEF SameCharges
  <1>4. CASE q.stage = "ping" /\ Goes(r, peer, z)
    <2>1. Goes(r, peer, z)
      BY <1>4
    <2> HIDE DEF q
    <2>2. /\ z \in RequestType /\ z.n_tries = q.n_tries /\ z.origin_tries = q.origin_tries
          /\ z.servers = q.servers /\ z.direct = q.direct /\ z.expected = q.expected
          /\ z.pinged = q.pinged /\ z.n_recv = q.n_recv /\ z.stage = q.stage
          /\ z.fd = q.fd
      BY <1>1 DEF RequestType
    <2> HIDE DEF z
    <2>3. Sound(z)
      BY <1>1, <1>4, <2>2 DEF Sound, Listed
    <2>. QED
      BY <1>3, <2>1, <2>2, <2>3, SameKeeps DEF q
  <1>5. CASE Ends(r, fwdPeerClosed(peer, q.fd))
    BY <1>3, <1>5, ConnectionClosed, EndsKeeps
  <1>. QED
    BY <1>4, <1>5 DEF fwdAbort

(* Replies that nobody waits for, probes, timers and idle connections.       *)
LEMMA PeerStepKeeps ==
  ASSUME PeeringInv, NEW p \in Peers,
         \/ LateReply(p) \/ DeadTimeout(p) \/ IdleClosed(p)
         \/ \E ok \in BOOLEAN : peerProbeConnectDone(p, ok)
  PROVE  PeeringInv'
  <1>1. peer \in PeersSoFar
    BY DEF PeeringInv, TypeOK, PeerType, PeersSoFar, PeerSoFar
  <1>2. \A x \in Peers : /\ peer[x].conn_open \in Nat /\ peer[x].idle \in 0..MaxIdle
                         /\ peer[x].conn_open >= peer[x].idle
    <2>1. ASSUME NEW x \in Peers
          PROVE  peer[x].conn_open \in Nat /\ peer[x].idle \in 0..MaxIdle
      BY DEF PeeringInv, TypeOK, PeerType
    <2>2. ASSUME NEW x \in Peers PROVE peer[x].conn_open >= peer[x].idle
      <3> DEFINE n == Cardinality({u \in DOMAIN req : req[u].fd = x})
      <3>1. peer[x].conn_open = peer[x].idle + n
        BY DEF PeeringInv, ConnOpenExact
      <3>2. n \in Nat
        <4>1. {u \in DOMAIN req : req[u].fd = x} \in SUBSET Requests
          BY DEF PeeringInv, TypeOK
        <4>. QED
          BY <4>1, PeeringAssumption, FS_Subset, FS_CardinalityType
      <3> HIDE DEF n
      <3>. QED
        BY <2>1, <3>1, <3>2
    <2>. QED
      BY <2>1, <2>2
  <1>3. ASSUME SameCharges(peer'), req' = req PROVE PeeringInv'
    BY <1>2, <1>3, PeerKeeps DEF SameCharges
  <1>4. CASE LateReply(p)
    BY <1>3, <1>4, PeerStates DEF LateReply
  <1>5. CASE DeadTimeout(p)
    <2>1. peer' = [peer EXCEPT ![p].probe = "late"] /\ req' = req
      BY <1>5 DEF DeadTimeout
    <2>2. SameCharges(peer')
      BY <1>1, <2>1 DEF SameCharges, PeersSoFar, PeerSoFar
    <2>. QED
      BY <1>3, <2>1, <2>2
  <1>6. CASE IdleClosed(p)
    <2>0. /\ peer[p].idle > 0 /\ req' = req
          /\ peer' = fwdPeerClosed([peer EXCEPT ![p].idle = @ - 1], p)
      BY <1>6 DEF IdleClosed
    <2> DEFINE less == [peer EXCEPT ![p].idle = @ - 1]
    <2>1. peer' = [less EXCEPT ![p].conn_open = @ - 1]
      BY <2>0 DEF fwdPeerClosed
    <2>2. peer[p].idle - 1 \in 0..MaxIdle /\ peer[p].conn_open - 1 \in Nat
      BY <1>2, <2>0, PeeringAssumption
    <2>3. /\ less \in PeersSoFar /\ less[p].idle = peer[p].idle - 1
          /\ less[p].conn_open = peer[p].conn_open
          /\ \A x \in Peers \ {p} : less[x] = peer[x]
      BY <1>1, <2>2 DEF PeersSoFar, PeerSoFar
    <2> HIDE DEF less
    <2>5. /\ peer' \in PeersSoFar /\ peer'[p].idle = less[p].idle
          /\ peer'[p].conn_open = less[p].conn_open - 1
          /\ \A x \in Peers \ {p} : peer'[x] = less[x]
      BY <2>1, <2>3 DEF PeersSoFar, PeerSoFar
    <2>4. ASSUME NEW x \in Peers
          PROVE  /\ peer'[x].conn_open - peer'[x].idle = peer[x].conn_open - peer[x].idle
                 /\ peer'[x].conn_open \in Nat
      <3>1. CASE x = p
        <4>1. peer'[x].conn_open = peer[x].conn_open - 1 /\ peer'[x].idle = peer[x].idle - 1
          BY <2>3, <2>5, <3>1
        <4>. QED
          BY <1>2, <2>2, <3>1, <4>1
      <3>2. CASE x # p
        <4>1. peer'[x] = peer[x]
          BY <2>3, <2>5, <3>2
        <4>. QED
          BY <1>2, <4>1
      <3>. QED
        BY <3>1, <3>2
    <2>. QED
      BY <2>0, <2>4, <2>5, PeerKeeps
  <1>7. ASSUME NEW ok \in BOOLEAN, peerProbeConnectDone(p, ok) PROVE PeeringInv'
    <2>1. PICK ps : /\ SameCharges(ps) /\ peer' = [ps EXCEPT ![p].test_fd = FALSE]
                    /\ req' = req
      BY <1>7, PeerStates DEF peerProbeConnectDone
    <2>2. SameCharges(peer')
      BY <2>1 DEF SameCharges, PeersSoFar, PeerSoFar
    <2>. QED
      BY <1>3, <2>1, <2>2
  <1>. QED
    BY <1>4, <1>5, <1>6, <1>7
-----------------------------------------------------------------------------
(* The theorems. *)

(* No request is being forwarded at first, and no connection is open.        *)
LEMMA PeeringInvInit ==
  Init => PeeringInv
  <1> SUFFICES ASSUME Init PROVE PeeringInv
    OBVIOUS
  <1>1. PICK c \in Configurations : /\ peer = [p \in c.peers |-> NewPeer]
                                    /\ req = [r \in c.requests |-> NoRequest]
    BY DEF Init
  <1>2. c.peers \subseteq AllPeers /\ c.requests \subseteq Requests
    BY PeeringAssumption
  <1>3. Peers = c.peers /\ DOMAIN req = c.requests
    BY <1>1 DEF Peers
  <1>4. NewPeer \in PeerType /\ NewPeer.conn_open = 0 /\ NewPeer.idle = 0
    BY PeeringAssumption DEF NewPeer, PeerType
  <1>5. NoRequest \in RequestType /\ Sound(NoRequest) /\ NoRequest.fd = None
    BY NothingSound DEF Sound, Listed, NoRequest
  <1>6. TypeOK
    BY <1>1, <1>2, <1>3, <1>4, <1>5 DEF TypeOK
  <1>7. ConnOpenExact
    <2>1. ASSUME NEW p \in Peers
          PROVE  peer[p].conn_open = peer[p].idle
                                     + Cardinality({r \in DOMAIN req : req[r].fd = p})
      <3>1. {r \in DOMAIN req : req[r].fd = p} = {}
        BY <1>1, <1>2, <1>3, <1>5, PeeringAssumption
      <3>2. Cardinality({r \in DOMAIN req : req[r].fd = p}) = 0
        BY <3>1, FS_EmptySet
      <3>3. peer[p] = NewPeer
        BY <1>1, <1>3
      <3>. QED
        BY <1>4, <3>2, <3>3
    <2>. QED
      BY <2>1 DEF ConnOpenExact
  <1>8. \A r \in DOMAIN req : Sound(req[r])
    BY <1>1, <1>3, <1>5
  <1>. QED
    BY <1>6, <1>7, <1>8 DEF PeeringInv

(* Every handler keeps the invariant.                                        *)
LEMMA PeeringInvStep ==
  PeeringInv /\ [Next]_vars => PeeringInv'
  <1> SUFFICES ASSUME PeeringInv, [Next]_vars PROVE PeeringInv'
    OBVIOUS
  <1>1. ASSUME NEW r \in DOMAIN req,
               \/ \E d \in {"yes", "maybe", "no"}, h \in BOOLEAN : fwdStart(r, d, h)
               \/ \E p \in Peers, op \in {"hit", "miss", "nofetch"} : IcpReply(r, p, op)
               \/ peerPingTimeout(r) \/ fwdDispatch(r)
               \/ \E dns \in BOOLEAN : ConnectFail(r, dns)
               \/ ServerCloses(r) \/ fwdRestart(r)
               \/ \E keep \in BOOLEAN : fwdComplete(r, keep)
               \/ fwdAbort(r)
        PROVE  PeeringInv'
    BY <1>1, StartKeeps, ReplyKeeps, TimeoutKeeps, DispatchKeeps, FailKeeps,
       CloseKeeps, RestartKeeps, CompleteKeeps, AbortKeeps
  <1>2. ASSUME NEW p \in Peers,
               \/ LateReply(p) \/ DeadTimeout(p) \/ IdleClosed(p)
               \/ \E ok \in BOOLEAN : peerProbeConnectDone(p, ok)
        PROVE  PeeringInv'
    BY <1>2, PeerStepKeeps
  <1>3. CASE UNCHANGED vars
    <2>1. peer' = peer /\ req' = req
      BY <1>3 DEF vars
    <2>2. Peers' = Peers
      BY <2>1 DEF Peers
    <2>. QED
      BY <2>1, <2>2 DEF PeeringInv, TypeOK, ConnOpenExact, Sound, Listed, Ready, ListOkay
  <1>. QED
    BY <1>1, <1>2, <1>3 DEF Next

(* A peer is charged with exactly the connections open to it, and failures   *)
(* are blamed on the peer that failed: what max-conn and the revival of dead *)
(* peers rest on, after every failure, retry, re-forward and abort.          *)
THEOREM ConnectionsCounted == Spec => []ConnectionsConsistent
  <1>1. PeeringInv => ConnectionsConsistent
    <2> SUFFICES ASSUME PeeringInv PROVE ConnectionsConsistent
      OBVIOUS
    <2>1. \A r \in DOMAIN req : Sound(req[r]) /\ req[r].stage \in Stages
      BY DEF PeeringInv, TypeOK, RequestType
    <2>2. ListsExact
      BY <2>1 DEF ListsExact, Sound, Listed, ListOkay
    <2>3. HeadIsConnected
      BY <2>1 DEF HeadIsConnected, Sound, Ready, Stages
    <2>. QED
      BY <2>2, <2>3 DEF PeeringInv, ConnectionsConsistent
  <1>. QED
    BY <1>1, PeeringInvInit, PeeringInvStep, PTL DEF Spec

(* A request that must not go direct never does, by selection, retry or      *)
(* rotation, and a sibling is asked only for what it said it has.            *)
THEOREM OnlyAllowedServers == Spec => []AllowedServers
  <1>1. PeeringInv => AllowedServers
    <2> SUFFICES ASSUME PeeringInv, NEW r \in DOMAIN req
                 PROVE  /\ req[r].direct = "no" => req[r].fd # Direct
                        /\ \A i \in 1..Len(req[r].servers) : LET s == req[r].servers[i] IN
                              /\ req[r].direct = "no" => s.peer # Direct
                              /\ s.peer \in Siblings => s.code = "hit"
      BY DEF AllowedServers
    <2>1. Sound(req[r]) /\ req[r].stage \in Stages /\ req[r].servers \in Seq(ServerType)
      BY DEF PeeringInv, TypeOK, RequestType
    <2>2. ListOkay(req[r].servers, req[r].direct)
      BY <2>1 DEF Sound, Listed
    <2>3. req[r].direct = "no" => req[r].fd # Direct
      <3>1. CASE req[r].stage \in {"connect", "reply"}
        <4>1. 1 \in 1..Len(req[r].servers) /\ req[r].fd = req[r].servers[1].peer
          BY <2>1, <3>1, EmptySeq, LenProperties DEF Sound
        <4>. QED
          BY <2>2, <4>1 DEF ListOkay
      <3>2. CASE req[r].stage \notin {"connect", "reply"}
        BY <3>2, FreeOf, PeeringAssumption
      <3>. QED
        BY <3>1, <3>2
    <2>. QED
      BY <2>2, <2>3 DEF ListOkay
  <1>. QED
    BY <1>1, PeeringInvInit, PeeringInvStep, PTL DEF Spec
=============================================================================
