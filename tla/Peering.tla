------------------------------- MODULE Peering ------------------------------
(* Where a request is forwarded: peer selection with its ICP queries         *)
(* (peer_select.c, neighbors.c, icp_v2.c), connecting and retrying           *)
(* (forward.c), and the peers' state that both read and write: alive or      *)
(* dead, probed, connections open.                                           *)
(*                                                                           *)
(* ICP replies are lost, late or duplicated; connections fail, time out,     *)
(* close before or after the first byte; clients go away at any time.  Time  *)
(* is a choice: an interval has passed or not.  The results of the access    *)
(* lists are the choice of `direct'; netdb, digests, pinned connections,     *)
(* multicast groups and HTCP are not modelled, and the methods that prefer   *)
(* one usable parent to another are the choice of any.                       *)
EXTENDS Integers, Sequences, SequencesExt, FiniteSets

CONSTANTS
    Requests,           \* FwdState and ps_state structures
    Parents, Siblings,  \* peers by type
    Configurations,     \* the peers of Config.peers and the requests at a time
    Direct, None,
    max_conn,           \* 0: no limit
    PEER_TCP_MAGIC_COUNT,
    MaxTries,           \* n_tries > MaxTries is not retried (10)
    MaxOriginTries,     \* the same of origin_tries (2)
    MaxIdle             \* a bound on the idle connections to a peer

AllPeers == Parents \cup Siblings

ASSUME PeeringAssumption ==
    /\ Parents \cap Siblings = {} /\ {Direct, None} \cap AllPeers = {}
    /\ Direct # None
    /\ Configurations \subseteq [peers : SUBSET AllPeers, requests : SUBSET Requests]
    /\ PEER_TCP_MAGIC_COUNT \in Nat \ {0} /\ MaxTries \in Nat \ {0}
    /\ MaxOriginTries \in Nat /\ MaxIdle \in Nat
    /\ IsFiniteSet(AllPeers) /\ IsFiniteSet(Requests)

VARIABLES
    peer,               \* each peer of Config.peers
    req                 \* each request being forwarded

vars == <<peer, req>>
Peers == DOMAIN peer

\* probe: "no", a query is unanswered ("asked"), for longer than deadPeer
NewPeer == [tcp_up |-> PEER_TCP_MAGIC_COUNT, alive |-> TRUE, probe |-> "no",
            test_fd |-> FALSE, conn_open |-> 0, idle |-> 0]

\* stage: what the request waits for.  In "ping" valid says whether the
\* FwdState still exists.  fd: where its connection goes.
NoRequest == [stage |-> "none", valid |-> FALSE, direct |-> "maybe",
              pinged |-> {}, expected |-> 0, n_recv |-> 0, miss |-> None,
              servers |-> <<>>, n_tries |-> 0, origin_tries |-> 0, fd |-> None]
Stages == {"none", "ping", "connect", "reply", "restart"}
-----------------------------------------------------------------------------
(* neighbors.c: the state of a peer. *)

\* A peer that cannot be connected to is up only after a long time, and never
\* while it is logged dead.
neighborUp(ps, p) == ps[p].tcp_up > 0 /\ ps[p].alive /\ ps[p].probe # "late"

\* peerProbeConnect: neighborUp tries to connect to a dead peer, unless it
\* did in this second or is at it
Probed(ps, looked) ==
    {[p \in DOMAIN ps |-> IF p \in S THEN [ps[p] EXCEPT !.test_fd = TRUE] ELSE ps[p]] :
        S \in SUBSET {p \in looked \cap DOMAIN ps : ps[p].tcp_up = 0 /\ ~ps[p].test_fd}}

peerHTTPOkay(ps, p) ==
    neighborUp(ps, p) /\ (max_conn = 0 \/ ps[p].conn_open < max_conn)

peerConnectFailed(ps, p) ==
    IF ps[p].tcp_up = 0 THEN ps
    ELSE [ps EXCEPT ![p].tcp_up = @ - 1, ![p].alive = ps[p].alive /\ ps[p].tcp_up > 1]

peerConnectSucceded(ps, p) ==
    [ps EXCEPT ![p].tcp_up = PEER_TCP_MAGIC_COUNT,
               ![p].alive = ps[p].alive \/ ps[p].tcp_up = 0]

\* a reply revives a peer that can be connected to
neighborAlive(ps, p) ==
    [ps EXCEPT ![p].probe = "no", ![p].alive = ps[p].alive \/ ps[p].tcp_up > 0]

\* fwdPeerClosed: the close handler of a connection to a peer
fwdPeerClosed(ps, p) ==
    IF p \in Peers THEN [ps EXCEPT ![p].conn_open = @ - 1] ELSE ps
-----------------------------------------------------------------------------
(* peer_select.c *)

peerAddFwdServer(servers, p, code) ==
    IF \E i \in 1..Len(servers) : servers[i].peer = p THEN servers
    ELSE Append(servers, [peer |-> p, code |-> code])

OkayParents(ps) == {p \in Parents \cap DOMAIN ps : peerHTTPOkay(ps, p)}

\* peerAddFwdServer for each of them, which passes over those in the list
AddAll(servers, ps) ==
    LET new == SetToSeq(OkayParents(ps) \ {servers[i].peer : i \in 1..Len(servers)})
    IN  servers \o [i \in 1..Len(new) |-> [peer |-> new[i], code |-> "parent"]]

\* peerGetSomeParent, peerGetSomeDirect, peerGetAllParents: the lists of
\* servers that may follow what the replies selected, by direct and
\* prefer_direct and for requests that are hierarchical or not
Servers(ps, direct, first) ==
    LET okay == OkayParents(ps)
        some == IF okay = {} THEN {first}
                ELSE {peerAddFwdServer(first, p, "parent") : p \in okay}
        last == peerAddFwdServer(first, Direct, "direct")
    IN  CASE direct = "yes" -> {last}
          [] direct = "no" -> {AddAll(s, ps) : s \in some}
          [] OTHER -> {last}
                      \cup {peerAddFwdServer(s, Direct, "direct") : s \in some}
                      \cup {peerAddFwdServer(last, p, "parent") : p \in okay}
-----------------------------------------------------------------------------
(* forward.c.  ps and q are the peers and the request so far; each of these  *)
(* ends its handler. *)
Ends(r, ps) == peer' = ps /\ req' = [req EXCEPT ![r] = NoRequest]
Goes(r, ps, q) == peer' = ps /\ req' = [req EXCEPT ![r] = q]

\* fwdConnectStart: a persistent connection is used, or closed if the request
\* could not be sent twice; otherwise a new one is opened, or cannot be
fwdConnectStart(r, ps, q) ==
    LET p == q.servers[1].peer
        q1 == [q EXCEPT !.n_tries = @ + 1, !.fd = p,
                        !.origin_tries = IF p = Direct THEN @ + 1 ELSE @]
        idle == p \in Peers /\ ps[p].idle > 0
        less == IF idle THEN [ps EXCEPT ![p].idle = @ - 1] ELSE ps
        shut == IF idle THEN fwdPeerClosed(less, p) ELSE ps
        more == IF p \in Peers THEN [shut EXCEPT ![p].conn_open = @ + 1] ELSE shut
    IN  \/ /\ idle \/ p = Direct
           /\ Goes(r, less, [q1 EXCEPT !.stage = "reply"])
        \/ Goes(r, more, [q1 EXCEPT !.stage = "connect"])
        \/ Ends(r, shut)

\* fwdCheckRetry; bytes read, a body sent and the time gone are choices
fwdCheckRetry(q) == q.n_tries <= MaxTries /\ q.origin_tries <= MaxOriginTries

\* the next server; the first is tried again later if the last is a peer
NextServer(servers) ==
    CASE Len(servers) = 1 -> servers
      [] Len(servers) > 1 /\ Last(servers).peer # Direct ->
            Append(Tail(servers), servers[1])
      [] OTHER -> Tail(servers)

\* a mutant of the next definition: tried for as long as it fails
ServerClosedForever(r, ps, q) ==
    Goes(r, ps, [q EXCEPT !.fd = None, !.stage = "restart",
                          !.servers = NextServer(@), !.n_tries = 0,
                          !.origin_tries = 0])

\* fwdServerClosed, with the connection gone: later again, or the end
fwdServerClosed(r, ps, q) ==
    \/ /\ fwdCheckRetry(q)
       /\ Goes(r, ps, [q EXCEPT !.fd = None, !.stage = "restart",
                                !.servers = NextServer(@)])
    \/ Ends(r, ps)

\* peerSelectCallback: fwdStartComplete, if the FwdState still exists
peerSelectCallback(r, ps, q, first) ==
    \E ps1 \in Probed(ps, Parents), s \in Servers(ps, q.direct, first) :
        IF ~q.valid THEN Ends(r, ps1)
        ELSE IF s = <<>> THEN Ends(r, ps1)
        ELSE fwdConnectStart(r, ps1, [q EXCEPT !.servers = s, !.pinged = {},
                 !.expected = 0, !.n_recv = 0, !.miss = None])

\* peerGetSomeNeighborReplies: the hit, or the first parent's miss
Replies(q, hit) ==
    CASE hit # None -> <<[peer |-> hit, code |-> "hit"]>>
      [] hit = None /\ q.miss # None -> <<[peer |-> q.miss, code |-> "miss"]>>
      [] OTHER -> <<>>

\* neighborsUdpPing: a silent peer is logged dead, and queried now and then
neighborsUdpPing(ps, pinged) ==
    [p \in Peers |->
        IF p \notin pinged THEN ps[p]
        ELSE [ps[p] EXCEPT !.alive = neighborUp(ps, p),
                           !.probe = IF @ = "no" THEN "asked" ELSE @]]

\* fwdStart, peerSelect, peerSelectFoo and peerGetSomeNeighbor
fwdStart(r, direct, hierarchical) ==
    LET q == [NoRequest EXCEPT !.valid = TRUE, !.direct = direct]
        icp == direct # "yes" /\ (hierarchical \/ direct = "no")
    IN  /\ req[r].stage = "none"
        /\ IF ~icp THEN peerSelectCallback(r, peer, q, <<>>)
           ELSE \E ps \in Probed(peer, Peers),
                   dead \in SUBSET {p \in Peers : ~neighborUp(peer, p)} :
                LET up == {p \in Peers : neighborUp(ps, p)}
                    pinged == (up \cup dead) \ IF hierarchical THEN {} ELSE Siblings
                    ps1 == neighborsUdpPing(ps, pinged)
                    expected == Cardinality(pinged \cap up)
                IN  IF expected = 0 THEN peerSelectCallback(r, ps1, q, <<>>)
                    ELSE Goes(r, ps1, [q EXCEPT !.stage = "ping",
                              !.pinged = pinged, !.expected = expected])

\* a mutant of the next definition: of any peer's miss
IcpMiss(q, p, op) ==
    IF op = "miss" THEN IF q.miss = None THEN {p} ELSE {q.miss, p} ELSE {q.miss}

\* the first parent's miss, or a quicker one's by its weight
peerIcpParentMiss(q, p, op) ==
    IF op = "miss" /\ p \in Parents
    THEN IF q.miss = None THEN {p} ELSE {q.miss, p} ELSE {q.miss}

\* neighborsUdpAck and peerHandleIcpReply: a hit, a miss, or a miss that says
\* not to fetch there
IcpReply(r, p, op) ==
    LET ps == neighborAlive(peer, p)
        q == req[r]
    IN  /\ q.stage = "ping" /\ p \in q.pinged
        /\ IF op = "hit" THEN peerSelectCallback(r, ps, q, Replies(q, p))
           ELSE \E m \in peerIcpParentMiss(q, p, op) :
                LET q1 == [q EXCEPT !.n_recv = @ + 1, !.miss = m]
                IN  IF q1.n_recv < q.expected THEN Goes(r, ps, q1)
                    ELSE peerSelectCallback(r, ps, q1, Replies(q1, None))

\* a reply to a query that no longer waits
LateReply(p) ==
    /\ peer[p].probe # "no"
    /\ peer' = neighborAlive(peer, p) /\ req' = req

peerPingTimeout(r) ==
    /\ req[r].stage = "ping"
    /\ peerSelectCallback(r, peer, req[r], Replies(req[r], None))

\* fwdConnectDone, COMM_OK, and fwdDispatch
fwdDispatch(r) ==
    /\ req[r].stage = "connect"
    /\ Goes(r, IF req[r].fd \in Peers THEN peerConnectSucceded(peer, req[r].fd)
               ELSE peer, [req[r] EXCEPT !.stage = "reply"])

\* fwdConnectDone with an error, fwdConnectTimeout: the server at the head of
\* the list is blamed, unless it was the DNS
ConnectFail(r, dns) ==
    LET p == req[r].servers[1].peer
        ps == IF p \in Peers /\ ~dns THEN peerConnectFailed(peer, p) ELSE peer
    IN  /\ req[r].stage = "connect"
        /\ IF p = Direct /\ dns THEN Ends(r, peer)
           ELSE fwdServerClosed(r, fwdPeerClosed(ps, req[r].fd), req[r])

\* the connection is closed, or is silent too long, before the reply ends
ServerCloses(r) ==
    /\ req[r].stage = "reply"
    /\ fwdServerClosed(r, fwdPeerClosed(peer, req[r].fd), req[r])

fwdRestart(r) ==
    /\ req[r].stage = "restart"
    /\ fwdConnectStart(r, peer, req[r])

\* a mutant of the next definition: connections kept are not counted
CompleteUncounted(r, keep) ==
    LET q == req[r]
        ps == IF keep THEN [fwdPeerClosed(peer, q.fd) EXCEPT ![q.fd].idle = @ + 1]
              ELSE fwdPeerClosed(peer, q.fd)
    IN  /\ q.stage = "reply"
        /\ keep => q.fd \in Peers /\ peer[q.fd].idle < MaxIdle
        /\ Ends(r, ps)

\* The end of a reply (http.c): the connection is kept (fwdUnregister,
\* pconnPush) or closed, and fwdComplete forwards an error elsewhere.
fwdComplete(r, keep) ==
    LET q == req[r]
        ps == IF keep THEN [peer EXCEPT ![q.fd].idle = @ + 1]
              ELSE fwdPeerClosed(peer, q.fd)
    IN  /\ q.stage = "reply"
        /\ keep => q.fd \in Peers /\ peer[q.fd].idle < MaxIdle
        /\ \/ Ends(r, ps)
           \/ /\ q.n_tries < MaxTries /\ q.origin_tries < MaxOriginTries
              /\ Len(q.servers) > 1
              /\ fwdConnectStart(r, ps, [q EXCEPT !.servers = Tail(@), !.fd = None])

\* fwdAbort and fwdStateFree: a selection under way goes on by itself
fwdAbort(r) ==
    /\ req[r].stage # "none" /\ req[r].valid
    /\ IF req[r].stage = "ping"
       THEN Goes(r, peer, [req[r] EXCEPT !.valid = FALSE])
       ELSE Ends(r, fwdPeerClosed(peer, req[r].fd))

peerProbeConnectDone(p, ok) ==
    /\ peer[p].test_fd
    /\ peer' = [(IF ok THEN peerConnectSucceded(peer, p)
                 ELSE peerConnectFailed(peer, p)) EXCEPT ![p].test_fd = FALSE]
    /\ req' = req

\* Config.Timeout.deadPeer passes without a reply
DeadTimeout(p) ==
    /\ peer[p].probe = "asked"
    /\ peer' = [peer EXCEPT ![p].probe = "late"] /\ req' = req

\* an idle connection is closed
IdleClosed(p) ==
    /\ peer[p].idle > 0
    /\ peer' = fwdPeerClosed([peer EXCEPT ![p].idle = @ - 1], p) /\ req' = req
-----------------------------------------------------------------------------
Init == \E c \in Configurations :
            /\ peer = [p \in c.peers |-> NewPeer]
            /\ req = [r \in c.requests |-> NoRequest]

Next == \/ \E r \in DOMAIN req :
              \/ \E d \in {"yes", "maybe", "no"}, h \in BOOLEAN : fwdStart(r, d, h)
              \/ \E p \in Peers, op \in {"hit", "miss", "nofetch"} : IcpReply(r, p, op)
              \/ peerPingTimeout(r) \/ fwdDispatch(r)
              \/ \E dns \in BOOLEAN : ConnectFail(r, dns)
              \/ ServerCloses(r) \/ fwdRestart(r)
              \/ \E keep \in BOOLEAN : fwdComplete(r, keep)
              \/ fwdAbort(r)
        \/ \E p \in Peers : \/ LateReply(p) \/ DeadTimeout(p) \/ IdleClosed(p)
                             \/ \E ok \in BOOLEAN : peerProbeConnectDone(p, ok)

Stage(r) == IF r \in DOMAIN req THEN req[r].stage ELSE "none"

Spec == Init /\ [][Next]_vars

\* Weak fairness of what ends each wait: the ping timer, the connect timer,
\* the read timer, the restart event.
FairSpec ==
    /\ Spec
    /\ \A r \in Requests :
          /\ []<>(Stage(r) # "ping") \/ []<><<peerPingTimeout(r)>>_vars
          /\ []<>(Stage(r) # "connect") \/ []<><<ConnectFail(r, FALSE)>>_vars
          /\ []<>(Stage(r) # "reply") \/ []<><<ServerCloses(r)>>_vars
          /\ []<>(Stage(r) # "restart") \/ []<><<fwdRestart(r)>>_vars
-----------------------------------------------------------------------------
ServerType == [peer : AllPeers \cup {Direct}, code : {"hit", "miss", "parent", "direct"}]
PeerType == [tcp_up : 0..PEER_TCP_MAGIC_COUNT, alive : BOOLEAN,
             probe : {"no", "asked", "late"}, test_fd : BOOLEAN,
             conn_open : Nat, idle : 0..MaxIdle]
RequestType == [stage : Stages, valid : BOOLEAN, direct : {"yes", "maybe", "no"},
                pinged : SUBSET AllPeers, expected : Nat, n_recv : Nat,
                miss : Parents \cup {None}, servers : Seq(ServerType),
                n_tries : 0..(MaxTries + 1),
                origin_tries : 0..(MaxOriginTries + 1),
                fd : AllPeers \cup {Direct, None}]

(* The tries of a request stay within their limits.                          *)
TypeOK ==
    /\ Peers \subseteq AllPeers /\ peer \in [Peers -> PeerType]
    /\ DOMAIN req \subseteq Requests /\ req \in [DOMAIN req -> RequestType]

(* No more answers are waited for than peers were asked, and no server is    *)
(* listed twice.                                                             *)
ListsExact == \A r \in DOMAIN req : LET q == req[r] IN
    /\ q.n_recv <= q.expected /\ q.expected <= Cardinality(q.pinged)
    /\ q.stage = "ping" => q.n_recv < q.expected
    /\ \A i, j \in 1..Len(q.servers) : q.servers[i].peer = q.servers[j].peer => i = j

(* conn_open, which max-conn is compared with, is the number of connections  *)
(* open to the peer: in use, being made, or idle.                            *)
ConnOpenExact == \A p \in Peers :
    peer[p].conn_open = peer[p].idle
                        + Cardinality({r \in DOMAIN req : req[r].fd = p})

(* A connection goes to the server at the head of the list, so a failure is  *)
(* blamed on the peer that failed; and a request that is to be tried again   *)
(* has a server left.                                                        *)
HeadIsConnected == \A r \in DOMAIN req :
    /\ req[r].stage \in {"connect", "reply", "restart"} => req[r].servers # <<>>
    /\ req[r].stage \in {"connect", "reply"} => req[r].fd = req[r].servers[1].peer
    /\ req[r].fd # None => req[r].stage \in {"connect", "reply"}

(* The connections a peer is charged with, and whom each goes to, agree      *)
(* after every failure, retry, timeout, re-forward and abort.                *)
ConnectionsConsistent == TypeOK /\ ListsExact /\ ConnOpenExact /\ HeadIsConnected

(* A request goes only where it may: one that must not go direct never does, *)
(* by selection or by retry, and a sibling is asked for what it said it has  *)
(* and for nothing else, although parents' misses, late answers and the      *)
(* rotation of failed servers all feed the same list.                        *)
AllowedServers == \A r \in DOMAIN req :
    /\ req[r].direct = "no" => req[r].fd # Direct
    /\ \A i \in 1..Len(req[r].servers) : LET s == req[r].servers[i] IN
          /\ req[r].direct = "no" => s.peer # Direct
          /\ s.peer \in Siblings => s.code = "hit"

(* Every request is answered or failed and every selection ends, whatever    *)
(* fails.                                                                    *)
ForwardingEnds == \A r \in Requests : Stage(r) # "none" ~> Stage(r) = "none"
=============================================================================
