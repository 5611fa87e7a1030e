----------------------------- MODULE NatEndpoint -----------------------------
(***************************************************************************)
(* The external endpoint of a node: how it learns it (/stun), what its     *)
(* peers' registries say of it, and the UDP holes that hang on it          *)
(* (daemon/punch.go, daemon/peer.go, daemon/handlers.go).                  *)
(*                                                                         *)
(* One node that changes its network, never back to an old one; its peers  *)
(* stay where they are.  Addresses are numbered, 0 is none.  A port is     *)
(* known by the STUN answer that brought it, that is, by the address of    *)
(* that moment.  It is the port of a TCP connection: whether a datagram    *)
(* sent to it gets through is left open.  Datagrams wait in the socket or  *)
(* in the listener's hands, so a move and the watchdog's clearing may come *)
(* between the arrival of one and the hole it makes.  No two peers share   *)
(* an external IP.                                                         *)
(***************************************************************************)
EXTENDS Naturals, Sequences

CONSTANTS
    Peers,      \* cfg.PeerNodes
    MaxAddr,    \* bound of the model
    MaxInbox    \* bound of the model: punch packets that wait

ASSUME EndpointAssumption == MaxAddr \in Nat \ {0} /\ MaxInbox \in Nat \ {0}

VARIABLES
    addr,       \* the address of the node
    seen,       \* what outboundIP and cachedPublicIP say of it
    last,       \* lastLANIP and lastPublicIP
    ip, port,   \* externalIP and externalPort, stored and loaded one by one
    loop,       \* the heartbeat goroutine and the watchdog: where each is, the
                \* endpoint it has in hand, the peers it has still to tell
    reg,        \* at each peer: the endpoint its registry has for the node
    burst,      \* at each peer: where it is sending VERNEX-PUNCH to
    holes,      \* peerHoles: the address at which the peer's packet came in
    inbox,      \* the punch packets that came in and are not yet handled
    late,       \* history: those that were waiting when the holes were last cleared
    overlapped  \* history: the watchdog was at work before the first heartbeat
                \* had stored its endpoint

vars == <<addr, seen, last, ip, port, loop, reg, burst, holes, inbox, late, overlapped>>

Loops == {"beat", "dog"}

Addrs == 0..MaxAddr

Endpoint(i, p) == [ip |-> i, port |-> p]

NoEndpoint == Endpoint(0, 0)

Loop(at, end, todo) == [at |-> at, end |-> end, todo |-> todo]

Idle == Loop("idle", NoEndpoint, {})

Packet(p, a) == [from |-> p, at |-> a]

Waiting == {inbox[i] : i \in 1..Len(inbox)}

Init ==
    /\ addr = 1 /\ seen = 1 /\ last = 1
    /\ ip = 0 /\ port = 0
    /\ loop = [l \in Loops |-> IF l = "beat" THEN Loop("stun", NoEndpoint, {}) ELSE Idle]
    /\ reg = [p \in Peers |-> NoEndpoint]
    /\ burst = [p \in Peers |-> NoEndpoint]
    /\ holes = [p \in Peers |-> 0]
    /\ inbox = <<>> /\ late = {}
    /\ overlapped = FALSE

Move ==
    /\ addr < MaxAddr
    /\ addr' = addr + 1
    /\ UNCHANGED <<seen, last, ip, port, loop, reg, burst, holes, inbox, late, overlapped>>

\* A LAN address is seen at once, a public one when it is next fetched.
See ==
    /\ seen # addr
    /\ seen' = addr
    /\ UNCHANGED <<addr, last, ip, port, loop, reg, burst, holes, inbox, late, overlapped>>

(* ------------------ learning and spreading the endpoint ------------------ *)

\* discoverExternalEndpoint: the first peer that answers, or none does.
Stun(l) ==
    /\ loop[l].at = "stun"
    /\ \E a \in {0, addr} : loop' = [loop EXCEPT ![l] = Loop("ip", Endpoint(a, a), {})]
    /\ UNCHANGED <<addr, seen, last, ip, port, reg, burst, holes, inbox, late, overlapped>>

StoreIp(l) ==
    /\ loop[l].at = "ip"
    /\ ip' = loop[l].end.ip
    /\ loop' = [loop EXCEPT ![l].at = "port"]
    /\ UNCHANGED <<addr, seen, last, port, reg, burst, holes, inbox, late, overlapped>>

StorePort(l) ==
    /\ loop[l].at = "port"
    /\ port' = loop[l].end.port
    /\ loop' = [loop EXCEPT ![l].at = "post", ![l].todo = Peers]
    /\ UNCHANGED <<addr, seen, last, ip, reg, burst, holes, inbox, late, overlapped>>

\* registerWithPeers, for one peer: told, or not reached.
Post(l, p) ==
    /\ loop[l].at = "post" /\ p \in loop[l].todo
    /\ reg' = [reg EXCEPT ![p] = loop[l].end]
    /\ loop' = [loop EXCEPT ![l].todo = loop[l].todo \ {p}]
    /\ UNCHANGED <<addr, seen, last, ip, port, burst, holes, inbox, late, overlapped>>

PostFails(l, p) ==
    /\ loop[l].at = "post" /\ p \in loop[l].todo
    /\ loop' = [loop EXCEPT ![l].todo = loop[l].todo \ {p}]
    /\ UNCHANGED <<addr, seen, last, ip, port, reg, burst, holes, inbox, late, overlapped>>

Posted(l) == loop[l].at = "post" /\ loop[l].todo = {}

BeatSleep ==
    /\ Posted("beat")
    /\ loop' = [loop EXCEPT !["beat"] = Idle]
    /\ UNCHANGED <<addr, seen, last, ip, port, reg, burst, holes, inbox, late, overlapped>>

\* Faulty variant of BeatIp: the endpoint of the first heartbeat is kept.
BeatIpKept ==
    /\ loop["beat"].at = "idle"
    /\ loop' = [loop EXCEPT !["beat"] = Loop("load", Endpoint(1, 1), {})]
    /\ UNCHANGED <<addr, seen, last, ip, port, reg, burst, holes, inbox, late, overlapped>>

\* The tick of the heartbeat: externalIP, then externalPort.
BeatIp ==
    /\ loop["beat"].at = "idle"
    /\ loop' = [loop EXCEPT !["beat"] = Loop("load", Endpoint(ip, 0), {})]
    /\ UNCHANGED <<addr, seen, last, ip, port, reg, burst, holes, inbox, late, overlapped>>

\* Faulty variant of BeatPort: off by one.
BeatPortNext ==
    /\ loop["beat"].at = "load"
    /\ loop' = [loop EXCEPT !["beat"] = Loop("post", Endpoint(loop["beat"].end.ip, port + 1), Peers)]
    /\ UNCHANGED <<addr, seen, last, ip, port, reg, burst, holes, inbox, late, overlapped>>

BeatPort ==
    /\ loop["beat"].at = "load"
    /\ loop' = [loop EXCEPT !["beat"] = Loop("post", Endpoint(loop["beat"].end.ip, port), Peers)]
    /\ UNCHANGED <<addr, seen, last, ip, port, reg, burst, holes, inbox, late, overlapped>>

Starting == loop["beat"].at \in {"stun", "ip", "port"}

\* Faulty variant of DogTick: the endpoint at hand is registered, none is asked for.
DogTickBlind ==
    /\ loop["dog"].at = "idle" /\ seen # last
    /\ last' = seen
    /\ loop' = [loop EXCEPT !["dog"] = Loop("post", Endpoint(ip, port), Peers)]
    /\ overlapped' = (overlapped \/ Starting)
    /\ UNCHANGED <<addr, seen, ip, port, reg, burst, holes, inbox, late>>

\* The tick of the watchdog, when the address is not the one of the last tick.
DogTick ==
    /\ loop["dog"].at = "idle" /\ seen # last
    /\ last' = seen
    /\ loop' = [loop EXCEPT !["dog"] = Loop("stun", NoEndpoint, {})]
    /\ overlapped' = (overlapped \/ Starting)
    /\ UNCHANGED <<addr, seen, ip, port, reg, burst, holes, inbox, late>>

\* Faulty variant of DogClear: only when the node has an endpoint.
DogClearKnown ==
    /\ Posted("dog")
    /\ holes' = IF loop["dog"].end = NoEndpoint THEN holes ELSE [p \in Peers |-> 0]
    /\ late' = Waiting
    /\ loop' = [loop EXCEPT !["dog"] = Idle]
    /\ UNCHANGED <<addr, seen, last, ip, port, reg, burst, inbox, overlapped>>

DogClear ==
    /\ Posted("dog")
    /\ holes' = [p \in Peers |-> 0]
    /\ late' = Waiting
    /\ loop' = [loop EXCEPT !["dog"] = Idle]
    /\ UNCHANGED <<addr, seen, last, ip, port, reg, burst, inbox, overlapped>>

\* mDNS discovery at p replaces the entry by one without an endpoint.
Rediscover(p) ==
    /\ reg[p] # NoEndpoint
    /\ reg' = [reg EXCEPT ![p] = NoEndpoint]
    /\ UNCHANGED <<addr, seen, last, ip, port, loop, burst, holes, inbox, late, overlapped>>

(* -------------------------------- punching ------------------------------- *)

\* /punch-signal refuses half an endpoint.
Aim(p, end) ==
    /\ end.ip # 0 /\ end.port # 0
    /\ burst' = [burst EXCEPT ![p] = end]
    /\ UNCHANGED <<addr, seen, last, ip, port, loop, reg, holes, inbox, late, overlapped>>

\* startAutoPunch at p, or /punch-request: p sends to the endpoint it knows.
PunchFromPeer(p) == Aim(p, reg[p])

\* startAutoPunch at the node: a "relayed" peer is signalled the node's endpoint.
PunchFromNode(p) == holes[p] = 0 /\ Aim(p, Endpoint(ip, port))

\* A packet of p gets through to the socket: it was sent to the present address.
ReadPacket(p) ==
    /\ burst[p].ip = addr
    /\ Len(inbox) < MaxInbox
    /\ inbox' = Append(inbox, Packet(p, addr))
    /\ UNCHANGED <<addr, seen, last, ip, port, loop, reg, burst, holes, late, overlapped>>

\* The listener handles the first that waits: dropped when no live peer has its
\* external IP; otherwise it makes the hole, unless there is one.
StorePacket ==
    /\ inbox # <<>>
    /\ \/ UNCHANGED holes
       \/ /\ holes[Head(inbox).from] = 0
          /\ holes' = [holes EXCEPT ![Head(inbox).from] = Head(inbox).at]
    /\ inbox' = Tail(inbox)
    /\ UNCHANGED <<addr, seen, last, ip, port, loop, reg, burst, late, overlapped>>

\* Five packets, each through or not.
BurstEnds(p) ==
    /\ burst[p] # NoEndpoint
    /\ burst' = [burst EXCEPT ![p] = NoEndpoint]
    /\ UNCHANGED <<addr, seen, last, ip, port, loop, reg, holes, inbox, late, overlapped>>

-----------------------------------------------------------------------------

LoopStep(l) ==
    \/ Stun(l) \/ StoreIp(l) \/ StorePort(l)
    \/ \E p \in Peers : Post(l, p) \/ PostFails(l, p)

Next ==
    \/ Move \/ See
    \/ \E l \in Loops : LoopStep(l)
    \/ BeatSleep \/ BeatIp \/ BeatPort \/ DogTick \/ DogClear
    \/ \E p \in Peers : Rediscover(p) \/ PunchFromPeer(p) \/ PunchFromNode(p) \/ ReadPacket(p) \/ BurstEnds(p)
    \/ StorePacket

Spec == Init /\ [][Next]_vars

\* Both loops have tickers, and time-outs on every call; not every post to a peer
\* fails.
Fairness ==
    /\ WF_vars(LoopStep("beat") \/ BeatSleep \/ BeatIp \/ BeatPort)
    /\ WF_vars(See) /\ WF_vars(LoopStep("dog") \/ DogTick \/ DogClear)
    /\ \A p \in Peers : SF_vars(Post("beat", p))

FairSpec == Spec /\ Fairness

-----------------------------------------------------------------------------

EndpointType == [ip : Addrs, port : Addrs]

PacketType == [from : Peers, at : Addrs]

\* The types of the node's addresses and loops and of what the peers hold: no
\* endpoint, in a loop's hands or a registry, lies outside what /stun has answered.
TypeOK ==
    /\ addr \in Addrs \ {0} /\ seen \in Addrs \ {0} /\ last \in Addrs \ {0}
    /\ ip \in Addrs /\ port \in Addrs
    /\ loop \in [Loops -> [at : {"idle", "stun", "ip", "port", "load", "post"},
                           end : EndpointType, todo : SUBSET Peers]]
    /\ reg \in [Peers -> EndpointType] /\ burst \in [Peers -> EndpointType]
    /\ holes \in [Peers -> Addrs]
    /\ inbox \in Seq(PacketType) /\ late \in SUBSET PacketType
    /\ overlapped \in BOOLEAN

\* The watchdog has seen the last move and done with it.
DogSettled == loop["dog"].at = "idle" /\ last = addr

\* "Old UDP holes are tied to the previous IP" (punch.go): once the watchdog is
\* done with a move, whether /stun was answered or not, no hole of an earlier address
\* is left, except one made since by a packet that had come in before the holes were
\* cleared and had not been handled; nothing removes that one until the next move.
OldHolesCleared ==
    DogSettled =>
        \A p \in Peers : holes[p] \in {0, addr} \/ Packet(p, holes[p]) \in late

\* Once the watchdog is done with a move the stored endpoint is the answer to a
\* /stun asked from the present address, or none; address and port are of one
\* answer.  Only a first heartbeat that is still asking when the watchdog starts
\* may store an older answer after the watchdog's.
EndpointCurrent == DogSettled /\ ~Starting /\ ~overlapped => ip = port /\ ip \in {0, addr}

\* Once the node stays where it is, a peer's registry comes back to the stored
\* endpoint again and again, and for good does not list the node at another one,
\* whatever outdated or half-stored endpoints the two loops have posted before.
RegistriesFollow ==
    \A p \in Peers :
        /\ []<>(reg[p] = Endpoint(ip, port))
        /\ <>[](reg[p] \in {NoEndpoint, Endpoint(ip, port)})

=============================================================================
