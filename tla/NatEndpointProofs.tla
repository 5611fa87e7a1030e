-------------------------- MODULE NatEndpointProofs --------------------------
(***************************************************************************)
(* What the watchdog's work promises of the node's endpoint and holes, for *)
(* any peers and any number of moves.                                      *)
(***************************************************************************)
EXTENDS NatEndpoint, TLAPS

\* Nothing is known of an address before the node has it, and the watchdog sees the
\* addresses in their order.
Known ==
    /\ last <= seen /\ seen <= addr
    /\ ip <= addr
    /\ \A l \in Loops : loop[l].end.ip <= addr
    /\ \A p \in Peers : holes[p] <= addr
    /\ \A i \in 1..Len(inbox) : inbox[i].at <= addr

\* Between two runs of the watchdog a hole, and a packet that will make one, is not
\* older than the address the watchdog acted on, or was waiting when it cleared.
HolesFresh ==
    loop["dog"].at = "idle" =>
        /\ \A p \in Peers : holes[p] = 0 \/ last <= holes[p] \/ Packet(p, holes[p]) \in late
        /\ \A i \in 1..Len(inbox) : last <= inbox[i].at \/ inbox[i] \in late

\* Both halves are of one answer of /stun, given since the watchdog last acted.
Fresh(end) == end.ip = end.port /\ (end.ip = 0 \/ last <= end.ip)

\* One loop at a time asks for the endpoint and stores it, half by half; between times
\* the one stored is fresh.
EndsFresh ==
    /\ Starting => loop["dog"].at = "idle"
    /\ \A l \in Loops :
           /\ loop[l].at \in {"ip", "port"} => Fresh(loop[l].end)
           /\ loop[l].at = "port" => ip = loop[l].end.ip
    /\ ~Starting /\ loop["dog"].at \notin {"stun", "ip", "port"} => Fresh(Endpoint(ip, port))

IInv == TypeOK /\ Known /\ HolesFresh /\ (~overlapped => EndsFresh)

-----------------------------------------------------------------------------

LoopType == [at : {"idle", "stun", "ip", "port", "load", "post"},
             end : EndpointType, todo : SUBSET Peers]

\* What the loops hold is built from what the node knows.
LEMMA LoopTypes ==
    /\ \A at \in {"idle", "stun", "ip", "port", "load", "post"}, i, j \in Addrs, todo \in SUBSET Peers :
           /\ Loop(at, Endpoint(i, j), todo) \in LoopType
           /\ Loop(at, Endpoint(i, j), todo).at = at
           /\ Loop(at, Endpoint(i, j), todo).end.ip = i
           /\ Loop(at, Endpoint(i, j), todo).end.port = j
    /\ NoEndpoint \in EndpointType /\ NoEndpoint.ip = 0 /\ NoEndpoint.port = 0
    /\ Idle \in LoopType /\ Idle.at = "idle" /\ Idle.end.ip = 0 /\ Idle.end.port = 0
BY EndpointAssumption DEF Loop, Endpoint, Addrs, LoopType, EndpointType, NoEndpoint, Idle

\* A loop that goes on is the only one that does.
LEMMA LoopGoesOn ==
    ASSUME loop \in [Loops -> LoopType], NEW l \in Loops, NEW new \in LoopType,
           loop' = [loop EXCEPT ![l] = new]
    PROVE  /\ loop'[l] = new
           /\ \A k \in Loops : k # l => loop'[k] = loop[k]
           /\ loop' \in [Loops -> LoopType]
OBVIOUS

LEMMA InitIInv == Init => IInv
<1> SUFFICES ASSUME Init PROVE IInv
  OBVIOUS
<1>1. /\ addr = 1 /\ seen = 1 /\ last = 1 /\ ip = 0 /\ port = 0
      /\ reg = [p \in Peers |-> NoEndpoint] /\ burst = [p \in Peers |-> NoEndpoint]
      /\ holes = [p \in Peers |-> 0] /\ inbox = <<>> /\ late = {}
      /\ overlapped \in BOOLEAN
  BY DEF Init
<1>2. /\ loop \in [Loops -> LoopType]
      /\ loop["beat"].at = "stun" /\ loop["dog"].at = "idle"
      /\ \A l \in Loops : loop[l].end.ip = 0
  <2>1. /\ Loop("stun", NoEndpoint, {}) \in LoopType
        /\ Loop("stun", NoEndpoint, {}).at = "stun" /\ Loop("stun", NoEndpoint, {}).end.ip = 0
    BY LoopTypes DEF Loop, LoopType
  <2>2. loop = [l \in Loops |-> IF l = "beat" THEN Loop("stun", NoEndpoint, {}) ELSE Idle]
    BY DEF Init
  <2>3. QED
    BY <2>1, <2>2, LoopTypes DEF Loops
<1>3. 0 \in Addrs /\ 1 \in Addrs \ {0}
  BY EndpointAssumption DEF Addrs
<1>4. TypeOK
  BY <1>1, <1>2, <1>3, LoopTypes DEF TypeOK, LoopType
<1>5. Known /\ HolesFresh
  BY <1>1, <1>2 DEF Known, HolesFresh
<1>6. EndsFresh
  BY <1>2 DEF EndsFresh, Starting, Loops
<1>7. QED
  BY <1>4, <1>5, <1>6 DEF IInv

\* Steps that concern neither the loops nor the endpoint.
LEMMA FreshKept ==
    ASSUME EndsFresh, UNCHANGED <<last, ip, port, loop>>
    PROVE  EndsFresh'
BY DEF EndsFresh, Fresh, Starting, Endpoint

LEMMA MoveIInv ==
    ASSUME IInv, Move \/ See
    PROVE  IInv'
<1>1. UNCHANGED <<last, ip, port, loop, reg, burst, holes, inbox, late, overlapped>>
  BY DEF Move, See
<1>2. /\ addr' \in Addrs \ {0} /\ seen' \in Addrs \ {0}
      /\ addr <= addr' /\ last <= seen' /\ seen' <= addr'
  BY EndpointAssumption DEF Move, See, IInv, TypeOK, Known, Addrs
<1>3. TypeOK'
  BY <1>1, <1>2 DEF IInv, TypeOK
<1>4. Known'
  <2>1. ip \in Nat /\ addr \in Nat /\ addr' \in Nat
    BY <1>2 DEF IInv, TypeOK, Addrs
  <2>2. \A l \in Loops : loop[l].end.ip \in Nat
    BY DEF IInv, TypeOK, EndpointType, Addrs
  <2>3. \A p \in Peers : holes[p] \in Nat
    BY DEF IInv, TypeOK, Addrs
  <2>4. \A i \in 1..Len(inbox) : inbox[i].at \in Nat /\ inbox[i].at <= addr'
    <3>1. inbox \in Seq(PacketType) /\ \A i \in 1..Len(inbox) : inbox[i].at <= addr
      BY DEF IInv, TypeOK, Known
    <3>2. \A i \in 1..Len(inbox) : inbox[i] \in PacketType
      BY <3>1
    <3>3. \A q \in PacketType : q.at \in Nat
      BY DEF PacketType, Addrs
    <3>4. addr \in Nat
      BY DEF IInv, TypeOK, Addrs
    <3>5. QED
      BY <1>2, <2>1, <3>1, <3>2, <3>3, <3>4
  <2>5. QED
    BY <1>1, <1>2, <2>1, <2>2, <2>3, <2>4 DEF IInv, Known
<1>5. HolesFresh'
  BY <1>1 DEF IInv, HolesFresh
<1>6. ~overlapped' => EndsFresh'
  BY <1>1, FreshKept DEF IInv
<1>7. QED
  BY <1>3, <1>4, <1>5, <1>6 DEF IInv

\* One loop goes on, with the two variables it may store.  What it then holds, and
\* what is then stored, is to be as fresh as before.
LEMMA LoopIInv ==
    ASSUME IInv, NEW l \in Loops, NEW new \in LoopType,
           loop' = [loop EXCEPT ![l] = new],
           UNCHANGED <<addr, seen, last, burst, holes, inbox, late, overlapped>>,
           ip' \in Addrs, port' \in Addrs, reg' \in [Peers -> EndpointType],
           ip' <= addr, new.end.ip <= addr,
           l = "dog" => loop["dog"].at # "idle" /\ new.at # "idle",
           ~overlapped => EndsFresh'
    PROVE  IInv'
<1>1. /\ loop'[l] = new
      /\ \A k \in Loops : k # l => loop'[k] = loop[k]
      /\ loop' \in [Loops -> LoopType]
  BY LoopGoesOn DEF IInv, TypeOK, LoopType
<1>2. TypeOK'
  BY <1>1 DEF IInv, TypeOK, LoopType
<1>3. Known'
  BY <1>1 DEF IInv, Known
<1>4. HolesFresh'
  <2>1. loop'["dog"].at = "idle" => loop["dog"].at = "idle"
    BY <1>1 DEF Loops
  <2>2. QED
    BY <2>1 DEF IInv, HolesFresh
<1>5. ~overlapped' => EndsFresh'
  OBVIOUS
<1>6. QED
  BY <1>2, <1>3, <1>4, <1>5 DEF IInv

\* What a loop knows, to be used where only its types matter.
LEMMA LoopKnows ==
    ASSUME IInv, NEW l \in Loops
    PROVE  /\ loop \in [Loops -> LoopType] /\ loop[l] \in LoopType
           /\ loop[l].at \in {"idle", "stun", "ip", "port", "load", "post"}
           /\ loop[l].end \in EndpointType
           /\ loop[l].end.ip \in Addrs /\ loop[l].end.port \in Addrs
           /\ loop[l].todo \in SUBSET Peers
           /\ loop[l].end.ip <= addr
           /\ addr \in Addrs /\ last \in Addrs /\ ip \in Addrs /\ port \in Addrs
           /\ 0 \in Addrs /\ Addrs \subseteq Nat
           /\ last <= addr /\ ip <= addr
BY EndpointAssumption DEF IInv, TypeOK, Known, LoopType, EndpointType, Addrs

\* When the one loop is storing, the other is not.
LEMMA OneLoopStores ==
    ASSUME IInv, EndsFresh, NEW l \in Loops, loop[l].at \in {"stun", "ip", "port"}
    PROVE  /\ l = "beat" => loop["dog"].at = "idle"
           /\ l = "dog" => ~Starting
           /\ \A k \in Loops : k # l => loop[k].at \notin {"stun", "ip", "port"}
BY DEF EndsFresh, Starting, Loops

LEMMA StunIInv ==
    ASSUME IInv, NEW l \in Loops, Stun(l)
    PROVE  IInv'
<1> DEFINE new(a) == Loop("ip", Endpoint(a, a), {})
<1>1. loop[l].at = "stun" /\ UNCHANGED <<addr, seen, last, ip, port, reg, burst, holes, inbox, late, overlapped>>
  BY DEF Stun
<1>2. PICK a \in {0, addr} : loop' = [loop EXCEPT ![l] = new(a)]
  BY DEF Stun
<1>3. /\ new(a) \in LoopType /\ new(a).at = "ip"
      /\ new(a).end.ip = a /\ new(a).end.port = a
      /\ a <= addr /\ (a = 0 \/ last <= a)
  BY <1>2, LoopKnows, LoopTypes
<1> HIDE DEF new
<1>4. /\ loop'[l] = new(a)
      /\ \A k \in Loops : k # l => loop'[k] = loop[k]
  BY <1>2, <1>3, LoopKnows, LoopGoesOn
<1>5. ASSUME ~overlapped PROVE EndsFresh'
  <2>1. EndsFresh
    BY <1>5 DEF IInv
  <2>2. /\ l = "beat" => loop["dog"].at = "idle"
        /\ l = "dog" => ~Starting
        /\ \A k \in Loops : k # l => loop[k].at \notin {"stun", "ip", "port"}
    BY <1>1, <2>1, OneLoopStores
  <2>3. Starting' => loop'["dog"].at = "idle"
    BY <1>3, <1>4, <2>2 DEF Starting, Loops
  <2>4. ASSUME NEW k \in Loops
        PROVE  /\ loop'[k].at \in {"ip", "port"} => Fresh(loop[k].end)'
               /\ loop'[k].at # "port"
    BY <1>1, <1>3, <1>4, <2>2 DEF Fresh
  <2>5. Starting' \/ loop'["dog"].at \in {"stun", "ip", "port"}
    BY <1>3, <1>4 DEF Starting, Loops
  <2>6. QED
    BY <2>3, <2>4, <2>5 DEF EndsFresh
<1>6. /\ l = "dog" => loop["dog"].at # "idle" /\ new(a).at # "idle"
      /\ ip' \in Addrs /\ port' \in Addrs /\ reg' \in [Peers -> EndpointType] /\ ip' <= addr
  BY <1>1, <1>3 DEF IInv, TypeOK, Known
<1>7. QED
  BY <1>1, <1>2, <1>3, <1>5, <1>6, LoopIInv

LEMMA StoreIpIInv ==
    ASSUME IInv, NEW l \in Loops, StoreIp(l)
    PROVE  IInv'
<1> DEFINE new == [loop[l] EXCEPT !.at = "port"]
<1>1. /\ loop[l].at = "ip" /\ ip' = loop[l].end.ip
      /\ UNCHANGED <<addr, seen, last, port, reg, burst, holes, inbox, late, overlapped>>
  BY DEF StoreIp
<1>2. loop' = [loop EXCEPT ![l] = new]
  BY DEF StoreIp
<1>3. /\ new \in LoopType /\ new.at = "port"
      /\ new.end = loop[l].end
  BY LoopKnows DEF LoopType
<1> HIDE DEF new
<1>4. /\ loop'[l] = new
      /\ \A k \in Loops : k # l => loop'[k] = loop[k]
  BY <1>2, <1>3, LoopKnows, LoopGoesOn
<1>5. ASSUME ~overlapped PROVE EndsFresh'
  <2>1. EndsFresh
    BY <1>5 DEF IInv
  <2>2. /\ l = "beat" => loop["dog"].at = "idle"
        /\ l = "dog" => ~Starting
        /\ \A k \in Loops : k # l => loop[k].at \notin {"stun", "ip", "port"}
        /\ Fresh(loop[l].end)
    BY <1>1, <2>1, OneLoopStores DEF EndsFresh
  <2>3. Starting' => loop'["dog"].at = "idle"
    BY <1>3, <1>4, <2>2 DEF Starting, Loops
  <2>4. ASSUME NEW k \in Loops
        PROVE  /\ loop'[k].at \in {"ip", "port"} => Fresh(loop[k].end)'
               /\ loop'[k].at = "port" => ip' = loop'[k].end.ip
    BY <1>1, <1>3, <1>4, <2>2 DEF Fresh
  <2>5. Starting' \/ loop'["dog"].at \in {"stun", "ip", "port"}
    BY <1>3, <1>4 DEF Starting, Loops
  <2>6. QED
    BY <2>3, <2>4, <2>5 DEF EndsFresh
<1>6. /\ l = "dog" => loop["dog"].at # "idle" /\ new.at # "idle"
      /\ ip' \in Addrs /\ port' \in Addrs /\ reg' \in [Peers -> EndpointType]
      /\ ip' <= addr /\ new.end.ip <= addr
  BY <1>1, <1>3, LoopKnows DEF IInv, TypeOK
<1>7. QED
  BY <1>1, <1>2, <1>3, <1>5, <1>6, LoopIInv

LEMMA StorePortIInv ==
    ASSUME IInv, NEW l \in Loops, StorePort(l)
    PROVE  IInv'
<1> DEFINE new == [loop[l] EXCEPT !.at = "post", !.todo = Peers]
<1>1. /\ loop[l].at = "port" /\ port' = loop[l].end.port
      /\ UNCHANGED <<addr, seen, last, ip, reg, burst, holes, inbox, late, overlapped>>
  BY DEF StorePort
<1>2. loop' = [loop EXCEPT ![l] = new]
  <2>1. loop' = [loop EXCEPT ![l].at = "post", ![l].todo = Peers]
    BY DEF StorePort
  <2>2. QED
    BY <2>1, LoopKnows DEF LoopType
<1>3. /\ new \in LoopType /\ new.at = "post"
      /\ new.end = loop[l].end
  BY LoopKnows DEF LoopType
<1> HIDE DEF new
<1>4. /\ loop'[l] = new
      /\ \A k \in Loops : k # l => loop'[k] = loop[k]
  BY <1>2, <1>3, LoopKnows, LoopGoesOn
<1>5. ASSUME ~overlapped PROVE EndsFresh'
  <2>1. EndsFresh
    BY <1>5 DEF IInv
  <2>2. /\ l = "beat" => loop["dog"].at = "idle"
        /\ l = "dog" => ~Starting
        /\ \A k \in Loops : k # l => loop[k].at \notin {"stun", "ip", "port"}
        /\ Fresh(loop[l].end) /\ ip = loop[l].end.ip
    BY <1>1, <2>1, OneLoopStores DEF EndsFresh
  <2>3. ~Starting'
    BY <1>3, <1>4, <2>2 DEF Starting, Loops
  <2>4. ASSUME NEW k \in Loops
        PROVE  loop'[k].at \notin {"ip", "port"}
    BY <1>3, <1>4, <2>2
  <2>5. Fresh(Endpoint(ip, port))'
    BY <1>1, <2>2 DEF Fresh, Endpoint
  <2>6. QED
    BY <2>3, <2>4, <2>5 DEF EndsFresh
<1>6. /\ l = "dog" => loop["dog"].at # "idle" /\ new.at # "idle"
      /\ ip' \in Addrs /\ port' \in Addrs /\ reg' \in [Peers -> EndpointType]
      /\ ip' <= addr /\ new.end.ip <= addr
  BY <1>1, <1>3, LoopKnows DEF IInv, TypeOK
<1>7. QED
  BY <1>1, <1>2, <1>3, <1>5, <1>6, LoopIInv

\* Whatever a loop does outside of asking and storing leaves what is stored as fresh
\* as it was.
LEMMA FreshOutside ==
    ASSUME EndsFresh, NEW l \in Loops, NEW new, UNCHANGED <<last, ip, port>>,
           loop'[l] = new, \A k \in Loops : k # l => loop'[k] = loop[k],
           loop[l].at \notin {"stun", "ip", "port"}, new.at \notin {"stun", "ip", "port"},
           l = "dog" => loop["dog"].at # "idle"
    PROVE  EndsFresh'
<1>1. Starting' => Starting /\ loop'["dog"].at = "idle"
  BY DEF EndsFresh, Starting, Loops
<1>2. ASSUME NEW k \in Loops, loop'[k].at \in {"ip", "port"}
      PROVE  Fresh(loop[k].end)' /\ (loop'[k].at = "port" => ip' = loop'[k].end.ip)
  BY <1>2 DEF EndsFresh, Fresh
<1>3. ~Starting' /\ loop'["dog"].at \notin {"stun", "ip", "port"} => Fresh(Endpoint(ip, port))'
  BY DEF EndsFresh, Starting, Loops, Fresh, Endpoint
<1>4. QED
  BY <1>1, <1>2, <1>3 DEF EndsFresh

LEMMA PostIInv ==
    ASSUME IInv, NEW l \in Loops, NEW p \in Peers, Post(l, p) \/ PostFails(l, p)
    PROVE  IInv'
<1> DEFINE new == [loop[l] EXCEPT !.todo = loop[l].todo \ {p}]
<1>1. /\ loop[l].at = "post"
      /\ UNCHANGED <<addr, seen, last, ip, port, burst, holes, inbox, late, overlapped>>
      /\ loop' = [loop EXCEPT ![l] = new]
  BY DEF Post, PostFails
<1>2. reg' \in [Peers -> EndpointType]
  BY LoopKnows DEF Post, PostFails, IInv, TypeOK
<1>3. new \in LoopType /\ new.at = "post" /\ new.end = loop[l].end
  BY <1>1, LoopKnows DEF LoopType
<1> HIDE DEF new
<1>4. /\ loop'[l] = new
      /\ \A k \in Loops : k # l => loop'[k] = loop[k]
  BY <1>1, <1>3, LoopKnows, LoopGoesOn
<1>5. ASSUME ~overlapped PROVE EndsFresh'
  BY <1>1, <1>3, <1>4, <1>5, FreshOutside DEF IInv
<1>6. /\ l = "dog" => loop["dog"].at # "idle" /\ new.at # "idle"
      /\ ip' \in Addrs /\ port' \in Addrs
      /\ ip' <= addr /\ new.end.ip <= addr
  BY <1>1, <1>3, LoopKnows
<1>7. QED
  BY <1>1, <1>2, <1>3, <1>5, <1>6, LoopIInv

\* The ticks of the heartbeat load what is stored and store nothing.
LEMMA BeatIInv ==
    ASSUME IInv, BeatSleep \/ BeatIp \/ BeatPort
    PROVE  IInv'
<1>1. /\ loop["beat"].at \in {"post", "idle", "load"}
      /\ UNCHANGED <<addr, seen, last, ip, port, reg, burst, holes, inbox, late, overlapped>>
  BY DEF BeatSleep, BeatIp, BeatPort, Posted
<1>2. "beat" \in Loops /\ "beat" # "dog"
  BY DEF Loops
<1>3. PICK new \in LoopType :
          /\ loop' = [loop EXCEPT !["beat"] = new]
          /\ new.at \in {"post", "idle", "load"} /\ new.end.ip <= addr
  <2>1. CASE BeatSleep
    <3>1. Idle.end.ip <= addr
      BY <1>2, LoopTypes, LoopKnows
    <3>2. QED
      BY <2>1, <3>1, LoopTypes DEF BeatSleep
  <2>2. CASE BeatIp
    <3>1. loop' = [loop EXCEPT !["beat"] = Loop("load", Endpoint(ip, 0), {})]
      BY <2>2 DEF BeatIp
    <3>2. /\ Loop("load", Endpoint(ip, 0), {}) \in LoopType
          /\ Loop("load", Endpoint(ip, 0), {}).at = "load"
          /\ Loop("load", Endpoint(ip, 0), {}).end.ip = ip
      BY <1>2, LoopTypes, LoopKnows
    <3>3. QED
      BY <3>1, <3>2, <1>2, LoopKnows
  <2>3. CASE BeatPort
    <3> DEFINE i == loop["beat"].end.ip
    <3>1. loop' = [loop EXCEPT !["beat"] = Loop("post", Endpoint(i, port), Peers)]
      BY <2>3 DEF BeatPort
    <3>2. i \in Addrs /\ port \in Addrs /\ i <= addr
      BY <1>2, LoopKnows
    <3> HIDE DEF i
    <3>3. /\ Loop("post", Endpoint(i, port), Peers) \in LoopType
          /\ Loop("post", Endpoint(i, port), Peers).at = "post"
          /\ Loop("post", Endpoint(i, port), Peers).end.ip = i
      BY <3>2, LoopTypes
    <3>4. QED
      BY <3>1, <3>2, <3>3
  <2>4. QED
    BY <2>1, <2>2, <2>3
<1>4. /\ loop'["beat"] = new
      /\ \A k \in Loops : k # "beat" => loop'[k] = loop[k]
  BY <1>2, <1>3, LoopKnows, LoopGoesOn
<1>5. ASSUME ~overlapped PROVE EndsFresh'
  BY <1>1, <1>2, <1>3, <1>4, <1>5, FreshOutside DEF IInv
<1>6. ip' \in Addrs /\ port' \in Addrs /\ ip' <= addr /\ reg' \in [Peers -> EndpointType]
  BY <1>1 DEF IInv, TypeOK, Known
<1>7. QED
  BY <1>1, <1>2, <1>3, <1>5, <1>6, LoopIInv

\* A watchdog that starts while the first heartbeat is still asking gives up what is
\* promised of the endpoint; otherwise nobody else is asking.
LEMMA DogTickIInv ==
    ASSUME IInv, DogTick
    PROVE  IInv'
<1> DEFINE new == Loop("stun", NoEndpoint, {})
<1>1. /\ loop["dog"].at = "idle" /\ last' = seen
      /\ UNCHANGED <<addr, seen, ip, port, reg, burst, holes, inbox, late>>
      /\ loop' = [loop EXCEPT !["dog"] = new]
  BY DEF DogTick
<1>2. /\ new \in LoopType /\ new.at = "stun" /\ new.end.ip = 0
      /\ "dog" \in Loops /\ "beat" \in Loops /\ "beat" # "dog"
  BY LoopTypes DEF Loop, LoopType, Loops
<1> HIDE DEF new
<1>3. /\ loop'["dog"] = new
      /\ \A k \in Loops : k # "dog" => loop'[k] = loop[k]
      /\ loop' \in [Loops -> LoopType]
  BY <1>1, <1>2, LoopKnows, LoopGoesOn
<1>4. overlapped' \in BOOLEAN /\ (~overlapped' => ~overlapped /\ ~Starting)
  BY DEF DogTick
<1>5. TypeOK'
  BY <1>1, <1>3, <1>4 DEF IInv, TypeOK, LoopType
<1>6. Known'
  BY <1>1, <1>2, <1>3, LoopKnows DEF IInv, Known, TypeOK, Addrs
<1>7. HolesFresh'
  BY <1>2, <1>3 DEF HolesFresh
<1>8. ASSUME ~overlapped' PROVE EndsFresh'
  <2>1. loop["beat"].at \notin {"stun", "ip", "port"}
    BY <1>4, <1>8 DEF Starting
  <2>2. \A k \in Loops : loop'[k].at \notin {"ip", "port"}
    BY <1>2, <1>3, <2>1 DEF Loops
  <2>3. ~Starting'
    BY <1>2, <1>3, <2>1 DEF Starting
  <2>4. loop'["dog"].at = "stun"
    BY <1>2, <1>3
  <2>5. QED
    BY <2>2, <2>3, <2>4 DEF EndsFresh
<1>9. QED
  BY <1>5, <1>6, <1>7, <1>8 DEF IInv

LEMMA DogClearIInv ==
    ASSUME IInv, DogClear
    PROVE  IInv'
<1>1. /\ loop["dog"].at = "post"
      /\ UNCHANGED <<addr, seen, last, ip, port, reg, burst, inbox, overlapped>>
      /\ holes' = [p \in Peers |-> 0] /\ late' = Waiting
      /\ loop' = [loop EXCEPT !["dog"] = Idle]
      /\ "dog" \in Loops
  BY DEF DogClear, Posted, Loops
<1>2. /\ loop'["dog"] = Idle
      /\ \A k \in Loops : k # "dog" => loop'[k] = loop[k]
      /\ loop' \in [Loops -> LoopType]
  BY <1>1, LoopTypes, LoopKnows, LoopGoesOn
<1>3. 0 \in Addrs /\ addr \in Nat
  BY EndpointAssumption DEF Addrs, IInv, TypeOK
<1>4. TypeOK'
  <2>1. \A i \in 1..Len(inbox) : inbox[i] \in PacketType
    BY DEF IInv, TypeOK
  <2>2. late' \in SUBSET PacketType
    BY <1>1, <2>1 DEF Waiting
  <2>3. QED
    BY <1>1, <1>2, <1>3, <2>2 DEF IInv, TypeOK, LoopType
<1>5. Known'
  BY <1>1, <1>2, <1>3, LoopTypes DEF IInv, Known
<1>6. HolesFresh'
  <2>1. \A i \in 1..Len(inbox') : inbox'[i] \in late'
    BY <1>1 DEF Waiting
  <2>2. \A p \in Peers : holes'[p] = 0
    BY <1>1
  <2>3. QED
    BY <2>1, <2>2 DEF HolesFresh
<1>7. ASSUME ~overlapped' PROVE EndsFresh'
  BY <1>1, <1>2, <1>7, LoopTypes, FreshOutside DEF IInv
<1>8. QED
  BY <1>4, <1>5, <1>6, <1>7 DEF IInv

\* What happens at the peers.
LEMMA PeerIInv ==
    ASSUME IInv, NEW p \in Peers,
           Rediscover(p) \/ PunchFromPeer(p) \/ PunchFromNode(p) \/ BurstEnds(p)
    PROVE  IInv'
<1>1. UNCHANGED <<addr, seen, last, ip, port, loop, holes, inbox, late, overlapped>>
  BY DEF Rediscover, PunchFromPeer, PunchFromNode, BurstEnds, Aim
<1>2. reg' \in [Peers -> EndpointType]
  BY LoopTypes DEF Rediscover, PunchFromPeer, PunchFromNode, BurstEnds, Aim, IInv, TypeOK
<1>3. burst' \in [Peers -> EndpointType]
  <2>1. /\ reg[p] \in EndpointType /\ Endpoint(ip, port) \in EndpointType
        /\ NoEndpoint \in EndpointType /\ burst \in [Peers -> EndpointType]
    BY LoopTypes DEF IInv, TypeOK, Endpoint, EndpointType
  <2>2. QED
    BY <2>1 DEF Rediscover, PunchFromPeer, PunchFromNode, BurstEnds, Aim
<1>4. TypeOK'
  BY <1>1, <1>2, <1>3 DEF IInv, TypeOK
<1>5. Known' /\ HolesFresh'
  BY <1>1 DEF IInv, Known, HolesFresh
<1>6. ~overlapped' => EndsFresh'
  BY <1>1, FreshKept DEF IInv
<1>7. QED
  BY <1>4, <1>5, <1>6 DEF IInv

\* A packet comes in at the present address, which the watchdog has not passed.
LEMMA ReadIInv ==
    ASSUME IInv, NEW p \in Peers, ReadPacket(p)
    PROVE  IInv'
<1>1. /\ inbox' = Append(inbox, Packet(p, addr))
      /\ UNCHANGED <<addr, seen, last, ip, port, loop, reg, burst, holes, late, overlapped>>
  BY DEF ReadPacket
<1>2. /\ inbox \in Seq(PacketType)
      /\ Packet(p, addr) \in PacketType /\ Packet(p, addr).at = addr
      /\ addr \in Nat /\ last \in Nat /\ seen \in Nat /\ last <= addr
  BY DEF IInv, TypeOK, Known, Packet, PacketType, Addrs
<1>3. /\ inbox' \in Seq(PacketType) /\ Len(inbox') = Len(inbox) + 1
      /\ \A i \in 1..Len(inbox) : inbox'[i] = inbox[i]
      /\ inbox'[Len(inbox) + 1] = Packet(p, addr)
      /\ Len(inbox) \in Nat
  BY <1>1, <1>2
<1>4. \A i \in 1..Len(inbox') : i \in 1..Len(inbox) \/ inbox'[i] = Packet(p, addr)
  BY <1>3
<1>5. TypeOK'
  BY <1>1, <1>3 DEF IInv, TypeOK
<1>6. Known'
  <2>1. \A i \in 1..Len(inbox') : inbox'[i].at <= addr
    BY <1>2, <1>3, <1>4 DEF IInv, Known
  <2>2. QED
    BY <1>1, <2>1 DEF IInv, Known
<1>7. HolesFresh'
  <2> SUFFICES ASSUME loop["dog"].at = "idle", NEW i \in 1..Len(inbox')
               PROVE  last <= inbox'[i].at \/ inbox'[i] \in late
    BY <1>1 DEF IInv, HolesFresh
  <2>1. CASE i \in 1..Len(inbox)
    BY <1>3, <2>1 DEF IInv, HolesFresh
  <2>2. CASE inbox'[i] = Packet(p, addr)
    BY <1>2, <2>2
  <2>3. QED
    BY <1>4, <2>1, <2>2
<1>8. ~overlapped' => EndsFresh'
  BY <1>1, FreshKept DEF IInv
<1>9. QED
  BY <1>5, <1>6, <1>7, <1>8 DEF IInv

\* The hole that a packet makes is as fresh as the packet.
LEMMA StoreIInv ==
    ASSUME IInv, StorePacket
    PROVE  IInv'
<1> DEFINE first == inbox[1]
<1>1. /\ inbox # <<>> /\ inbox \in Seq(PacketType) /\ inbox' = Tail(inbox)
      /\ UNCHANGED <<addr, seen, last, ip, port, loop, reg, burst, late, overlapped>>
  BY DEF StorePacket, IInv, TypeOK
<1>2. /\ Len(inbox) \in Nat /\ 1 \in 1..Len(inbox)
      /\ first \in PacketType /\ Head(inbox) = first
      /\ inbox' \in Seq(PacketType)
      /\ \A i \in 1..Len(inbox') : i + 1 \in 1..Len(inbox) /\ inbox'[i] = inbox[i + 1]
  BY <1>1
<1> HIDE DEF first
<1>3. \/ UNCHANGED holes
      \/ holes' = [holes EXCEPT ![first.from] = first.at]
  BY <1>2 DEF StorePacket
<1>4. /\ first.from \in Peers /\ first.at \in Addrs /\ first = Packet(first.from, first.at)
      /\ holes \in [Peers -> Addrs]
  BY <1>2 DEF PacketType, Packet, IInv, TypeOK
<1>5. /\ holes' \in [Peers -> Addrs]
      /\ \A p \in Peers : holes'[p] = holes[p] \/ (p = first.from /\ holes'[p] = first.at)
  BY <1>3, <1>4
<1>6. TypeOK'
  BY <1>1, <1>2, <1>5 DEF IInv, TypeOK
<1>7. Known'
  <2>1. /\ \A p \in Peers : holes'[p] <= addr
        /\ \A i \in 1..Len(inbox') : inbox'[i].at <= addr
    BY <1>2, <1>5 DEF IInv, Known, first
  <2>2. QED
    BY <1>1, <2>1 DEF IInv, Known
<1>8. HolesFresh'
  <2> SUFFICES ASSUME loop["dog"].at = "idle"
               PROVE  /\ \A p \in Peers : holes'[p] = 0 \/ last <= holes'[p] \/ Packet(p, holes'[p]) \in late
                      /\ \A i \in 1..Len(inbox') : last <= inbox'[i].at \/ inbox'[i] \in late
    BY <1>1 DEF HolesFresh
  <2>1. \A i \in 1..Len(inbox) : last <= inbox[i].at \/ inbox[i] \in late
    BY DEF IInv, HolesFresh
  <2>2. last <= first.at \/ Packet(first.from, first.at) \in late
    BY <1>2, <1>4, <2>1 DEF first
  <2>3. \A p \in Peers : holes[p] = 0 \/ last <= holes[p] \/ Packet(p, holes[p]) \in late
    BY DEF IInv, HolesFresh
  <2>4. \A p \in Peers : holes'[p] = 0 \/ last <= holes'[p] \/ Packet(p, holes'[p]) \in late
    BY <1>5, <2>2, <2>3
  <2>5. \A i \in 1..Len(inbox') : last <= inbox'[i].at \/ inbox'[i] \in late
    BY <1>2, <2>1
  <2>6. QED
    BY <2>4, <2>5
<1>9. ~overlapped' => EndsFresh'
  BY <1>1, FreshKept DEF IInv
<1>10. QED
  BY <1>6, <1>7, <1>8, <1>9 DEF IInv

LEMMA NextIInv == IInv /\ [Next]_vars => IInv'
<1> SUFFICES ASSUME IInv, [Next]_vars PROVE IInv'
  OBVIOUS
<1>1. CASE Move \/ See
  BY <1>1, MoveIInv
<1>2. ASSUME NEW l \in Loops, LoopStep(l) PROVE IInv'
  BY <1>2, StunIInv, StoreIpIInv, StorePortIInv, PostIInv DEF LoopStep
<1>3. CASE BeatSleep \/ BeatIp \/ BeatPort
  BY <1>3, BeatIInv
<1>4. CASE DogTick \/ DogClear
  BY <1>4, DogTickIInv, DogClearIInv
<1>5. ASSUME NEW p \in Peers,
             Rediscover(p) \/ PunchFromPeer(p) \/ PunchFromNode(p) \/ ReadPacket(p) \/ BurstEnds(p)
      PROVE  IInv'
  BY <1>5, PeerIInv, ReadIInv
<1>6. CASE UNCHANGED vars
  <2>1. UNCHANGED <<addr, seen, last, ip, port, loop, reg, burst, holes, inbox, late, overlapped>>
    BY <1>6 DEF vars
  <2>2. TypeOK'
    BY <2>1 DEF IInv, TypeOK
  <2>3. Known' /\ HolesFresh'
    BY <2>1 DEF IInv, Known, HolesFresh
  <2>4. ~overlapped' => EndsFresh'
    BY <2>1, FreshKept DEF IInv
  <2>5. QED
    BY <2>2, <2>3, <2>4 DEF IInv
<1>7. CASE StorePacket
  BY <1>7, StoreIInv
<1>8. QED
  BY <1>1, <1>2, <1>3, <1>4, <1>5, <1>6, <1>7 DEF Next

LEMMA EndpointInvariant == Spec => []IInv
BY InitIInv, NextIInv, PTL DEF Spec

\* TypeOK: no endpoint that a loop holds, a registry lists or a burst aims at lies
\* outside of what /stun has answered (startHeartbeatLoop, startIPWatchdog).
THEOREM EndpointTypeCorrect == Spec => []TypeOK
<1>1. IInv => TypeOK
  BY DEF IInv
<1>2. QED
  BY <1>1, EndpointInvariant, PTL

\* OldHolesCleared: once startIPWatchdog is done with a move, the only hole of an
\* earlier address is one of a packet that waited while it cleared the holes.
THEOREM HolesCleared == Spec => []OldHolesCleared
<1>1. IInv => OldHolesCleared
  <2> SUFFICES ASSUME IInv, DogSettled, NEW p \in Peers
               PROVE  holes[p] \in {0, addr} \/ Packet(p, holes[p]) \in late
    BY DEF OldHolesCleared
  <2>1. /\ holes[p] = 0 \/ addr <= holes[p] \/ Packet(p, holes[p]) \in late
        /\ holes[p] <= addr /\ holes[p] \in Nat /\ addr \in Nat
    BY DEF DogSettled, IInv, HolesFresh, Known, TypeOK, Addrs
  <2>2. QED
    BY <2>1
<1>2. QED
  BY <1>1, EndpointInvariant, PTL

\* EndpointCurrent: the endpoint stored once startIPWatchdog is done with a move was
\* answered at the present address, unless it overlapped the first heartbeat.
THEOREM EndpointIsCurrent == Spec => []EndpointCurrent
<1>1. IInv => EndpointCurrent
  <2> SUFFICES ASSUME IInv, DogSettled, ~Starting, ~overlapped PROVE ip = port /\ ip \in {0, addr}
    BY DEF EndpointCurrent
  <2>1. EndsFresh
    BY DEF IInv
  <2>2. Fresh(Endpoint(ip, port)) /\ last = addr
    BY <2>1 DEF EndsFresh, DogSettled
  <2>3. ip <= addr /\ ip \in Nat /\ addr \in Nat
    BY DEF IInv, Known, TypeOK, Addrs
  <2>4. QED
    BY <2>2, <2>3 DEF Fresh, Endpoint
<1>2. QED
  BY <1>1, EndpointInvariant, PTL

=============================================================================
