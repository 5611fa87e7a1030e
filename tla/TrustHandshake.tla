---------------------------- MODULE TrustHandshake ----------------------------
(***************************************************************************)
(* How a node makes itself known to the peers of its configuration, and    *)
(* asks them for trust: the heartbeat loop with registerWithPeers and      *)
(* sendTrustRequestIfNeeded, the farewell at SIGTERM (daemon/peer.go,      *)
(* daemon/main.go), the other writer of node.json, /trust-approve          *)
(* (daemon/handlers.go), and what those posts do to the peers.             *)
(*                                                                         *)
(* One node talks to the peers of its cfg.PeerNodes.  A post is a message  *)
(* in net: its client waits 3 or 5 s for the answer, the server may handle *)
(* it at any time, also after the client has gone on or died, or never.    *)
(* The static URL of a peer leads to it.  The LAN URL that mDNS found does *)
(* while the peer is where it was found: dynamicPeers keeps it for ever.   *)
(* What a peer does to the URL of another is the environment's choice.     *)
(* kept, decided and forgotten are history.                                *)
(***************************************************************************)
EXTENDS Naturals, Sequences, FiniteSets, Functions

CONSTANTS
    Peers,          \* node ids of the other nodes
    PeerNodes,      \* cfg.PeerNodes of the node at first, in order
    Lan,            \* the peers that mDNS can discover
    MaxNodes,       \* bound of the model: length of cfg.PeerNodes
    MaxInFlight     \* bound of the model: posts in the network

ASSUME HandshakeAssumption ==
    PeerNodes \in Seq(Peers) /\ Lan \subseteq Peers /\ MaxNodes \in Nat /\ MaxInFlight \in Nat

VARIABLES
    proc,       \* the daemon: up, leaving (after a SIGTERM) or down
    nodes,      \* cfg.PeerNodes in memory
    approved,   \* cfg.TrustApproved in memory
    beat,       \* the heartbeat goroutine: where it is, to whom it has still to post,
                \* in any order, and whom it has still to ask, in order
    approve,    \* a /trust-approve handler: where it is, with its cfgSnap
    disk,       \* node.json: empty, garbage or JSON, and how many of nodes, and
                \* whether trust_approved, the longest text in it since it was
                \* truncated has
    enrolled,   \* node.crt exists
    lan,        \* the keys of dynamicPeers
    near,       \* those of them that are where their URL says
    shadowed,   \* peers not found on the LAN whose static URL has the hostname of the
                \* LAN URL of another peer, or the public_ip that this one has pushed
    farewell,   \* the targets sendDeregisterToBootstrap has still to tell
    kept,       \* history: trust_approved is saved, and was not lost since by a save
                \* that overlapped or that a crash cut short
    net,        \* posts not handled yet
    live,       \* the peers that list the node, from a heartbeat of the last 90 s
    copies,     \* the peers whose fetchAndStorePeerStatus has such an entry in hand
    pending,    \* the peers with a trust request of the node in their queue
    decided,    \* history: peers whose operator has approved or denied
    forgotten   \* history: peers that restarted with it in their queue, undecided so far

cfgVars == <<nodes, approved, approve, disk, kept>>
lanVars == <<lan, near, shadowed>>
nodeVars == <<proc, beat, cfgVars, enrolled, lanVars, farewell>>
peerVars == <<live, copies, pending, decided, forgotten>>
vars == <<nodeVars, net, peerVars>>

Configured == Range(nodes)

Messages == {"register", "deregister", "request"} \X Peers

BeatState == {"off", "asleep", "posting", "asking", "waiting", "marking", "saving"}

Targets == {"static", "lan"} \X Peers

\* Where a snapshot of dynamicPeers sends what is for p: to the LAN URL if it has one.
Target(p) == <<IF p \in lan THEN "lan" ELSE "static", p>>

\* The goroutine when it does nothing: not started, or between two ticks.
Idle(st) == [st |-> st, todo |-> {}, ask |-> <<>>]

\* startHeartbeatLoop: no goroutine without peer_nodes.
Loop(list) == Idle(IF list = <<>> THEN "off" ELSE "asleep")

NoApproval == [at |-> "idle", n |-> 0, acked |-> FALSE]

\* A config of the first n of nodes, as JSON.
Text(n, acked) == [form |-> "json", n |-> n, acked |-> acked]

\* os.WriteFile has opened the file.
Truncated == [form |-> "empty", n |-> 0, acked |-> FALSE]

\* It writes from the start: over a longer text, the end of that remains.  A config
\* only grows, so that an older snapshot is the shorter text.
Over(n, acked) ==
    IF disk.n <= n /\ (disk.acked => acked) THEN Text(n, acked) ELSE [disk EXCEPT !.form = "garbage"]

Init ==
    /\ proc = "up" /\ nodes = PeerNodes /\ approved = FALSE /\ enrolled \in BOOLEAN
    /\ disk = Text(Len(PeerNodes), FALSE) /\ kept = FALSE
    /\ beat = Loop(PeerNodes) /\ approve = NoApproval /\ farewell = {}
    /\ lan = {} /\ near = {} /\ shadowed = {} /\ net = {}
    /\ live = {} /\ copies = {} /\ pending = {} /\ decided = {} /\ forgotten = {}

Post(kind, p) ==
    /\ net' = net \cup {<<kind, p>>}
    /\ Cardinality(net') <= MaxInFlight

\* A post to the target t.  A LAN URL may lead nowhere by now.
PostTo(kind, t) == IF t[1] = "lan" /\ t[2] \notin near THEN net' = net ELSE Post(kind, t[2])

(* ------------------------------ heartbeat -------------------------------- *)

\* Faulty variant of BeatStart: a peer in both lists is left out of both.
BeatStartOnce ==
    /\ beat.st = "asleep"
    /\ beat' = [Idle("posting") EXCEPT !.todo =
                   {Target(p) : p \in (lan \ Configured) \cup (Configured \ (shadowed \cup lan))}]
    /\ UNCHANGED <<proc, cfgVars, enrolled, lanVars, farewell, net, peerVars>>

\* A tick: registerWithPeers copies cfg and dynamicPeers.  A static peer is skipped if
\* it is in dynamicPeers by its node id, or if its hostname is that of a LAN peer.
BeatStart ==
    /\ beat.st = "asleep"
    /\ beat' = [Idle("posting") EXCEPT !.todo = {Target(p) : p \in lan \cup (Configured \ shadowed)}]
    /\ UNCHANGED <<proc, cfgVars, enrolled, lanVars, farewell, net, peerVars>>

BeatPost(t) ==
    /\ beat.st = "posting" /\ t \in beat.todo
    /\ PostTo("register", t)
    /\ beat' = [beat EXCEPT !.todo = beat.todo \ {t}]
    /\ UNCHANGED <<proc, cfgVars, enrolled, lanVars, farewell, peerVars>>

\* sendTrustRequestIfNeeded: not if enrolled, nor if approved.
BeatCheck ==
    /\ beat.st = "posting" /\ beat.todo = {}
    /\ beat' = IF enrolled \/ approved
                 THEN Idle("asleep")
                 ELSE [Idle("asking") EXCEPT !.ask = [i \in DOMAIN nodes |-> Target(nodes[i])]]
    /\ UNCHANGED <<proc, cfgVars, enrolled, lanVars, farewell, net, peerVars>>

BeatAsk ==
    /\ beat.st = "asking" /\ beat.ask # <<>>
    /\ PostTo("request", Head(beat.ask))
    /\ beat' = [beat EXCEPT !.st = "waiting"]
    /\ UNCHANGED <<proc, cfgVars, enrolled, lanVars, farewell, peerVars>>

AskNext == [Idle("asking") EXCEPT !.ask = Tail(beat.ask)]

\* No answer in 5 s: the next peer.
BeatTimeout ==
    /\ beat.st = "waiting"
    /\ beat' = AskNext
    /\ UNCHANGED <<proc, cfgVars, enrolled, lanVars, farewell, net, peerVars>>

\* No peer has taken the request: again at the next tick.
BeatGiveUp ==
    /\ beat.st = "asking" /\ beat.ask = <<>>
    /\ beat' = Idle("asleep")
    /\ UNCHANGED <<proc, cfgVars, enrolled, lanVars, farewell, net, peerVars>>

\* An answer 200: under node.mu, cfg.TrustApproved is set, and saveConfig opens
\* node.json, which truncates it, or cannot ...
BeatMark ==
    /\ beat.st = "marking"
    /\ approved' = TRUE
    /\ \/ /\ disk' = Truncated
          /\ beat' = Idle("saving")
       \/ /\ disk' = disk
          /\ beat' = Idle("asleep")
    /\ UNCHANGED <<proc, nodes, approve, kept, enrolled, lanVars, farewell, net, peerVars>>

\* ... and writes it, with node.mu still held.  The cfgSnap of an approval under way
\* is older.
BeatSave ==
    /\ beat.st = "saving"
    /\ disk' = Over(Len(nodes), approved)
    /\ kept' = (approve.at = "idle")
    /\ beat' = Idle("asleep")
    /\ UNCHANGED <<proc, nodes, approved, approve, enrolled, lanVars, farewell, net, peerVars>>

(* --------------------- /trust-approve, at the node itself ---------------- *)

\* For some peer that has asked this node: append to cfg.PeerNodes, copy cfg, both
\* under node.mu ...
ApproveConfig(p) ==
    /\ proc # "down" /\ approve.at = "idle" /\ beat.st # "saving"
    /\ Len(nodes) < MaxNodes
    /\ nodes' = Append(nodes, p)
    /\ approve' = [at |-> "saving", n |-> Len(nodes'), acked |-> approved]
    /\ UNCHANGED <<proc, beat, approved, disk, kept, enrolled, lanVars, farewell, net, peerVars>>

\* ... and save the copy with no lock held: open, or fail to ...
ApproveOpen ==
    /\ approve.at = "saving"
    /\ \/ /\ disk' = Truncated
          /\ approve' = [approve EXCEPT !.at = "opened"]
       \/ /\ disk' = disk
          /\ approve' = NoApproval
    /\ UNCHANGED <<proc, beat, nodes, approved, kept, enrolled, lanVars, farewell, net, peerVars>>

\* ... and write.
ApproveWrite ==
    /\ approve.at = "opened"
    /\ disk' = Over(approve.n, approve.acked)
    /\ kept' = approve.acked
    /\ approve' = NoApproval
    /\ UNCHANGED <<proc, beat, nodes, approved, enrolled, lanVars, farewell, net, peerVars>>

(* -------------------------- around the heartbeat ------------------------- *)

\* mDNS puts a peer into dynamicPeers, with the URL where it is now.
Discover(p) ==
    /\ proc # "down" /\ p \in Lan
    /\ lan' = lan \cup {p} /\ near' = near \cup {p} /\ shadowed' = shadowed \ {p}
    /\ UNCHANGED <<proc, beat, cfgVars, enrolled, farewell, net, peerVars>>

\* The peer leaves the LAN, or gets another address.  Nothing is taken out.
LeaveLan(p) ==
    /\ p \in near
    /\ near' = near \ {p}
    /\ UNCHANGED <<proc, beat, cfgVars, enrolled, lan, shadowed, farewell, net, peerVars>>

\* Another peer is found on the LAN under p's hostname, or pushes it as its public_ip,
\* as those behind one NAT do; or no longer.
Shadow(p) ==
    /\ proc # "down" /\ p \notin lan
    /\ shadowed' \in {shadowed \cup {p}, shadowed \ {p}}
    /\ UNCHANGED <<proc, beat, cfgVars, enrolled, lan, near, farewell, net, peerVars>>

\* The operator runs "ca enroll", which leaves node.crt.
EnrollNode ==
    /\ enrolled' = TRUE
    /\ UNCHANGED <<proc, beat, cfgVars, lanVars, farewell, net, peerVars>>

\* SIGTERM or SIGINT: everyone known is to be told.  The goroutines go on meanwhile.
Signal ==
    /\ proc = "up"
    /\ proc' = "leaving"
    /\ farewell' = {Target(p) : p \in lan \cup Configured}
    /\ UNCHANGED <<beat, cfgVars, enrolled, lanVars, net, peerVars>>

Farewell(t) ==
    /\ proc = "leaving" /\ t \in farewell
    /\ PostTo("deregister", t)
    /\ farewell' = farewell \ {t}
    /\ UNCHANGED <<proc, beat, cfgVars, enrolled, lanVars, peerVars>>

\* os.Exit after the last farewell, or a crash before it.  A save that is under way is
\* not finished.
Stop ==
    /\ proc # "down"
    /\ proc' = "down"
    /\ beat' = Idle("off") /\ approve' = NoApproval /\ approved' = FALSE /\ farewell' = {}
    /\ kept' = (kept /\ approve.at # "opened")
    /\ lan' = {} /\ near' = {} /\ shadowed' = {}
    /\ UNCHANGED <<nodes, disk, enrolled, net, peerVars>>

\* Faulty variant of LoadFile: the defaults are not written.
LoadFileOnly ==
    /\ nodes' = IF disk.form = "json" THEN SubSeq(nodes, 1, disk.n) ELSE <<>>
    /\ disk' = disk

\* Of a file that does not parse, main makes one of defaults, without peer_nodes.
LoadFile ==
    IF disk.form = "json"
      THEN nodes' = SubSeq(nodes, 1, disk.n) /\ disk' = disk
      ELSE nodes' = <<>> /\ disk' = Text(0, FALSE)

\* Faulty variant of Boot: trust_approved is not read back.
BootAsksAgain ==
    /\ proc = "down"
    /\ proc' = "up"
    /\ LoadFile
    /\ approved' = FALSE
    /\ beat' = Loop(nodes')
    /\ UNCHANGED <<approve, kept, enrolled, lanVars, farewell, net, peerVars>>

\* loadConfig, and the start of the loop.
Boot ==
    /\ proc = "down"
    /\ proc' = "up"
    /\ LoadFile
    /\ approved' = disk'.acked
    /\ beat' = Loop(nodes')
    /\ UNCHANGED <<approve, kept, enrolled, lanVars, farewell, net, peerVars>>

(* ---------------------------- at the peers -------------------------------- *)

Handled(kind, p) == <<kind, p>> \in net /\ net' = net \ {<<kind, p>>}

Awaited(p) == beat.st = "waiting" /\ Head(beat.ask)[2] = p

\* /register: listed, with LastSeen now.
HandleRegister(p) ==
    /\ Handled("register", p)
    /\ live' = live \cup {p}
    /\ UNCHANGED <<nodeVars, copies, pending, decided, forgotten>>

HandleDeregister(p) ==
    /\ Handled("deregister", p)
    /\ live' = live \ {p}
    /\ UNCHANGED <<nodeVars, copies, pending, decided, forgotten>>

\* /trust-request: queued, and answered "pending" with a 200, if someone waits.
HandleRequest(p) ==
    /\ Handled("request", p)
    /\ pending' = pending \cup {p}
    /\ beat' = IF Awaited(p) THEN Idle("marking") ELSE beat
    /\ UNCHANGED <<proc, cfgVars, enrolled, lanVars, farewell, live, copies, decided, forgotten>>

\* Faulty variant of RefuseRequest: any answer is taken for a 200.
RefuseMarks(p) ==
    /\ Handled("request", p)
    /\ beat' = IF Awaited(p) THEN Idle("marking") ELSE beat
    /\ UNCHANGED <<proc, cfgVars, enrolled, lanVars, farewell, peerVars>>

\* /trust-request over its rate limit (RateLimiter says when): 429, the next peer.
RefuseRequest(p) ==
    /\ Handled("request", p)
    /\ beat' = IF Awaited(p) THEN AskNext ELSE beat
    /\ UNCHANGED <<proc, cfgVars, enrolled, lanVars, farewell, peerVars>>

\* A post, or only its answer, that does not arrive.
Lose(m) ==
    /\ m \in net
    /\ net' = net \ {m}
    /\ m[1] = "request" => pending' \in {pending, pending \cup {m[2]}}
    /\ m[1] # "request" => pending' = pending
    /\ UNCHANGED <<nodeVars, live, copies, decided, forgotten>>

\* fetchAndStorePeerStatus, where the node was discovered on the LAN: the entry is
\* read ...
FetchGet(p) ==
    /\ p \in live \cap Lan
    /\ copies' = copies \cup {p}
    /\ UNCHANGED <<nodeVars, net, live, pending, decided, forgotten>>

\* ... and put back, whatever has happened to it meanwhile.
FetchStore(p) ==
    /\ p \in copies
    /\ live' = live \cup {p} /\ copies' = copies \ {p}
    /\ UNCHANGED <<nodeVars, net, pending, decided, forgotten>>

\* Faulty variant of Expire: only the peers of the LAN are looked at.
ExpireLan(p) ==
    /\ p \in live \cap lan
    /\ live' = live \ {p} /\ copies' = copies \ {p}
    /\ UNCHANGED <<nodeVars, net, pending, decided, forgotten>>

\* LivePeers: 90 s since the last heartbeat that arrived.  A copy of the entry is
\* no younger; that of an earlier heartbeat, put back, only makes this happen sooner.
Expire(p) ==
    /\ p \in live
    /\ live' = live \ {p} /\ copies' = copies \ {p}
    /\ UNCHANGED <<nodeVars, net, pending, decided, forgotten>>

\* /trust-approve and /trust-deny.
Decide(p) ==
    /\ p \in pending
    /\ pending' = pending \ {p}
    /\ decided' = decided \cup {p} /\ forgotten' = forgotten \ {p}
    /\ UNCHANGED <<nodeVars, net, live, copies>>

\* The registry and trustRequests are in memory.
PeerRestart(p) ==
    /\ p \in live \cup pending
    /\ live' = live \ {p} /\ copies' = copies \ {p} /\ pending' = pending \ {p}
    /\ forgotten' = forgotten \cup (({p} \cap pending) \ decided)
    /\ UNCHANGED <<nodeVars, net, decided>>

-----------------------------------------------------------------------------

Heartbeat ==
    \/ BeatStart \/ (\E t \in Targets : BeatPost(t)) \/ BeatCheck
    \/ BeatAsk \/ BeatTimeout \/ BeatGiveUp \/ BeatMark \/ BeatSave

Handle(p) == HandleRegister(p) \/ HandleDeregister(p) \/ HandleRequest(p) \/ RefuseRequest(p)

Next ==
    \/ Heartbeat
    \/ ApproveOpen \/ ApproveWrite
    \/ \E p \in Peers : ApproveConfig(p) \/ Discover(p) \/ LeaveLan(p) \/ Shadow(p) \/ Handle(p)
    \/ \E t \in Targets : Farewell(t)
    \/ \E p \in Peers : FetchGet(p) \/ FetchStore(p) \/ Expire(p) \/ Decide(p) \/ PeerRestart(p)
    \/ EnrollNode \/ Signal \/ Stop \/ Boot
    \/ \E m \in Messages : Lose(m)

Spec == Init /\ [][Next]_vars

\* The loop's calls have time-outs and its ticker goes on; the network does not
\* lose every heartbeat or every request to a peer; entries expire.  Nothing
\* obliges operators, discovery, signals or restarts.
Fairness ==
    /\ WF_vars(Heartbeat)
    /\ \A p \in Peers : SF_vars(HandleRegister(p)) /\ SF_vars(HandleRequest(p)) /\ WF_vars(Expire(p))
    /\ \A p \in Peers : WF_vars(HandleDeregister(p) \/ Lose(<<"deregister", p>>))

FairSpec == Spec /\ Fairness

-----------------------------------------------------------------------------

\* The type of the node, of the network and of what the peers hold.
TypeOK ==
    /\ proc \in {"up", "leaving", "down"}
    /\ nodes \in Seq(Peers) /\ approved \in BOOLEAN /\ enrolled \in BOOLEAN /\ kept \in BOOLEAN
    /\ beat \in [st : BeatState, todo : SUBSET Targets, ask : Seq(Targets)]
    /\ approve \in [at : {"idle", "saving", "opened"}, n : 0..Len(nodes), acked : BOOLEAN]
    /\ disk \in [form : {"empty", "garbage", "json"}, n : 0..Len(nodes), acked : BOOLEAN]
    /\ lan \subseteq Peers /\ near \subseteq lan /\ shadowed \subseteq Peers
    /\ farewell \subseteq Targets
    /\ net \subseteq Messages
    /\ live \subseteq Peers /\ copies \subseteq Peers /\ pending \subseteq Peers
    /\ decided \subseteq Peers /\ forgotten \subseteq Peers

\* "true once a bootstrap acknowledged /trust-request" (config.go): however posts
\* and answers are lost, refused or late, whichever save of node.json comes last, and
\* wherever the node dies, it believes its request delivered only if a peer has it in
\* its queue, has decided it, or has lost it in a restart of its own.
AckIsHeld ==
    approved \/ disk.acked \/ approve.acked \/ beat.st \in {"marking", "saving"}
        => \E p \in Peers : p \in pending \/ p \in decided \/ p \in forgotten

\* "stops retry" (config.go): once a peer has acknowledged it the node posts no request
\* again in this run of the daemon, nor in a later one if trust_approved was saved
\* and stayed so.  It does not stay if a /trust-approve that had copied the config
\* before was still to write its copy, or if the node dies while the file is written.
StopsRetry ==
    [][approved \/ kept => \A p \in Peers : <<"request", p>> \in net' => <<"request", p>> \in net]_vars

\* A heartbeat to p can arrive: for a peer that has been seen on the LAN, at its LAN
\* URL only.
Reachable(p) == IF p \in lan THEN p \in near ELSE p \notin shadowed

\* A node that runs its loop is listed again and again at each peer of its config that
\* it can reach, whatever is discovered, moves or is approved between two steps of a
\* tick (registerWithPeers: "peers will pick us up on the next heartbeat").  That a
\* peer once seen on the LAN is posted to at no other URL, and a peer whose hostname
\* another one has not at all, is what the code does.
PickedUp ==
    \A p \in Peers :
        (<>[](proc = "up" /\ beat.st # "off" /\ p \in Configured /\ Reachable(p)))
            => []<>(p \in live)

\* A node that stays down is at last listed nowhere, whether its farewells
\* arrived, were lost, were overtaken by heartbeats, undone by a status fetch that
\* puts its entry back, or never sent (sendDeregisterToBootstrap: "the next missed
\* heartbeat will expire us anyway").
GoneExpires == (<>[](proc = "down")) => \A p \in Peers : <>[](p \notin live)

\* "Node is sending heartbeats but has not submitted a trust request yet.  The
\* node's installer will send one automatically." (dashboard/app.py)
WillAsk ==
    \A p \in Peers :
        (p \in live \cap Configured /\ p \notin pending /\ p \notin decided /\ ~enrolled)
            ~> (p \in pending \/ p \in decided \/ enrolled \/ beat.st = "off")

=============================================================================
