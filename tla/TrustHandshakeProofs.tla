------------------------- MODULE TrustHandshakeProofs -------------------------
(***************************************************************************)
(* What holds of the handshake for any configuration and any number of     *)
(* peers: the node takes its request for delivered only if it was, and     *)
(* asks no more once it does, in later runs too if that was saved and not  *)
(* overwritten.                                                            *)
(***************************************************************************)
EXTENDS TrustHandshake, TLAPS

\* While a request is awaited there is a peer whose turn it is.
AwaitsPeer == beat.st = "waiting" => beat.ask # <<>>

\* A node that is down has no memory; one that knows of an acknowledgement neither
\* asks nor awaits any.
MemoryAgrees ==
    /\ proc = "down" => beat.st = "off" /\ approve.at = "idle" /\ ~approved
    /\ approved => beat.st \notin {"asking", "waiting", "marking"}
    /\ beat.st = "saving" => approved

\* An approval that has copied trust_approved is not overlapped by the heartbeat.
CopyIsLatest ==
    /\ approve.at = "idle" => approve.n = 0 /\ ~approve.acked
    /\ approve.acked => approved /\ beat.st # "saving"
    /\ approve.at = "opened" /\ approve.acked => disk.n = 0

\* What is kept is in memory, in the file, and in the copy that will replace it.
KeptIsSafe ==
    kept => /\ proc = "down" \/ approved
            /\ beat.st # "saving"
            /\ approve.at # "idle" => approve.acked
            /\ approve.at # "opened" => disk.form = "json" /\ disk.acked

IInv == TypeOK /\ AwaitsPeer /\ MemoryAgrees /\ CopyIsLatest /\ KeptIsSafe /\ AckIsHeld

BeatType == [st : BeatState, todo : SUBSET Targets, ask : Seq(Targets)]

FileType == [form : {"empty", "garbage", "json"}, n : 0..Len(nodes), acked : BOOLEAN]

LEMMA IdleType ==
    \A st \in BeatState : Idle(st) \in BeatType /\ Idle(st).st = st /\ Idle(st).ask = <<>>
  BY DEF Idle, BeatType

LEMMA LoopType ==
    ASSUME NEW list
    PROVE  Loop(list) \in BeatType /\ Loop(list).st \in {"asleep", "off"}
  BY IdleType DEF Loop, BeatState

LEMMA TargetType == \A p \in Peers : Target(p) \in Targets
  BY DEF Target, Targets

\* A post adds one message at most.
LEMMA PostToType ==
    ASSUME TypeOK, NEW kind \in {"register", "deregister", "request"}, NEW t \in Targets, PostTo(kind, t)
    PROVE  net' \subseteq Messages /\ net' \subseteq net \cup {<<kind, t[2]>>}
<1>1. t[2] \in Peers
  BY DEF Targets
<1>2. QED
  BY <1>1 DEF TypeOK, PostTo, Post, Messages

\* The rest of the list.
LEMMA AskNextType ==
    ASSUME beat \in BeatType, beat.ask # <<>>
    PROVE  AskNext \in BeatType /\ AskNext.st = "asking"
<1>1. Tail(beat.ask) \in Seq(Targets)
  BY DEF BeatType
<1>2. QED
  BY <1>1 DEF AskNext, Idle, BeatType, BeatState

LEMMA InitIInv == Init => IInv
<1> SUFFICES ASSUME Init PROVE IInv
  OBVIOUS
<1>1. beat \in BeatType /\ beat.st \in {"asleep", "off"}
  BY LoopType DEF Init
<1>2. nodes \in Seq(Peers) /\ Len(nodes) \in Nat
  BY HandshakeAssumption DEF Init
<1>3. disk \in FileType /\ ~disk.acked
  BY <1>2 DEF Init, Text, FileType
<1>4. approve = NoApproval /\ ~approved /\ ~kept /\ proc = "up"
  BY DEF Init
<1>5. /\ beat \in BeatType /\ disk \in FileType /\ nodes \in Seq(Peers)
      /\ approve \in [at : {"idle", "saving", "opened"}, n : 0..Len(nodes), acked : BOOLEAN]
  BY <1>1, <1>2, <1>3, <1>4 DEF NoApproval
<1>7. TypeOK
  BY <1>4, <1>5 DEF Init, TypeOK, BeatType, FileType
<1>6. QED
  BY <1>1, <1>3, <1>4, <1>7
     DEF IInv, AwaitsPeer, MemoryAgrees, CopyIsLatest, KeptIsSafe, AckIsHeld, NoApproval

\* A step of the loop that leaves the config and its file alone.
LEMMA LoopKeeps ==
    ASSUME IInv, UNCHANGED <<proc, cfgVars, enrolled, lanVars, farewell, peerVars>>,
           beat.st # "off",
           beat' \in BeatType, net' \subseteq Messages,
           beat'.st \notin {"off", "marking", "saving"},
           beat'.st \in {"asking", "waiting"} => ~approved,
           AwaitsPeer'
    PROVE  IInv'
<1> USE DEF cfgVars, lanVars, peerVars
<1>1. proc # "down"
  BY DEF IInv, MemoryAgrees
<1>2. TypeOK'
  BY DEF IInv, TypeOK, BeatType
<1>3. MemoryAgrees' /\ CopyIsLatest' /\ KeptIsSafe'
  BY <1>1 DEF IInv, MemoryAgrees, CopyIsLatest, KeptIsSafe
<1>4. AckIsHeld'
  BY DEF IInv, AckIsHeld
<1>5. QED
  BY <1>2, <1>3, <1>4 DEF IInv

LEMMA HeartbeatKeeps == IInv /\ Heartbeat => IInv'
<1> SUFFICES ASSUME IInv, Heartbeat PROVE IInv'
  OBVIOUS
<1> USE DEF BeatState
<1>t. beat \in BeatType /\ net \subseteq Messages /\ lan \subseteq Peers /\ nodes \in Seq(Peers)
  BY DEF IInv, TypeOK, BeatType
<1>1. CASE BeatStart
  <2>1. Configured \subseteq Peers
    BY <1>t DEF Configured, Range
  <2>2. {Target(p) : p \in lan \cup (Configured \ shadowed)} \subseteq Targets
    BY <1>t, <2>1, TargetType
  <2>3. beat' \in BeatType /\ beat'.st = "posting" /\ beat.st = "asleep"
    <3> DEFINE T == {Target(p) : p \in lan \cup (Configured \ shadowed)}
    <3>1. beat' = [st |-> "posting", todo |-> T, ask |-> <<>>] /\ beat.st = "asleep"
      BY <1>1 DEF BeatStart, Idle
    <3>2. T \subseteq Targets
      BY <2>2
    <3> HIDE DEF T
    <3>3. QED
      BY <3>1, <3>2 DEF BeatType
  <2>4. QED
    BY <1>1, <1>t, <2>3, LoopKeeps DEF BeatStart, AwaitsPeer
<1>2. ASSUME NEW t \in Targets, BeatPost(t) PROVE IInv'
  <2>1. beat' \in BeatType /\ beat'.st = "posting" /\ beat.st = "posting"
    BY <1>2, <1>t DEF BeatPost, BeatType
  <2>2. net' \subseteq Messages
    BY <1>2, PostToType DEF BeatPost, IInv
  <2>3. QED
    BY <1>2, <2>1, <2>2, LoopKeeps DEF BeatPost, AwaitsPeer
<1>3. CASE BeatCheck
  <2>1. [i \in DOMAIN nodes |-> Target(nodes[i])] \in Seq(Targets)
    <3>1. Len(nodes) \in Nat /\ DOMAIN nodes = 1..Len(nodes) /\ \A i \in 1..Len(nodes) : nodes[i] \in Peers
      BY <1>t
    <3>2. \A i \in 1..Len(nodes) : Target(nodes[i]) \in Targets
      BY <3>1, TargetType
    <3>3. QED
      BY <3>1, <3>2
  <2>2. CASE enrolled \/ approved
    <3>1. beat' \in BeatType /\ beat'.st = "asleep"
      BY <1>3, <2>2, IdleType DEF BeatCheck
    <3>2. QED
      BY <1>3, <1>t, <3>1, LoopKeeps DEF BeatCheck, AwaitsPeer
  <2>3. CASE ~(enrolled \/ approved)
    <3>1. beat' \in BeatType /\ beat'.st = "asking"
      BY <1>3, <2>1, <2>3 DEF BeatCheck, Idle, BeatType
    <3>2. QED
      BY <1>3, <1>t, <2>3, <3>1, LoopKeeps DEF BeatCheck, AwaitsPeer
  <2>4. QED
    BY <2>2, <2>3
<1>4. CASE BeatAsk
  <2>1. /\ beat' \in BeatType /\ beat'.st = "waiting" /\ beat.st = "asking"
        /\ beat'.ask # <<>> /\ Head(beat.ask) \in Targets
    BY <1>4, <1>t DEF BeatAsk, BeatType
  <2>2. net' \subseteq Messages
    BY <1>4, <2>1, PostToType DEF BeatAsk, IInv
  <2>3. QED
    BY <1>4, <2>1, <2>2, LoopKeeps DEF BeatAsk, AwaitsPeer, IInv, MemoryAgrees
<1>5. CASE BeatTimeout
  <2>1. beat.st = "waiting" /\ beat.ask # <<>>
    BY <1>5 DEF BeatTimeout, IInv, AwaitsPeer
  <2>2. beat' \in BeatType /\ beat'.st = "asking"
    BY <1>5, <1>t, <2>1, AskNextType DEF BeatTimeout
  <2>3. QED
    BY <1>5, <1>t, <2>1, <2>2, LoopKeeps DEF BeatTimeout, AwaitsPeer, IInv, MemoryAgrees
<1>6. CASE BeatGiveUp
  <2>1. beat' \in BeatType /\ beat'.st = "asleep" /\ beat.st = "asking"
    BY <1>6, IdleType DEF BeatGiveUp
  <2>2. QED
    BY <1>6, <1>t, <2>1, LoopKeeps DEF BeatGiveUp, AwaitsPeer
<1>7. CASE BeatMark
  <2>1. /\ beat' \in BeatType /\ beat'.st \in {"saving", "asleep"} /\ beat.st = "marking"
        /\ approved' = TRUE
    BY <1>7, IdleType DEF BeatMark
  <2>2. disk' \in FileType
    <3>1. Len(nodes) \in Nat /\ disk \in FileType
      BY <1>t DEF FileType, IInv, TypeOK
    <3>2. Truncated \in FileType
      BY <3>1 DEF Truncated, FileType
    <3>3. QED
      BY <1>7, <3>1, <3>2 DEF BeatMark
  <2>3. TypeOK'
    BY <1>7, <2>1, <2>2 DEF BeatMark, lanVars, peerVars, FileType, BeatType, IInv, TypeOK
  <2>4. ~approved /\ ~kept /\ proc # "down" /\ ~approve.acked
    BY <2>1 DEF IInv, MemoryAgrees, KeptIsSafe, CopyIsLatest
  <2>5. MemoryAgrees' /\ CopyIsLatest' /\ KeptIsSafe' /\ AwaitsPeer'
    BY <1>7, <2>1, <2>4 DEF BeatMark, MemoryAgrees, CopyIsLatest, KeptIsSafe, AwaitsPeer, IInv
  <2>6. AckIsHeld'
    BY <1>7, <2>1 DEF BeatMark, peerVars, IInv, AckIsHeld
  <2>7. QED
    BY <2>3, <2>5, <2>6 DEF IInv
<1>8. CASE BeatSave
  <2>1. beat' \in BeatType /\ beat'.st = "asleep" /\ beat.st = "saving" /\ approved
    BY <1>8, IdleType DEF BeatSave, IInv, MemoryAgrees
  <2>2. /\ Len(nodes) \in Nat /\ disk.n \in Nat /\ disk.n <= Len(nodes) /\ approved = TRUE
        /\ nodes' = nodes
    BY <1>8, <1>t, <2>1 DEF BeatSave, IInv, TypeOK
  <2>3. disk' = [form |-> "json", n |-> Len(nodes), acked |-> TRUE]
    BY <1>8, <2>2 DEF BeatSave, Over, Text
  <2>4. disk' \in FileType'
    BY <2>2, <2>3 DEF FileType
  <2>5. TypeOK'
    BY <1>8, <2>1, <2>4 DEF BeatSave, lanVars, peerVars, FileType, BeatType, IInv, TypeOK
  <2>6. ~approve.acked /\ proc # "down"
    BY <2>1 DEF IInv, MemoryAgrees, CopyIsLatest
  <2>7. MemoryAgrees' /\ AwaitsPeer'
    BY <1>8, <2>1, <2>6 DEF BeatSave, MemoryAgrees, AwaitsPeer
  <2>10. CopyIsLatest'
    BY <1>8, <2>6 DEF BeatSave, IInv, CopyIsLatest
  <2>11. KeptIsSafe'
    <3>1. disk'.form = "json" /\ disk'.acked = TRUE
      BY <2>3
    <3>2. kept' => approve'.at = "idle"
      BY <1>8 DEF BeatSave
    <3>3. approved' = TRUE /\ beat'.st # "saving"
      BY <1>8, <2>1, <2>2 DEF BeatSave
    <3>4. QED
      BY <3>1, <3>2, <3>3 DEF KeptIsSafe
  <2>8. AckIsHeld'
    BY <1>8, <2>1 DEF BeatSave, peerVars, IInv, AckIsHeld
  <2>9. QED
    BY <2>5, <2>7, <2>8, <2>10, <2>11 DEF IInv
<1>9. QED
  BY <1>1, <1>2, <1>3, <1>4, <1>5, <1>6, <1>7, <1>8 DEF Heartbeat

\* A handler at a peer takes one message and may answer the loop.
LEMMA HandleKeeps == \A p \in Peers : IInv /\ Handle(p) => IInv'
<1> SUFFICES ASSUME NEW p \in Peers, IInv, Handle(p) PROVE IInv'
  OBVIOUS
<1> USE DEF BeatState
<1>t. beat \in BeatType /\ net' \subseteq Messages
  BY DEF IInv, TypeOK, BeatType, Handle, HandleRegister, HandleDeregister, HandleRequest, RefuseRequest, Handled
<1>1. CASE HandleRegister(p) \/ HandleDeregister(p)
  <2>1. TypeOK' /\ AckIsHeld'
    BY <1>1, <1>t DEF HandleRegister, HandleDeregister, nodeVars, cfgVars, lanVars, IInv, TypeOK, AckIsHeld
  <2>2. AwaitsPeer' /\ MemoryAgrees' /\ CopyIsLatest' /\ KeptIsSafe'
    BY <1>1 DEF HandleRegister, HandleDeregister, nodeVars, cfgVars, IInv, AwaitsPeer, MemoryAgrees,
                CopyIsLatest, KeptIsSafe
  <2>3. QED
    BY <2>1, <2>2 DEF IInv
<1>2. ASSUME HandleRequest(p) \/ RefuseRequest(p) PROVE IInv'
  <2>1. /\ UNCHANGED <<proc, cfgVars, enrolled, lanVars, farewell, live, copies, decided, forgotten>>
        /\ pending \subseteq pending' /\ pending' \subseteq Peers
    BY <1>2 DEF HandleRequest, RefuseRequest, peerVars, IInv, TypeOK
  <2>2. \/ beat' = beat
        \/ /\ beat.st = "waiting" /\ beat.ask # <<>>
           /\ \/ beat' = Idle("marking") /\ p \in pending'
              \/ beat' = AskNext
    BY <1>2 DEF HandleRequest, RefuseRequest, Awaited, IInv, AwaitsPeer
  <2>3. /\ beat' \in BeatType
        /\ \/ beat' = beat
           \/ /\ beat.st = "waiting"
              /\ (beat'.st = "marking" /\ p \in pending') \/ beat'.st = "asking"
    BY <1>t, <2>2, IdleType, AskNextType
  <2>4. TypeOK'
    BY <1>t, <2>1, <2>3 DEF cfgVars, lanVars, IInv, TypeOK, BeatType
  <2>5. AckIsHeld'
    BY <2>1, <2>3 DEF cfgVars, IInv, AckIsHeld
  <2>6. AwaitsPeer' /\ MemoryAgrees' /\ CopyIsLatest' /\ KeptIsSafe'
    BY <2>1, <2>3 DEF cfgVars, IInv, AwaitsPeer, MemoryAgrees, CopyIsLatest, KeptIsSafe
  <2>7. QED
    BY <2>4, <2>5, <2>6 DEF IInv
<1>3. QED
  BY <1>1, <1>2 DEF Handle

\* The network, the peers' clocks, operators and restarts: what a peer had of the
\* request it has, or is remembered to have had.
LEMMA PeersKeep ==
    ASSUME IInv, UNCHANGED nodeVars, net' \subseteq net,
           live' \subseteq Peers, copies' \subseteq Peers, pending' \subseteq Peers,
           decided' \subseteq Peers, forgotten' \subseteq Peers,
           pending \cup decided \cup forgotten \subseteq pending' \cup decided' \cup forgotten'
    PROVE  IInv'
<1>1. TypeOK'
  BY DEF nodeVars, cfgVars, lanVars, IInv, TypeOK
<1>2. AwaitsPeer' /\ MemoryAgrees' /\ CopyIsLatest' /\ KeptIsSafe'
  BY DEF nodeVars, cfgVars, IInv, AwaitsPeer, MemoryAgrees, CopyIsLatest, KeptIsSafe
<1>3. AckIsHeld'
  BY DEF nodeVars, cfgVars, IInv, AckIsHeld
<1>4. QED
  BY <1>1, <1>2, <1>3 DEF IInv

LEMMA PeerStepKeeps ==
    ASSUME IInv, NEW p \in Peers, FetchGet(p) \/ FetchStore(p) \/ Expire(p) \/ Decide(p) \/ PeerRestart(p)
    PROVE  IInv'
  BY PeersKeep DEF FetchGet, FetchStore, Expire, Decide, PeerRestart, IInv, TypeOK

LEMMA LoseKeeps ==
    ASSUME IInv, NEW m \in Messages, Lose(m)
    PROVE  IInv'
<1>1. m[2] \in Peers
  BY DEF Messages
<1>2. pending \subseteq pending' /\ pending' \subseteq Peers
  BY <1>1 DEF Lose, IInv, TypeOK
<1>3. QED
  BY <1>2, PeersKeep DEF Lose, IInv, TypeOK

\* The other writer of node.json.
LEMMA ApproveKeeps ==
    ASSUME IInv, (\E p \in Peers : ApproveConfig(p)) \/ ApproveOpen \/ ApproveWrite
    PROVE  IInv'
<1>t. /\ nodes \in Seq(Peers) /\ Len(nodes) \in Nat /\ disk \in FileType
      /\ approve \in [at : {"idle", "saving", "opened"}, n : 0..Len(nodes), acked : BOOLEAN]
  BY DEF IInv, TypeOK, FileType
<1>1. ASSUME NEW p \in Peers, ApproveConfig(p) PROVE IInv'
  <2>1. nodes' \in Seq(Peers) /\ Len(nodes') = Len(nodes) + 1
    BY <1>1, <1>t DEF ApproveConfig
  <2>2. /\ approve' = [at |-> "saving", n |-> Len(nodes'), acked |-> approved]
        /\ beat.st # "saving" /\ proc # "down" /\ disk' = disk /\ approved' = approved
        /\ kept' = kept /\ beat' = beat /\ proc' = proc /\ approved \in BOOLEAN
    BY <1>1 DEF ApproveConfig, IInv, TypeOK
  <2>3. disk \in FileType'
    BY <1>t, <2>1 DEF FileType
  <2>4. approve' \in [at : {"idle", "saving", "opened"}, n : 0..Len(nodes'), acked : BOOLEAN]
    BY <1>t, <2>1, <2>2
  <2>5. TypeOK'
    BY <1>1, <2>1, <2>3, <2>4 DEF ApproveConfig, lanVars, peerVars, FileType, IInv, TypeOK
  <2>6. AwaitsPeer' /\ MemoryAgrees'
    BY <2>2 DEF IInv, AwaitsPeer, MemoryAgrees
  <2>7. CopyIsLatest'
    BY <2>2 DEF CopyIsLatest
  <2>8. KeptIsSafe'
    <3>1. approve.at # "opened"
      BY <1>1 DEF ApproveConfig
    <3>2. kept => approved /\ disk.form = "json" /\ disk.acked
      BY <2>2, <3>1 DEF IInv, KeptIsSafe
    <3>3. QED
      BY <2>2, <3>2 DEF KeptIsSafe
  <2>9. AckIsHeld'
    BY <1>1, <2>2 DEF ApproveConfig, peerVars, IInv, AckIsHeld
  <2>10. QED
    BY <2>5, <2>6, <2>7, <2>8, <2>9 DEF IInv
<1>2. CASE ApproveOpen
  <2>1. /\ approve.at = "saving" /\ UNCHANGED <<proc, beat, nodes, approved, kept>>
        /\ \/ disk' = Truncated /\ approve' = [approve EXCEPT !.at = "opened"]
           \/ disk' = disk /\ approve' = NoApproval
    BY <1>2 DEF ApproveOpen
  <2>2. /\ disk' \in FileType'
        /\ approve' \in [at : {"idle", "saving", "opened"}, n : 0..Len(nodes'), acked : BOOLEAN]
    <3>1. Truncated \in FileType
      BY <1>t DEF FileType, Truncated
    <3>2. NoApproval \in [at : {"idle", "saving", "opened"}, n : 0..Len(nodes), acked : BOOLEAN]
      BY <1>t DEF NoApproval
    <3>3. [approve EXCEPT !.at = "opened"]
              \in [at : {"idle", "saving", "opened"}, n : 0..Len(nodes), acked : BOOLEAN]
      BY <1>t
    <3>4. FileType' = FileType /\ nodes' = nodes
      BY <2>1 DEF FileType
    <3>5. QED
      BY <1>t, <2>1, <3>1, <3>2, <3>3, <3>4
  <2>3. TypeOK'
    BY <1>2, <2>2 DEF ApproveOpen, lanVars, peerVars, FileType, IInv, TypeOK
  <2>4. MemoryAgrees' /\ AwaitsPeer'
    BY <2>1 DEF IInv, MemoryAgrees, AwaitsPeer
  <2>5. CopyIsLatest'
    BY <1>t, <2>1 DEF IInv, CopyIsLatest, Truncated, NoApproval
  <2>6. KeptIsSafe'
    BY <1>t, <2>1 DEF IInv, KeptIsSafe, NoApproval
  <2>7. AckIsHeld'
    BY <1>t, <1>2, <2>1 DEF ApproveOpen, peerVars, IInv, AckIsHeld, Truncated, NoApproval
  <2>8. QED
    BY <2>3, <2>4, <2>5, <2>6, <2>7 DEF IInv
<1>3. CASE ApproveWrite
  <2>1. /\ approve.at = "opened" /\ UNCHANGED <<proc, beat, nodes, approved>>
        /\ approve' = NoApproval /\ kept' = approve.acked
        /\ disk' = Over(approve.n, approve.acked)
    BY <1>3 DEF ApproveWrite
  <2>2. /\ disk' \in FileType'
        /\ disk'.acked => disk.acked \/ approve.acked
        /\ approve.acked => disk'.form = "json" /\ disk'.acked
    <3>1. approve.acked => disk.n <= approve.n
      BY <1>t, <2>1 DEF IInv, CopyIsLatest
    <3>2. CASE disk.n <= approve.n /\ (disk.acked => approve.acked)
      BY <1>t, <2>1, <3>2 DEF Over, Text, FileType
    <3>3. CASE ~(disk.n <= approve.n /\ (disk.acked => approve.acked))
      BY <1>t, <2>1, <3>1, <3>3 DEF Over, FileType
    <3>4. QED
      BY <3>2, <3>3
  <2>3. approve' \in [at : {"idle", "saving", "opened"}, n : 0..Len(nodes'), acked : BOOLEAN]
    BY <1>t, <2>1 DEF NoApproval
  <2>4. TypeOK'
    BY <1>t, <1>3, <2>1, <2>2, <2>3 DEF ApproveWrite, lanVars, peerVars, FileType, IInv, TypeOK
  <2>5. MemoryAgrees' /\ AwaitsPeer' /\ CopyIsLatest'
    BY <2>1 DEF IInv, MemoryAgrees, AwaitsPeer, CopyIsLatest, NoApproval
  <2>6. KeptIsSafe'
    BY <2>1, <2>2 DEF IInv, CopyIsLatest, KeptIsSafe, NoApproval
  <2>7. AckIsHeld'
    BY <1>3, <2>1, <2>2 DEF ApproveWrite, peerVars, IInv, AckIsHeld, NoApproval
  <2>8. QED
    BY <2>4, <2>5, <2>6, <2>7 DEF IInv
<1>4. QED
  BY <1>1, <1>2, <1>3

\* Discovery, moves and enrollment leave config and loop alone.
LEMMA SurroundingsKeep ==
    ASSUME IInv, UNCHANGED <<beat, cfgVars, peerVars>>,
           proc' = proc \/ (proc # "down" /\ proc' = "leaving"),
           enrolled' \in BOOLEAN, lan' \subseteq Peers, near' \subseteq lan', shadowed' \subseteq Peers,
           farewell' \subseteq Targets, net' \subseteq Messages
    PROVE  IInv'
<1> USE DEF cfgVars, peerVars
<1>1. TypeOK'
  BY DEF IInv, TypeOK
<1>2. AwaitsPeer' /\ MemoryAgrees' /\ CopyIsLatest' /\ KeptIsSafe'
  BY DEF IInv, AwaitsPeer, MemoryAgrees, CopyIsLatest, KeptIsSafe
<1>3. AckIsHeld'
  BY DEF IInv, AckIsHeld
<1>4. QED
  BY <1>1, <1>2, <1>3 DEF IInv

LEMMA OutsideKeeps ==
    ASSUME IInv,
           \/ \E p \in Peers : Discover(p) \/ LeaveLan(p) \/ Shadow(p)
           \/ \E t \in Targets : Farewell(t)
           \/ EnrollNode \/ Signal
    PROVE  IInv'
<1>t. /\ nodes \in Seq(Peers) /\ lan \subseteq Peers /\ near \subseteq lan /\ shadowed \subseteq Peers
      /\ farewell \subseteq Targets /\ net \subseteq Messages /\ enrolled \in BOOLEAN
  BY DEF IInv, TypeOK
<1>1. ASSUME NEW p \in Peers, Discover(p) \/ LeaveLan(p) \/ Shadow(p) PROVE IInv'
  BY <1>1, <1>t, SurroundingsKeep DEF Discover, LeaveLan, Shadow
<1>2. ASSUME NEW t \in Targets, Farewell(t) PROVE IInv'
  <2>1. net' \subseteq Messages
    BY <1>2, PostToType DEF Farewell, IInv
  <2>2. QED
    BY <1>2, <1>t, <2>1, SurroundingsKeep DEF Farewell, lanVars
<1>3. CASE EnrollNode
  BY <1>3, <1>t, SurroundingsKeep DEF EnrollNode, lanVars
<1>4. CASE Signal
  <2>1. Configured \subseteq Peers
    BY <1>t DEF Configured, Range
  <2>2. {Target(p) : p \in lan \cup Configured} \subseteq Targets
    BY <1>t, <2>1, TargetType
  <2>3. QED
    BY <1>4, <1>t, <2>2, SurroundingsKeep DEF Signal, lanVars
<1>5. QED
  BY <1>1, <1>2, <1>3, <1>4

\* A stop clears the memory; a start reads what is on disk.
LEMMA ProcessKeeps ==
    ASSUME IInv, Stop \/ Boot
    PROVE  IInv'
<1>t. nodes \in Seq(Peers) /\ Len(nodes) \in Nat /\ disk \in FileType
  BY DEF IInv, TypeOK, FileType
<1>1. CASE Stop
  <2>1. /\ beat' \in BeatType /\ beat'.st = "off" /\ approve' = NoApproval /\ approved' = FALSE
        /\ kept' = (kept /\ approve.at # "opened") /\ UNCHANGED <<nodes, disk>> /\ proc' = "down"
    BY <1>1, IdleType DEF Stop, BeatState
  <2>2. TypeOK'
    <3>1. kept' \in BOOLEAN
      BY <2>1
    <3>2. approve' \in [at : {"idle", "saving", "opened"}, n : 0..Len(nodes'), acked : BOOLEAN]
      BY <1>t, <2>1 DEF NoApproval
    <3>3. QED
      BY <1>1, <1>t, <2>1, <3>1, <3>2 DEF Stop, peerVars, BeatType, FileType, IInv, TypeOK
  <2>3. AwaitsPeer' /\ MemoryAgrees' /\ CopyIsLatest'
    BY <2>1 DEF AwaitsPeer, MemoryAgrees, CopyIsLatest, NoApproval
  <2>4. KeptIsSafe'
    BY <2>1 DEF IInv, KeptIsSafe, NoApproval
  <2>5. AckIsHeld'
    BY <1>1, <2>1 DEF Stop, peerVars, IInv, AckIsHeld, NoApproval
  <2>6. QED
    BY <2>2, <2>3, <2>4, <2>5 DEF IInv
<1>2. CASE Boot
  <2>1. /\ beat' \in BeatType /\ beat'.st \in {"asleep", "off"} /\ proc' = "up" /\ proc = "down"
        /\ approved' = disk'.acked /\ UNCHANGED <<approve, kept, enrolled, lanVars, farewell, net, peerVars>>
    BY <1>2, LoopType DEF Boot
  <2>2. \/ disk.form = "json" /\ nodes' = SubSeq(nodes, 1, disk.n) /\ disk' = disk
        \/ disk.form # "json" /\ nodes' = <<>> /\ disk' = Text(0, FALSE)
    BY <1>2 DEF Boot, LoadFile
  <2>3. nodes' \in Seq(Peers) /\ disk' \in FileType'
    <3>1. CASE disk.form = "json" /\ nodes' = SubSeq(nodes, 1, disk.n) /\ disk' = disk
      <4>1. disk.n \in 0..Len(nodes)
        BY <1>t DEF FileType
      <4>2. SubSeq(nodes, 1, disk.n) \in Seq(Peers) /\ Len(SubSeq(nodes, 1, disk.n)) = disk.n
        BY <1>t, <4>1
      <4>3. QED
        BY <1>t, <3>1, <4>1, <4>2 DEF FileType
    <3>2. CASE disk.form # "json" /\ nodes' = <<>> /\ disk' = Text(0, FALSE)
      BY <3>2 DEF Text, FileType
    <3>3. QED
      BY <2>2, <3>1, <3>2
  <2>4. approve.at = "idle" /\ approve.n = 0 /\ ~approve.acked
    BY <2>1 DEF IInv, MemoryAgrees, CopyIsLatest
  <2>5. TypeOK'
    <3>1. Len(nodes') \in Nat
      BY <2>3
    <3>2. approve' \in [at : {"idle", "saving", "opened"}, n : 0..Len(nodes'), acked : BOOLEAN]
      BY <2>1, <2>4, <3>1 DEF IInv, TypeOK
    <3>3. approved' \in BOOLEAN
      BY <2>1, <2>3 DEF FileType
    <3>4. QED
      BY <2>1, <2>3, <3>2, <3>3 DEF peerVars, lanVars, FileType, BeatType, IInv, TypeOK
  <2>6. AwaitsPeer'
    BY <2>1 DEF AwaitsPeer
  <2>7. MemoryAgrees' /\ CopyIsLatest'
    BY <2>1, <2>4 DEF MemoryAgrees, CopyIsLatest
  <2>8. KeptIsSafe'
    <3>1. kept => disk.form = "json" /\ disk.acked
      BY <2>4 DEF IInv, KeptIsSafe
    <3>2. kept => disk'.form = "json" /\ disk'.acked
      BY <2>2, <3>1
    <3>3. QED
      BY <2>1, <2>4, <3>2 DEF KeptIsSafe
  <2>9. AckIsHeld'
    <3>1. disk'.acked => disk.acked
      BY <2>2 DEF Text
    <3>2. QED
      BY <2>1, <2>4, <3>1 DEF peerVars, IInv, AckIsHeld
  <2>10. QED
    BY <2>5, <2>6, <2>7, <2>8, <2>9 DEF IInv
<1>3. QED
  BY <1>1, <1>2

LEMMA StepIInv == IInv /\ [Next]_vars => IInv'
<1> SUFFICES ASSUME IInv, [Next]_vars PROVE IInv'
  OBVIOUS
<1>1. CASE Heartbeat
  BY <1>1, HeartbeatKeeps
<1>2. CASE (\E p \in Peers : ApproveConfig(p)) \/ ApproveOpen \/ ApproveWrite
  BY <1>2, ApproveKeeps
<1>3. CASE \/ \E p \in Peers : Discover(p) \/ LeaveLan(p) \/ Shadow(p)
           \/ \E t \in Targets : Farewell(t)
           \/ EnrollNode \/ Signal
  BY <1>3, OutsideKeeps
<1>4. CASE Stop \/ Boot
  BY <1>4, ProcessKeeps
<1>5. ASSUME NEW p \in Peers,
             Handle(p) \/ FetchGet(p) \/ FetchStore(p) \/ Expire(p) \/ Decide(p) \/ PeerRestart(p)
      PROVE  IInv'
  BY <1>5, HandleKeeps, PeerStepKeeps
<1>6. ASSUME NEW m \in Messages, Lose(m) PROVE IInv'
  BY <1>6, LoseKeeps
<1>7. CASE UNCHANGED vars
  <2>1. UNCHANGED <<nodeVars, net, live, copies, pending, decided, forgotten>>
    BY <1>7 DEF vars, peerVars
  <2>2. QED
    BY <2>1, PeersKeep DEF IInv, TypeOK
<1>8. QED
  BY <1>1, <1>2, <1>3, <1>4, <1>5, <1>6, <1>7 DEF Next

LEMMA HandshakeInvariant == Spec => []IInv
  BY InitIInv, StepIInv, PTL DEF Spec

\* The node, the network and the peers keep their types.
THEOREM HandshakeTypeCorrect == Spec => []TypeOK
<1>1. IInv => TypeOK
  BY DEF IInv
<1>2. QED
  BY <1>1, HandshakeInvariant, PTL

\* Whatever is lost, refused, late or saved last, and wherever the node dies, it takes
\* its request for delivered only if a peer has had it.
THEOREM HandshakeAckIsHeld == Spec => []AckIsHeld
<1>1. IInv => AckIsHeld
  BY DEF IInv
<1>2. QED
  BY <1>1, HandshakeInvariant, PTL

\* A node that knows of an acknowledgement, or has it saved, takes only steps that
\* post no request.
LEMMA AckedNeverAsks ==
    ASSUME IInv, [Next]_vars, approved \/ kept
    PROVE  \A p \in Peers : <<"request", p>> \in net' => <<"request", p>> \in net
<1>1. beat.st # "asking"
  BY DEF IInv, MemoryAgrees, KeptIsSafe
<1>2. CASE Heartbeat
  <2>1. ASSUME NEW t \in Targets, BeatPost(t)
        PROVE  net' \subseteq net \cup {<<"register", t[2]>>}
    BY <2>1, PostToType DEF BeatPost, IInv
  <2>2. QED
    BY <1>1, <1>2, <2>1 DEF Heartbeat, BeatStart, BeatCheck, BeatAsk, BeatTimeout, BeatGiveUp,
                            BeatMark, BeatSave
<1>3. ASSUME NEW t \in Targets, Farewell(t)
      PROVE  net' \subseteq net \cup {<<"deregister", t[2]>>}
  BY <1>3, PostToType DEF Farewell, IInv
<1>4. ASSUME NEW q \in Peers,
             \/ Handle(q) \/ FetchGet(q) \/ FetchStore(q) \/ Expire(q) \/ Decide(q) \/ PeerRestart(q)
             \/ ApproveConfig(q) \/ Discover(q) \/ LeaveLan(q) \/ Shadow(q)
      PROVE  net' \subseteq net
  BY <1>4 DEF Handle, HandleRegister, HandleDeregister, HandleRequest, RefuseRequest, Handled,
              FetchGet, FetchStore, Expire, Decide, PeerRestart, ApproveConfig, Discover, LeaveLan, Shadow
<1>5. CASE ApproveOpen \/ ApproveWrite \/ EnrollNode \/ Signal \/ Stop \/ Boot \/ UNCHANGED vars
  BY <1>5 DEF ApproveOpen, ApproveWrite, EnrollNode, Signal, Stop, Boot, vars
<1>6. ASSUME NEW m \in Messages, Lose(m) PROVE net' \subseteq net
  BY <1>6 DEF Lose
<1>7. QED
  BY <1>2, <1>3, <1>4, <1>5, <1>6 DEF Next

\* Once a peer has acknowledged its request the node posts none in the same run, nor
\* in a later one unless a save that overlapped, or that a crash cut short, has taken
\* the acknowledgement from the file.
THEOREM HandshakeStopsRetry == Spec => StopsRetry
<1>1. IInv /\ [Next]_vars =>
          [approved \/ kept => \A p \in Peers : <<"request", p>> \in net' => <<"request", p>> \in net]_vars
  BY AckedNeverAsks
<1>2. QED
  BY <1>1, HandshakeInvariant, PTL DEF Spec, StopsRetry

=============================================================================
