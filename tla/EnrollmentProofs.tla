-------------------------- MODULE EnrollmentProofs --------------------------
(***************************************************************************)
(* What holds of enrollment for any number of tokens, nodes and commands:  *)
(* a node keeps a whole identity, and a token serves once, if requests are *)
(* served one at a time and the daemon does not die.                       *)
(***************************************************************************)
EXTENDS Enrollment, FiniteSetTheorems, TLAPS

HandlerType == [st : HandlerState, att : Attempts \cup {None}, map : SUBSET Tokens]

ClientType == [st : ClientState, node : Nodes \cup {None}, token : Tokens \cup {None}]

\* What the locals of the handlers and of the commands refer to exists.
Linked ==
    /\ \A a \in Attempts : client[a].st # "unused" => client[a].node \in Nodes /\ client[a].token \in Tokens
    /\ \A h \in Handlers : handler[h].st # "idle" =>
           handler[h].att \in Attempts /\ client[handler[h].att].st # "unused"
    /\ \A a \in pending : client[a].st # "unused"
    /\ \A a \in certs : client[a].st # "unused"

TInv == TypeOK /\ Linked

\* One handler moves, for the attempt it serves or back to idle.
LEMMA HandlerMoves ==
    ASSUME TInv, NEW h \in Handlers, NEW r \in HandlerType,
           handler' = [handler EXCEPT ![h] = r],
           r.st = "idle" \/ (r.att = handler[h].att /\ handler[h].st # "idle"),
           used' \in [parses : BOOLEAN, ids : SUBSET Tokens],
           UNCHANGED <<issued, expired, pending, certs, boots, client, files>>
    PROVE  TInv'
<1>1. TypeOK'
  BY DEF TInv, TypeOK, HandlerType
<1>2. Linked'
  BY DEF TInv, TypeOK, Linked, HandlerType
<1>3. QED
  BY <1>1, <1>2 DEF TInv

LEMMA InitTInv == Init => TInv
  BY EnrollmentAssumption
     DEF Init, TInv, TypeOK, Linked, IdleHandler, UnusedClient, Unenrolled, Content, HandlerState, ClientState

\* One handler answers, and is idle again.
LEMMA HandlerEnds ==
    ASSUME TInv, NEW h \in Handlers, handler[h].st # "idle",
           NEW st \in {"failed", "answered"}, Answer(handler[h].att, st),
           handler' = [handler EXCEPT ![h] = IdleHandler],
           certs' = certs \/ certs' = certs \cup {handler[h].att},
           UNCHANGED <<pending, issued, expired, used, boots, files>>
    PROVE  TInv'
<1>1. handler[h].att \in Attempts /\ client[handler[h].att].st # "unused"
  BY DEF TInv, Linked
<1>2. /\ client' \in [Attempts -> ClientType]
      /\ \A a \in Attempts :
             /\ client'[a].node = client[a].node /\ client'[a].token = client[a].token
             /\ client'[a].st = "unused" <=> client[a].st = "unused"
  BY <1>1 DEF TInv, TypeOK, Answer, ClientType, ClientState
<1>3. handler' \in [Handlers -> HandlerType]
  BY DEF TInv, TypeOK, IdleHandler, HandlerType, HandlerState
<1>4. TypeOK'
  BY <1>1, <1>2, <1>3 DEF TInv, TypeOK, ClientType, HandlerType
<1>5. Linked'
  BY <1>1, <1>2 DEF TInv, TypeOK, Linked, IdleHandler
<1>6. QED
  BY <1>4, <1>5 DEF TInv

\* A step of one handler that leaves the commands alone.
LEMMA HandlerTInv ==
    ASSUME TInv, NEW h \in Handlers, Enroll(h)
    PROVE  TInv'
<1> USE DEF HandlerState, clientVars, Serve
<1>1. ASSUME NEW a \in Attempts, EnrollVerify(h, a) PROVE TInv'
  BY <1>1 DEF EnrollVerify, TInv, TypeOK, Linked
<1>2. ASSUME NEW a \in Attempts, EnrollRefuse(h, a) PROVE TInv'
  BY <1>2 DEF EnrollRefuse, Answer, TInv, TypeOK, Linked, ClientState
<1>3. CASE BurnLoad(h)
  <2> DEFINE r == [st |-> "loaded", att |-> handler[h].att,
                    map |-> UsedTokens \cup {client[handler[h].att].token}]
  <2>1. client[handler[h].att].token \in Tokens /\ UsedTokens \subseteq Tokens
    BY <1>3 DEF BurnLoad, UsedTokens, TInv, TypeOK, Linked
  <2>2. r \in HandlerType
    BY <2>1 DEF HandlerType, TInv, TypeOK
  <2>3. QED
    BY <1>3, <2>2, HandlerMoves DEF BurnLoad, TInv, TypeOK
<1>4. CASE BurnFail(h)
  BY <1>4, HandlerEnds DEF BurnFail
<1>5. CASE BurnOpen(h)
  <2> DEFINE r == [st |-> "opened", att |-> handler[h].att, map |-> handler[h].map]
  <2>1. r \in HandlerType
    BY DEF HandlerType, TInv, TypeOK
  <2>2. QED
    BY <1>5, <2>1, HandlerMoves DEF BurnOpen, TInv, TypeOK
<1>6. CASE BurnWrite(h)
  <2> DEFINE r == [st |-> "burned", att |-> handler[h].att, map |-> handler[h].map]
  <2>1. r \in HandlerType
    BY DEF HandlerType, TInv, TypeOK
  <2>2. used' \in [parses : BOOLEAN, ids : SUBSET Tokens]
    BY <1>6 DEF BurnWrite, TInv, TypeOK
  <2>3. QED
    BY <1>6, <2>1, <2>2, HandlerMoves DEF BurnWrite
<1>7. CASE EnrollSign(h)
  BY <1>7, HandlerEnds DEF EnrollSign
<1>8. CASE EnrollSignFail(h)
  BY <1>8, HandlerEnds DEF EnrollSignFail
<1>9. QED
  BY <1>1, <1>2, <1>3, <1>4, <1>5, <1>6, <1>7, <1>8 DEF Enroll, Burn

\* A file of a node is stored by the command that works there.
LEMMA FilesStored ==
    ASSUME TInv, NEW n \in Nodes, NEW c \in Content,
           \/ files' = [files EXCEPT ![n].crt = c]
           \/ files' = [files EXCEPT ![n].key = c]
           \/ files' = [files EXCEPT ![n].pub = c]
    PROVE  files' \in [Nodes -> [crt : Content, key : Content, pub : Content]]
<1> DEFINE F == [crt : Content, key : Content, pub : Content]
<1>1. files \in [Nodes -> F] /\ files[n] \in F
  BY DEF TInv, TypeOK
<1>2. /\ [files[n] EXCEPT !.crt = c] \in F
      /\ [files[n] EXCEPT !.key = c] \in F
      /\ [files[n] EXCEPT !.pub = c] \in F
  BY <1>1
<1>3. \E f \in F : files' = [files EXCEPT ![n] = f]
  BY <1>2
<1>4. QED
  BY <1>1, <1>3

LEMMA CommandMoves ==
    ASSUME TInv, NEW a \in Attempts, NEW st \in ClientState,
           client[a].st # "unused",
           client' = [client EXCEPT ![a].st = st], st # "unused",
           files' \in [Nodes -> [crt : Content, key : Content, pub : Content]],
           UNCHANGED serverVars
    PROVE  TInv'
BY DEF TInv, TypeOK, Linked, serverVars

LEMMA CommandTInv ==
    ASSUME TInv, NEW a \in Attempts, ComputeNodeEnroll(a)
    PROVE  TInv'
<1> DEFINE n == client[a].node
<1> USE DEF ClientState, Content
<1>1. ASSUME NEW m \in Nodes, NEW t \in issued, EnrollPost(a, m, t) PROVE TInv'
  BY <1>1 DEF EnrollPost, TInv, TypeOK, Linked
<1>2. CASE EnrollTimeout(a)
  BY <1>2, CommandMoves DEF EnrollTimeout, TInv, TypeOK
<1>3. CASE SaveCert(a)
  <2>1. n \in Nodes /\ client[a].st # "unused"
    BY <1>3 DEF SaveCert, TInv, Linked
  <2>2. files' \in [Nodes -> [crt : Content, key : Content, pub : Content]]
    BY <1>3, <2>1, FilesStored DEF SaveCert
  <2>3. QED
    BY <1>3, <2>1, <2>2, CommandMoves DEF SaveCert
<1>4. CASE SaveKey(a)
  <2>1. n \in Nodes /\ client[a].st # "unused"
    BY <1>4 DEF SaveKey, TInv, Linked
  <2>2. files' \in [Nodes -> [crt : Content, key : Content, pub : Content]]
    BY <1>4, <2>1, FilesStored DEF SaveKey
  <2>3. QED
    BY <1>4, <2>1, <2>2, CommandMoves DEF SaveKey
<1>5. CASE SavePub(a)
  <2>1. n \in Nodes /\ client[a].st # "unused"
    BY <1>5 DEF SavePub, TInv, Linked
  <2>2. files' \in [Nodes -> [crt : Content, key : Content, pub : Content]]
    BY <1>5, <2>1, FilesStored DEF SavePub
  <2>3. QED
    BY <1>5, <2>1, <2>2, CommandMoves DEF SavePub
<1>6. CASE EnrollKilled(a)
  <2>1. n \in Nodes /\ client[a].st # "unused"
    BY <1>6 DEF EnrollKilled, Working, TInv, Linked
  <2>2. files' \in [Nodes -> [crt : Content, key : Content, pub : Content]]
    <3>1. CASE UNCHANGED files
      BY <3>1 DEF TInv, TypeOK
    <3>2. CASE ~ UNCHANGED files
      BY <1>6, <2>1, <3>2, FilesStored DEF EnrollKilled
    <3>3. QED
      BY <3>1, <3>2
  <2>3. QED
    BY <1>6, <2>1, <2>2, CommandMoves DEF EnrollKilled
<1>7. QED
  BY <1>1, <1>2, <1>3, <1>4, <1>5, <1>6 DEF ComputeNodeEnroll

LEMMA RestartTInv == TInv /\ Restart => TInv'
<1> SUFFICES ASSUME TInv, Restart PROVE TInv'
  OBVIOUS
<1>1. /\ handler' = [h \in Handlers |-> IdleHandler] /\ pending' = {}
      /\ UNCHANGED <<issued, expired, used, certs, files>>
  BY DEF Restart
<1>2. boots' \in [n : 0..MaxRestarts, cut : SUBSET Attempts]
  <2>1. \A h \in Handlers : handler[h].st = "opened" => handler[h].att \in Attempts
    BY DEF TInv, Linked
  <2>2. boots.n + 1 \in 0..MaxRestarts
    BY EnrollmentAssumption DEF Restart, TInv, TypeOK
  <2>3. boots.cut \cup {handler[h].att : h \in {g \in Handlers : handler[g].st = "opened"}}
           \in SUBSET Attempts
    BY <2>1 DEF TInv, TypeOK
  <2>4. QED
    BY <2>2, <2>3 DEF Restart
<1>3. /\ client' \in [Attempts -> ClientType]
      /\ \A a \in Attempts :
             /\ client'[a].node = client[a].node /\ client'[a].token = client[a].token
             /\ client'[a].st = "unused" <=> client[a].st = "unused"
  <2>1. /\ client' = [a \in Attempts |->
                       IF client[a].st = "posted" THEN [client[a] EXCEPT !.st = "failed"]
                                                  ELSE client[a]]
        /\ client \in [Attempts -> ClientType]
    BY DEF Restart, TInv, TypeOK, ClientType
  <2>2. \A c \in ClientType :
           LET d == [c EXCEPT !.st = "failed"]
           IN d \in ClientType /\ d.node = c.node /\ d.token = c.token /\ d.st = "failed"
    BY DEF ClientType, ClientState
  <2>3. \A a \in Attempts :
           /\ client[a] \in ClientType /\ client'[a] \in ClientType
           /\ client'[a].node = client[a].node /\ client'[a].token = client[a].token
           /\ client'[a].st = "unused" <=> client[a].st = "unused"
    BY <2>1, <2>2
  <2>4. QED
    BY <2>1, <2>3
<1>4. TypeOK'
  BY <1>1, <1>2, <1>3 DEF TInv, TypeOK, ClientType, IdleHandler, HandlerState
<1>5. Linked'
  BY <1>1, <1>3 DEF TInv, TypeOK, Linked, IdleHandler
<1>6. QED
  BY <1>4, <1>5 DEF TInv

LEMMA StepTInv == TInv /\ [Next]_vars => TInv'
<1> SUFFICES ASSUME TInv, [Next]_vars PROVE TInv'
  OBVIOUS
<1>1. ASSUME NEW t \in Tokens, GenerateEnrollmentToken(t) \/ Expire(t) PROVE TInv'
  BY <1>1 DEF GenerateEnrollmentToken, Expire, TInv, TypeOK, Linked, clientVars
<1>2. CASE UNCHANGED vars
  BY <1>2 DEF vars, serverVars, clientVars, TInv, TypeOK, Linked
<1>3. QED
  BY <1>1, <1>2, HandlerTInv, CommandTInv, RestartTInv DEF Next

LEMMA TInvariance == Spec => []TInv
  BY InitTInv, StepTInv, PTL DEF Spec

\* The token file, the handlers and the commands keep their types.
THEOREM EnrollmentTypeCorrect == Spec => []TypeOK
<1>1. TInv => TypeOK
  BY DEF TInv
<1>2. QED
  BY <1>1, TInvariance, PTL

-----------------------------------------------------------------------------
(* A node keeps a whole identity *)

\* A command that has an answer has a signed certificate ...
Answered ==
    \A a \in Attempts : client[a].st \in {"answered", "certified", "keyed"} => a \in certs

\* ... it is alone at work on its node ...
OneCommand ==
    \A a, b \in Attempts :
        Working(a) /\ Working(b) /\ client[a].node = client[b].node => a = b

\* ... and what it has saved is there.
Saved ==
    \A a \in Attempts :
        /\ client[a].st \in {"certified", "keyed"} => files[client[a].node].crt = a
        /\ client[a].st = "keyed" => files[client[a].node].key = a

IdInv == Answered /\ OneCommand /\ Saved /\ IdentityWhole

LEMMA InitIdInv == Init => IdInv
  BY DEF Init, IdInv, Answered, OneCommand, Saved, IdentityWhole, UnusedClient, Unenrolled, Working

\* The bootstrap node answers, or a command gives up waiting: no file changes.
LEMMA AnswersIdInv ==
    ASSUME TInv, IdInv, UNCHANGED files, certs \subseteq certs',
           \A b \in Attempts :
               \/ client'[b] = client[b]
               \/ /\ client[b].st = "posted"
                  /\ client'[b].node = client[b].node
                  /\ client'[b].st \in {"failed", "answered"}
                  /\ client'[b].st = "answered" => b \in certs'
    PROVE  IdInv'
<1> USE DEF IdInv
<1>1. Answered'
  BY DEF Answered
<1>2. OneCommand'
  BY DEF OneCommand, Working
<1>3. Saved'
  BY DEF Saved
<1>4. IdentityWhole'
  <2> SUFFICES ASSUME NEW n \in Nodes
               PROVE  \/ \E a \in Attempts :
                             /\ client'[a].node = n
                             /\ client'[a].st \in {"certified", "keyed", "killed"}
                             /\ files'[n].crt \in {a, Torn}
                      \/ /\ files'[n].crt = files'[n].key /\ files'[n].crt = files'[n].pub
                         /\ files'[n].crt \in certs' \cup {None}
    BY DEF IdentityWhole
  <2>1. CASE \E a \in Attempts :
                /\ client[a].node = n
                /\ client[a].st \in {"certified", "keyed", "killed"}
                /\ files[n].crt \in {a, Torn}
    BY <2>1
  <2>2. QED
    BY <2>1 DEF IdentityWhole
<1>5. QED
  BY <1>1, <1>2, <1>3, <1>4

\* A command at work on node n goes on, or dies there.
LEMMA CommandIdInv ==
    ASSUME TInv, IdInv, NEW a \in Attempts, NEW n \in Nodes, NEW st \in ClientState,
           n = client[a].node, Working(a), client[a].st # "posted",
           client' = [client EXCEPT ![a].st = st],
           \A m \in Nodes \ {n} : files'[m] = files[m],
           certs' = certs,
           st \in {"certified", "keyed"} => files'[n].crt = a,
           st = "keyed" => files'[n].key = a,
           \/ st \in {"certified", "keyed", "killed"} /\ files'[n].crt \in {a, Torn}
           \/ st = "killed" /\ client[a].st = "answered" /\ UNCHANGED files
           \/ st = "done" /\ files'[n] = [crt |-> a, key |-> a, pub |-> a]
    PROVE  IdInv'
<1> USE DEF IdInv
<1>0. /\ client'[a].st = st /\ client'[a].node = n
      /\ \A b \in Attempts \ {a} : client'[b] = client[b]
      /\ a \in certs
  BY DEF TInv, TypeOK, Answered, Working
<1>1. Answered'
  BY <1>0 DEF Answered, ClientState
<1>2. OneCommand'
  BY <1>0 DEF OneCommand, Working
<1>3. Saved'
  <2> SUFFICES ASSUME NEW b \in Attempts, b # a, client[b].st \in {"certified", "keyed"}
               PROVE  client[b].node \in Nodes \ {n}
    BY <1>0 DEF Saved
  <2>1. client[b].node # n
    BY DEF OneCommand, Working
  <2>2. QED
    BY <2>1 DEF TInv, Linked
<1>4. IdentityWhole'
  <2> SUFFICES ASSUME NEW m \in Nodes
               PROVE  \/ \E b \in Attempts :
                             /\ client'[b].node = m
                             /\ client'[b].st \in {"certified", "keyed", "killed"}
                             /\ files'[m].crt \in {b, Torn}
                      \/ /\ files'[m].crt = files'[m].key /\ files'[m].crt = files'[m].pub
                         /\ files'[m].crt \in certs' \cup {None}
    BY DEF IdentityWhole
  <2>1. CASE m # n \/ (st = "killed" /\ client[a].st = "answered" /\ UNCHANGED files)
    <3>1. files'[m] = files[m]
      BY <2>1
    <3>2. CASE \E b \in Attempts :
                /\ client[b].node = m
                /\ client[b].st \in {"certified", "keyed", "killed"}
                /\ files[m].crt \in {b, Torn}
      BY <1>0, <2>1, <3>1, <3>2
    <3>3. QED
      BY <3>1, <3>2 DEF IdentityWhole
  <2>2. CASE m = n /\ st \in {"certified", "keyed", "killed"} /\ files'[n].crt \in {a, Torn}
    BY <1>0, <2>2
  <2>3. CASE m = n /\ st = "done" /\ files'[n] = [crt |-> a, key |-> a, pub |-> a]
    BY <1>0, <2>3
  <2>4. QED
    BY <2>1, <2>2, <2>3
<1>5. QED
  BY <1>1, <1>2, <1>3, <1>4

LEMMA HandlerIdInv ==
    ASSUME TInv, IdInv, NEW h \in Handlers, Enroll(h)
    PROVE  IdInv'
<1>1. UNCHANGED files /\ certs \subseteq certs'
  BY DEF Enroll, Burn, EnrollVerify, EnrollRefuse, BurnLoad, BurnFail, BurnOpen, BurnWrite,
         EnrollSign, EnrollSignFail, clientVars
<1>2. CASE UNCHANGED client
  BY <1>1, <1>2, AnswersIdInv
<1>3. ASSUME NEW a \in Attempts, NEW st \in {"failed", "answered"}, Answer(a, st),
             st = "answered" => a \in certs'
      PROVE  IdInv'
  BY <1>1, <1>3, AnswersIdInv DEF Answer, TInv, TypeOK
<1>4. CASE EnrollSign(h)
  <2>1. handler[h].att \in Attempts
    BY <1>4 DEF EnrollSign, TInv, Linked
  <2>2. QED
    BY <1>3, <1>4, <2>1 DEF EnrollSign
<1>5. CASE BurnFail(h)
  <2>1. handler[h].att \in Attempts
    BY <1>5 DEF BurnFail, TInv, Linked
  <2>2. QED
    BY <1>3, <1>5, <2>1 DEF BurnFail
<1>6. ASSUME NEW a \in Attempts, EnrollRefuse(h, a) PROVE IdInv'
  BY <1>3, <1>6 DEF EnrollRefuse
<1>7. CASE EnrollSignFail(h)
  <2>1. handler[h].att \in Attempts
    BY <1>7 DEF EnrollSignFail, TInv, Linked
  <2>2. QED
    BY <1>3, <1>7, <2>1 DEF EnrollSignFail
<1>8. QED
  BY <1>2, <1>4, <1>5, <1>6, <1>7
     DEF Enroll, Burn, EnrollVerify, BurnLoad, BurnOpen, BurnWrite, clientVars

LEMMA CommandStepIdInv ==
    ASSUME TInv, IdInv, NEW a \in Attempts, ComputeNodeEnroll(a)
    PROVE  IdInv'
<1> DEFINE n == client[a].node
<1>1. ASSUME NEW m \in Nodes, NEW t \in issued, EnrollPost(a, m, t) PROVE IdInv'
  <2>1. /\ \A b \in Attempts \ {a} : client'[b] = client[b]
        /\ client'[a].st = "posted" /\ client'[a].node = m
        /\ UNCHANGED <<files, certs>>
    BY <1>1 DEF EnrollPost, TInv, TypeOK
  <2>2. Answered' /\ Saved'
    BY <2>1 DEF IdInv, Answered, Saved
  <2>3. OneCommand'
    BY <1>1, <2>1 DEF EnrollPost, IdInv, OneCommand, Working
  <2>4. IdentityWhole'
    BY <1>1, <2>1 DEF EnrollPost, IdInv, IdentityWhole
  <2>5. QED
    BY <2>2, <2>3, <2>4 DEF IdInv
<1>2. CASE EnrollTimeout(a)
  BY <1>2, AnswersIdInv DEF EnrollTimeout, serverVars, TInv, TypeOK
<1>3. Working(a) => n \in Nodes
  BY DEF Working, TInv, Linked
<1>4. files \in [Nodes -> [crt : Content, key : Content, pub : Content]]
  BY DEF TInv, TypeOK
<1>5. CASE SaveCert(a)
  BY <1>3, <1>4, <1>5, CommandIdInv DEF SaveCert, Working, ClientState, serverVars
<1>6. CASE SaveKey(a)
  <2>1. files[n].crt = a
    BY <1>6 DEF SaveKey, IdInv, Saved
  <2>2. files'[n].crt = a /\ files'[n].key = a
    BY <1>3, <1>4, <1>6, <2>1 DEF SaveKey, Working
  <2>3. QED
    BY <1>3, <1>4, <1>6, <2>2, CommandIdInv DEF SaveKey, Working, ClientState, serverVars
<1>7. CASE SavePub(a)
  <2>1. files[n].crt = a /\ files[n].key = a
    BY <1>7 DEF SavePub, IdInv, Saved
  <2>2. files'[n] = [crt |-> a, key |-> a, pub |-> a]
    <3>1. n \in Nodes /\ files[n] \in [crt : Content, key : Content, pub : Content]
      BY <1>3, <1>4, <1>7 DEF SavePub, Working
    <3>2. files'[n] = [files[n] EXCEPT !.pub = a]
      BY <1>4, <1>7, <3>1 DEF SavePub
    <3>3. QED
      BY <2>1, <3>1, <3>2
  <2>3. \A m \in Nodes \ {n} : files'[m] = files[m]
    BY <1>4, <1>7 DEF SavePub
  <2>4. QED
    BY <1>3, <1>7, <2>2, <2>3, CommandIdInv DEF SavePub, Working, ClientState, serverVars
<1>8. CASE EnrollKilled(a)
  <2>1. /\ n \in Nodes /\ Working(a) /\ client[a].st # "posted"
        /\ client' = [client EXCEPT ![a].st = "killed"]
        /\ certs' = certs
        /\ \A m \in Nodes \ {n} : files'[m] = files[m]
    BY <1>3, <1>4, <1>8 DEF EnrollKilled, serverVars
  <2>2. \/ files'[n].crt \in {a, Torn}
        \/ client[a].st = "answered" /\ UNCHANGED files
    <3>1. client[a].st \in {"certified", "keyed"} => files[n].crt = a
      BY DEF IdInv, Saved
    <3>2. QED
      BY <1>4, <1>8, <2>1, <3>1 DEF EnrollKilled, Working
  <2>3. QED
    BY <2>1, <2>2, CommandIdInv DEF ClientState
<1>9. QED
  BY <1>1, <1>2, <1>5, <1>6, <1>7, <1>8 DEF ComputeNodeEnroll

LEMMA StepIdInv == TInv /\ IdInv /\ [Next]_vars => IdInv'
<1> SUFFICES ASSUME TInv, IdInv, [Next]_vars PROVE IdInv'
  OBVIOUS
<1>1. CASE (\E t \in Tokens : GenerateEnrollmentToken(t) \/ Expire(t)) \/ UNCHANGED vars
  BY <1>1, AnswersIdInv DEF GenerateEnrollmentToken, Expire, vars, serverVars, clientVars
<1>2. CASE Restart
  BY <1>2, AnswersIdInv DEF Restart, TInv, TypeOK
<1>3. QED
  BY <1>1, <1>2, HandlerIdInv, CommandStepIdInv DEF Next

\* For any number of nodes and of commands, killed at any point, a node has the
\* certificate of the keys it has, unless a command saves or has died over them.
THEOREM EnrollmentIdentityWhole == Spec => []IdentityWhole
<1>1. Init => TInv /\ IdInv
  BY InitTInv, InitIdInv
<1>2. TInv /\ IdInv /\ [Next]_vars => (TInv /\ IdInv)'
  BY StepTInv, StepIdInv
<1>3. IdInv => IdentityWhole
  BY DEF IdInv
<1>4. QED
  BY <1>1, <1>2, <1>3, PTL DEF Spec

-----------------------------------------------------------------------------
(* A token serves once, if requests are served one at a time and no burn is cut short *)

Solo == \A g, h \in Handlers : g = h

Busy(h) == handler[h].st # "idle"

TokenOf(h) == client[handler[h].att].token

Spent == {client[a].token : a \in certs}

\* A request is served once ...
ServedOnce ==
    /\ pending \cap certs = {}
    /\ \A h \in Handlers : Busy(h) => handler[h].att \notin certs \cup pending

\* ... the file holds every token spent, except while it is rewritten ...
SpentIsUsed ==
    (\A h \in Handlers : handler[h].st # "opened") => Spent \subseteq UsedTokens

\* ... from a map that holds them, and the token of the request, ...
MapIsWhole ==
    \A h \in Handlers :
        /\ handler[h].st \in {"loaded", "opened"} =>
               Spent \cup {TokenOf(h)} \subseteq handler[h].map
        /\ handler[h].st = "opened" => used = [parses |-> FALSE, ids |-> {}]

\* ... which is not spent, and is burned before the certificate is signed.
BurnsBeforeSigning ==
    \A h \in Handlers :
        /\ Busy(h) => TokenOf(h) \notin Spent
        /\ handler[h].st = "burned" => TokenOf(h) \in UsedTokens

UseInv == ServedOnce /\ SpentIsUsed /\ MapIsWhole /\ BurnsBeforeSigning /\ SingleUse

LEMMA InitUseInv == Init => UseInv
  BY DEF Init, UseInv, ServedOnce, SpentIsUsed, MapIsWhole, BurnsBeforeSigning, SingleUse,
         Busy, Spent, TokenOf, IdleHandler

\* The bootstrap node does nothing about tokens used.
LEMMA OthersUseInv ==
    ASSUME TInv, UseInv, UNCHANGED <<handler, used, certs>>,
           \A a \in Attempts : client[a].st # "unused" => client'[a].token = client[a].token,
           \A a \in pending' \ pending : a \in Attempts /\ client[a].st = "unused"
    PROVE  UseInv'
<1> USE DEF UseInv
<1>1. Spent' = Spent
  BY DEF Spent, TInv, TypeOK, Linked
<1>2. \A h \in Handlers : Busy(h) => TokenOf(h)' = TokenOf(h)
  BY DEF Busy, TokenOf, TInv, Linked
<1>3. ServedOnce'
  BY DEF ServedOnce, Busy, TInv, Linked
<1>4. SpentIsUsed' /\ MapIsWhole' /\ BurnsBeforeSigning'
  BY <1>1, <1>2 DEF SpentIsUsed, MapIsWhole, BurnsBeforeSigning, Busy, UsedTokens
<1>5. SingleUse'
  BY DEF SingleUse, TInv, TypeOK, Linked
<1>6. QED
  BY <1>3, <1>4, <1>5

\* The only goroutine takes a step of the handler of /enroll.
LEMMA HandlerUseInv ==
    ASSUME TInv, UseInv, NEW h \in Handlers, \A g \in Handlers : g = h, Enroll(h)
    PROVE  UseInv'
<1> USE DEF UseInv, Serve
<1>0. \A b \in Attempts : client'[b].token = client[b].token
  BY DEF Enroll, Burn, EnrollVerify, EnrollRefuse, BurnLoad, BurnFail, BurnOpen, BurnWrite,
         EnrollSign, EnrollSignFail, clientVars, Answer, TInv, TypeOK
<1>1. certs \subseteq Attempts /\ (Busy(h) => handler[h].att \in Attempts)
  BY DEF TInv, TypeOK, Linked, Busy
<1>2. ASSUME certs' = certs PROVE Spent' = Spent /\ SingleUse'
  BY <1>0, <1>1, <1>2 DEF Spent, SingleUse
<1>3. ASSUME handler'[h].att = handler[h].att, Busy(h) PROVE TokenOf(h)' = TokenOf(h)
  BY <1>0, <1>1, <1>3 DEF TokenOf
<1>4. ASSUME NEW a \in Attempts, EnrollVerify(h, a) PROVE UseInv'
  <2>1. /\ handler'[h] = [st |-> "verified", att |-> a, map |-> {}]
        /\ certs' = certs /\ UsedTokens' = UsedTokens /\ TokenOf(h)' = client[a].token
    BY <1>0, <1>4 DEF EnrollVerify, UsedTokens, TokenOf, TInv, TypeOK
  <2>2. Spent \subseteq UsedTokens
    BY <1>4 DEF EnrollVerify, SpentIsUsed
  <2>3. ServedOnce'
    BY <1>4, <2>1 DEF EnrollVerify, ServedOnce, Busy
  <2>4. SpentIsUsed' /\ MapIsWhole'
    BY <1>2, <2>1, <2>2 DEF SpentIsUsed, MapIsWhole
  <2>5. BurnsBeforeSigning'
    BY <1>2, <1>4, <2>1, <2>2 DEF EnrollVerify, TokenValid, BurnsBeforeSigning
  <2>6. QED
    BY <1>2, <2>1, <2>3, <2>4, <2>5
<1>5. ASSUME NEW a \in Attempts, EnrollRefuse(h, a) PROVE UseInv'
  BY <1>0, <1>5, OthersUseInv DEF EnrollRefuse
<1>6. CASE BurnLoad(h)
  <2>1. /\ handler'[h].st = "loaded" /\ handler'[h].att = handler[h].att /\ Busy(h)
        /\ handler'[h].map = UsedTokens \cup {TokenOf(h)}
        /\ certs' = certs /\ pending' = pending /\ UsedTokens' = UsedTokens
    BY <1>6 DEF BurnLoad, UsedTokens, TokenOf, Busy, TInv, TypeOK
  <2>2. Spent \subseteq UsedTokens
    BY <1>6 DEF BurnLoad, SpentIsUsed
  <2>3. ServedOnce'
    BY <2>1 DEF ServedOnce
  <2>4. SpentIsUsed' /\ MapIsWhole'
    BY <1>2, <1>3, <2>1, <2>2 DEF SpentIsUsed, MapIsWhole
  <2>5. BurnsBeforeSigning'
    BY <1>2, <1>3, <2>1 DEF BurnsBeforeSigning
  <2>6. QED
    BY <1>2, <2>1, <2>3, <2>4, <2>5
<1>7. CASE BurnFail(h) \/ EnrollSignFail(h)
  <2>1. /\ handler'[h].st = "idle" /\ handler[h].st \in {"loaded", "burned"}
        /\ certs' = certs /\ pending' = pending /\ UsedTokens' = UsedTokens
    BY <1>7 DEF BurnFail, EnrollSignFail, UsedTokens, IdleHandler, TInv, TypeOK
  <2>2. ServedOnce'
    BY <2>1 DEF ServedOnce, Busy
  <2>3. SpentIsUsed' /\ MapIsWhole' /\ BurnsBeforeSigning'
    BY <1>2, <2>1 DEF SpentIsUsed, MapIsWhole, BurnsBeforeSigning, Busy
  <2>4. QED
    BY <1>2, <2>1, <2>2, <2>3
<1>8. CASE BurnOpen(h)
  <2>1. /\ handler'[h].st = "opened" /\ handler'[h].att = handler[h].att /\ Busy(h)
        /\ handler[h].st = "loaded" /\ handler'[h].map = handler[h].map
        /\ certs' = certs /\ pending' = pending /\ used' = [parses |-> FALSE, ids |-> {}]
    BY <1>8 DEF BurnOpen, Busy, TInv, TypeOK
  <2>2. ServedOnce'
    BY <2>1 DEF ServedOnce
  <2>3. SpentIsUsed' /\ MapIsWhole' /\ BurnsBeforeSigning'
    BY <1>2, <1>3, <2>1 DEF SpentIsUsed, MapIsWhole, BurnsBeforeSigning
  <2>4. QED
    BY <1>2, <2>1, <2>2, <2>3
<1>9. CASE BurnWrite(h)
  <2>1. Cardinality({}) <= Cardinality(handler[h].map)
    <3>1. IsFiniteSet(handler[h].map)
      BY EnrollmentAssumption, FS_Subset DEF TInv, TypeOK
    <3>2. QED
      BY <3>1, FS_EmptySet, FS_CardinalityType
  <2>2. used.ids = {}
    BY <1>9 DEF BurnWrite, MapIsWhole
  <2>3. used' = [parses |-> TRUE, ids |-> handler[h].map]
    BY <1>9, <2>1, <2>2 DEF BurnWrite
  <2>4. /\ handler'[h].st = "burned" /\ handler'[h].att = handler[h].att /\ Busy(h)
        /\ handler[h].st = "opened"
        /\ certs' = certs /\ pending' = pending
    BY <1>9 DEF BurnWrite, Busy, TInv, TypeOK
  <2>5. UsedTokens' = handler[h].map
    BY <2>3 DEF UsedTokens
  <2>6. ServedOnce'
    BY <2>4 DEF ServedOnce
  <2>7. SpentIsUsed' /\ MapIsWhole' /\ BurnsBeforeSigning'
    BY <1>2, <1>3, <2>4, <2>5 DEF SpentIsUsed, MapIsWhole, BurnsBeforeSigning
  <2>8. QED
    BY <1>2, <2>4, <2>6, <2>7
<1>10. CASE EnrollSign(h)
  <2>1. /\ handler'[h].st = "idle" /\ handler[h].st = "burned" /\ Busy(h)
        /\ certs' = certs \cup {handler[h].att}
        /\ pending' = pending /\ UsedTokens' = UsedTokens
    BY <1>10 DEF EnrollSign, UsedTokens, IdleHandler, Busy, TInv, TypeOK
  <2>2. Spent' = Spent \cup {TokenOf(h)}
    BY <1>0, <1>1, <2>1 DEF Spent, TokenOf
  <2>3. ServedOnce'
    BY <2>1 DEF ServedOnce, Busy
  <2>4. SpentIsUsed'
    BY <2>1, <2>2 DEF SpentIsUsed, BurnsBeforeSigning
  <2>5. MapIsWhole' /\ BurnsBeforeSigning'
    BY <2>1 DEF MapIsWhole, BurnsBeforeSigning, Busy
  <2>6. SingleUse'
    <3>1. \A b \in certs : client[b].token # TokenOf(h)
      BY <2>1 DEF BurnsBeforeSigning, Spent
    <3>2. QED
      BY <1>0, <1>1, <2>1, <3>1 DEF SingleUse, TokenOf
  <2>7. QED
    BY <2>3, <2>4, <2>5, <2>6
<1>11. QED
  BY <1>4, <1>5, <1>6, <1>7, <1>8, <1>9, <1>10 DEF Enroll, Burn

\* A restart in a quiet moment: the file is whole, and the requests are forgotten.
LEMMA RestartUseInv ==
    ASSUME TInv, UseInv, Restart, boots'.cut = {}
    PROVE  UseInv'
<1> USE DEF UseInv
<1>1. \A h \in Handlers : handler[h].st # "opened"
  BY DEF Restart
<1>2. /\ \A h \in Handlers : handler'[h].st = "idle"
      /\ \A a \in Attempts : client'[a].token = client[a].token
      /\ pending' = {} /\ certs' = certs /\ used' = used /\ certs \subseteq Attempts
  BY DEF Restart, IdleHandler, TInv, TypeOK
<1>3. Spent' = Spent
  BY <1>2 DEF Spent
<1>4. ServedOnce' /\ SingleUse'
  BY <1>2 DEF ServedOnce, Busy, SingleUse
<1>5. SpentIsUsed'
  BY <1>1, <1>2, <1>3 DEF SpentIsUsed, UsedTokens
<1>6. MapIsWhole' /\ BurnsBeforeSigning'
  BY <1>2 DEF MapIsWhole, BurnsBeforeSigning, Busy
<1>7. QED
  BY <1>4, <1>5, <1>6

WholeUse == boots.cut = {} => UseInv

LEMMA StepWholeUse == Solo /\ TInv /\ WholeUse /\ [Next]_vars => WholeUse'
<1> SUFFICES ASSUME Solo, TInv, WholeUse, [Next]_vars, boots'.cut = {} PROVE UseInv'
  BY DEF WholeUse
<1>1. CASE Restart
  <2>1. boots.cut = {}
    BY <1>1 DEF Restart
  <2>2. QED
    BY <1>1, <2>1, RestartUseInv DEF WholeUse
<1>2. ASSUME NEW a \in Attempts, ComputeNodeEnroll(a) PROVE UseInv'
  <2>1. boots' = boots
    BY <1>2 DEF ComputeNodeEnroll, EnrollPost, EnrollTimeout, SaveCert, SaveKey, SavePub,
                EnrollKilled, serverVars
  <2>2. QED
    BY <1>2, <2>1, OthersUseInv
       DEF WholeUse, ComputeNodeEnroll, EnrollPost, EnrollTimeout, SaveCert, SaveKey, SavePub,
           EnrollKilled, Working, serverVars, TInv, TypeOK
<1>3. CASE (\E t \in Tokens : GenerateEnrollmentToken(t) \/ Expire(t)) \/ UNCHANGED vars
  BY <1>3, OthersUseInv
     DEF WholeUse, GenerateEnrollmentToken, Expire, vars, serverVars, clientVars
<1>4. ASSUME NEW h \in Handlers, Enroll(h) PROVE UseInv'
  <2>1. boots' = boots
    BY <1>4 DEF Enroll, Burn, EnrollVerify, EnrollRefuse, BurnLoad, BurnFail, BurnOpen, BurnWrite,
                EnrollSign, EnrollSignFail
  <2>2. UseInv
    BY <2>1 DEF WholeUse
  <2>3. QED
    BY <1>4, <2>2, HandlerUseInv DEF Solo
<1>5. QED
  BY <1>1, <1>2, <1>3, <1>4 DEF Next

\* For any number of tokens and commands: if the bootstrap node serves one /enroll
\* at a time and never dies while it rewrites the token file, no two certificates
\* are signed for one token, whatever requests are repeated, lost or late.
THEOREM EnrollmentSingleUse == Solo => (Spec => []SingleUseUnlessCut)
<1>1. Init => TInv /\ WholeUse
  BY InitTInv, InitUseInv DEF WholeUse
<1>2. Solo /\ TInv /\ WholeUse /\ [Next]_vars => (TInv /\ WholeUse)'
  BY StepTInv, StepWholeUse
<1>3. WholeUse => SingleUseUnlessCut
  BY DEF WholeUse, UseInv, SingleUseUnlessCut
<1>4. SUFFICES ASSUME Solo PROVE Spec => []SingleUseUnlessCut
  OBVIOUS
<1>5. TInv /\ WholeUse /\ [Next]_vars => (TInv /\ WholeUse)'
  BY <1>2, <1>4
<1>6. QED
  BY <1>1, <1>3, <1>5, PTL DEF Spec

=============================================================================
