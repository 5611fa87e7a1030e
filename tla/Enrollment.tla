----------------------------- MODULE Enrollment -----------------------------
(***************************************************************************)
(* Enrollment of compute nodes with one-time tokens: POST /token-gen and   *)
(* POST /enroll on the bootstrap node (daemon/handlers.go,                 *)
(* daemon/ca/intermediate.go), the file config/used_tokens.json, and the   *)
(* command `vernex-node ca enroll' (daemon/ca/enrollment.go) on the nodes. *)
(*                                                                         *)
(* Each member of Attempts is one run of the command, with a key pair of   *)
(* its own: certificates and keys are named after it.  A node runs one     *)
(* command at a time.  Each /enroll request is served by a goroutine of    *)
(* its own, a member of Handlers.  The burn of a token reads, truncates    *)
(* and writes used_tokens.json under no lock.                              *)
(***************************************************************************)
EXTENDS Naturals, FiniteSets

CONSTANTS
    Tokens,         \* the enrollment tokens
    Nodes,          \* the machines to enroll
    Attempts,       \* runs of `ca enroll'
    Handlers,       \* goroutines that serve POST /enroll
    None,           \* no attempt, no token
    Torn,           \* the content of a file whose write was cut short
    MaxRestarts     \* bound of the model: restarts of the bootstrap daemon

ASSUME EnrollmentAssumption ==
    /\ None \notin Attempts \cup Tokens \cup Nodes
    /\ Torn \notin Attempts \cup {None}
    /\ IsFiniteSet(Tokens)
    /\ MaxRestarts \in Nat

VARIABLES
    issued,     \* the tokens generated so far
    expired,    \* those of them whose ExpiresAt is over
    used,       \* used_tokens.json: does it parse, and the ids in its text
    pending,    \* the attempts whose request is on its way to /enroll
    handler,    \* per goroutine: where it is, for which attempt, the map it loaded
    certs,      \* history: the attempts whose CSR has been signed
    client,     \* per attempt: where it is, its node, its token
    files,      \* per node: whose node.crt, node.mldsa.key, node.mldsa.pub it has
    boots       \* history: how many restarts, and the attempts whose burn one cut short

serverVars == <<issued, expired, used, pending, handler, certs, boots>>
clientVars == <<client, files>>
vars == <<serverVars, clientVars>>

HandlerState == {"idle", "verified", "loaded", "opened", "burned"}
ClientState == {"unused", "posted", "answered", "certified", "keyed", "done", "failed", "killed"}

Content == Attempts \cup {None, Torn}

IdleHandler == [st |-> "idle", att |-> None, map |-> {}]

UnusedClient == [st |-> "unused", node |-> None, token |-> None]

\* The files a node has before it ever enrolls: keys of its own, no certificate.
Unenrolled == [crt |-> None, key |-> None, pub |-> None]

Init ==
    /\ issued = {} /\ expired = {}
    /\ used = [parses |-> TRUE, ids |-> {}]
    /\ pending = {}
    /\ handler = [h \in Handlers |-> IdleHandler]
    /\ certs = {}
    /\ client = [a \in Attempts |-> UnusedClient]
    /\ files = [n \in Nodes |-> Unenrolled]
    /\ boots = [n |-> 0, cut |-> {}]

-----------------------------------------------------------------------------
(* The bootstrap node *)

\* /token-gen or `ca token', by the operator.
GenerateEnrollmentToken(t) ==
    /\ t \notin issued
    /\ issued' = issued \cup {t}
    /\ UNCHANGED <<pending, expired, used, handler, certs, boots, clientVars>>

\* 30 days go by.
Expire(t) ==
    /\ t \in issued \ expired
    /\ expired' = expired \cup {t}
    /\ UNCHANGED <<pending, issued, used, handler, certs, boots, clientVars>>

\* loadUsedTokens: an empty map if the file does not parse.
UsedTokens == IF used.parses THEN used.ids ELSE {}

\* The token is one of the root's, not expired and not used.
TokenValid(t) == t \in issued \ expired /\ t \notin UsedTokens

\* The answer of /enroll, if its client still waits for it.
Answer(a, st) ==
    client' = IF client[a].st = "posted" THEN [client EXCEPT ![a].st = st] ELSE client

\* Goroutine h gets to st, with m as the map of used tokens it holds.
Serve(h, a, st, m) == handler' = [handler EXCEPT ![h] = [st |-> st, att |-> a, map |-> m]]

\* Faulty variant of EnrollVerify: the certificate is signed before the burn.
EnrollVerifySigns(h, a) ==
    /\ handler[h].st = "idle"
    /\ a \in pending
    /\ pending' = pending \ {a}
    /\ TokenValid(client[a].token)
    /\ Serve(h, a, "verified", {})
    /\ certs' = certs \cup {a}
    /\ UNCHANGED <<issued, expired, used, boots, clientVars>>

\* A request arrives; token, then CSR, are in order.
EnrollVerify(h, a) ==
    /\ handler[h].st = "idle"
    /\ a \in pending
    /\ pending' = pending \ {a}
    /\ TokenValid(client[a].token)
    /\ Serve(h, a, "verified", {})
    /\ UNCHANGED <<issued, expired, used, certs, boots, clientVars>>

\* The clock is blocked, the CA cannot be loaded, the token or the CSR is bad.
EnrollRefuse(h, a) ==
    /\ handler[h].st = "idle"
    /\ a \in pending
    /\ pending' = pending \ {a}
    /\ Answer(a, "failed")
    /\ UNCHANGED <<issued, expired, used, handler, certs, boots, files>>

\* Faulty variant of BurnLoad: the id of the request is burned, not the token's.
BurnLoadWrongId(h) ==
    /\ handler[h].st = "verified"
    /\ Serve(h, handler[h].att, "loaded", UsedTokens \cup {handler[h].att})
    /\ UNCHANGED <<pending, issued, expired, used, certs, boots, clientVars>>

\* BurnEnrollmentToken, in three steps: the map with the token added ...
BurnLoad(h) ==
    /\ handler[h].st = "verified"
    /\ Serve(h, handler[h].att, "loaded", UsedTokens \cup {client[handler[h].att].token})
    /\ UNCHANGED <<pending, issued, expired, used, certs, boots, clientVars>>

\* ... the file cannot be opened: no certificate ...
BurnFail(h) ==
    /\ handler[h].st = "loaded"
    /\ Answer(handler[h].att, "failed")
    /\ handler' = [handler EXCEPT ![h] = IdleHandler]
    /\ UNCHANGED <<pending, issued, expired, used, certs, boots, files>>

\* ... or os.WriteFile opens it, which truncates it ...
BurnOpen(h) ==
    /\ handler[h].st = "loaded"
    /\ used' = [parses |-> FALSE, ids |-> {}]
    /\ Serve(h, handler[h].att, "opened", handler[h].map)
    /\ UNCHANGED <<pending, issued, expired, certs, boots, clientVars>>

\* ... and writes from its start; the end of a longer text written by another
\* goroutine meanwhile remains, and it no longer parses.  Each id takes the same
\* number of bytes.
BurnWrite(h) ==
    /\ handler[h].st = "opened"
    /\ used' = IF Cardinality(used.ids) <= Cardinality(handler[h].map)
                 THEN [parses |-> TRUE, ids |-> handler[h].map]
                 ELSE [parses |-> FALSE, ids |-> used.ids]
    /\ Serve(h, handler[h].att, "burned", handler[h].map)
    /\ UNCHANGED <<pending, issued, expired, certs, boots, clientVars>>

\* The certificate is signed and sent.
EnrollSign(h) ==
    /\ handler[h].st = "burned"
    /\ certs' = certs \cup {handler[h].att}
    /\ Answer(handler[h].att, "answered")
    /\ handler' = [handler EXCEPT ![h] = IdleHandler]
    /\ UNCHANGED <<pending, issued, expired, used, boots, files>>

\* The token is burned, but signing fails.
EnrollSignFail(h) ==
    /\ handler[h].st = "burned"
    /\ Answer(handler[h].att, "failed")
    /\ handler' = [handler EXCEPT ![h] = IdleHandler]
    /\ UNCHANGED <<pending, issued, expired, used, certs, boots, files>>

\* The daemon dies and starts again: its connections break.
Restart ==
    /\ boots.n < MaxRestarts
    /\ boots' = [n |-> boots.n + 1,
                 cut |-> boots.cut \cup
                            {handler[h].att : h \in {g \in Handlers : handler[g].st = "opened"}}]
    /\ pending' = {}
    /\ handler' = [h \in Handlers |-> IdleHandler]
    /\ client' = [a \in Attempts |->
                     IF client[a].st = "posted" THEN [client[a] EXCEPT !.st = "failed"]
                                                ELSE client[a]]
    /\ UNCHANGED <<issued, expired, used, certs, files>>

(* ----------------- ComputeNodeEnroll, on a compute node ------------------ *)

Working(a) == client[a].st \in {"posted", "answered", "certified", "keyed"}

\* Faulty variant of EnrollPost: the new key pair is stored before the answer.
EnrollPostKeys(a, n, t) ==
    /\ client[a].st = "unused"
    /\ \A b \in Attempts : Working(b) => client[b].node # n
    /\ client' = [client EXCEPT ![a] = [st |-> "posted", node |-> n, token |-> t]]
    /\ files' = [files EXCEPT ![n] = [@ EXCEPT !.key = a, !.pub = a]]
    /\ pending' = pending \cup {a}
    /\ UNCHANGED <<issued, expired, used, handler, certs, boots>>

\* A new key pair, in memory; the CSR and the token are posted.
EnrollPost(a, n, t) ==
    /\ client[a].st = "unused"
    /\ \A b \in Attempts : Working(b) => client[b].node # n
    /\ client' = [client EXCEPT ![a] = [st |-> "posted", node |-> n, token |-> t]]
    /\ pending' = pending \cup {a}
    /\ UNCHANGED <<issued, expired, used, handler, certs, boots, files>>

\* The connection breaks, the client's 30 s are over, or the command is killed
\* while it waits; its request may still be served.
EnrollTimeout(a) ==
    /\ client[a].st = "posted"
    /\ client' = [client EXCEPT ![a].st = "failed"]
    /\ UNCHANGED <<serverVars, files>>

SaveCert(a) ==
    /\ client[a].st = "answered"
    /\ files' = [files EXCEPT ![client[a].node].crt = a]
    /\ client' = [client EXCEPT ![a].st = "certified"]
    /\ UNCHANGED serverVars

SaveKey(a) ==
    /\ client[a].st = "certified"
    /\ files' = [files EXCEPT ![client[a].node].key = a]
    /\ client' = [client EXCEPT ![a].st = "keyed"]
    /\ UNCHANGED serverVars

SavePub(a) ==
    /\ client[a].st = "keyed"
    /\ files' = [files EXCEPT ![client[a].node].pub = a]
    /\ client' = [client EXCEPT ![a].st = "done"]
    /\ UNCHANGED serverVars

\* The command is killed, or fails to write, before or in the middle of a file.
EnrollKilled(a) ==
    /\ Working(a) /\ client[a].st # "posted"
    /\ client' = [client EXCEPT ![a].st = "killed"]
    /\ \/ UNCHANGED files
       \/ /\ client[a].st = "answered"
          /\ files' = [files EXCEPT ![client[a].node].crt = Torn]
       \/ /\ client[a].st = "certified"
          /\ files' = [files EXCEPT ![client[a].node].key = Torn]
       \/ /\ client[a].st = "keyed"
          /\ files' = [files EXCEPT ![client[a].node].pub = Torn]
    /\ UNCHANGED serverVars

-----------------------------------------------------------------------------

Burn(h) == BurnLoad(h) \/ BurnFail(h) \/ BurnOpen(h) \/ BurnWrite(h)

Enroll(h) ==
    \/ \E a \in Attempts : EnrollVerify(h, a) \/ EnrollRefuse(h, a)
    \/ Burn(h)
    \/ EnrollSign(h) \/ EnrollSignFail(h)

ComputeNodeEnroll(a) ==
    \/ \E n \in Nodes, t \in issued : EnrollPost(a, n, t)
    \/ EnrollTimeout(a)
    \/ SaveCert(a) \/ SaveKey(a) \/ SavePub(a)
    \/ EnrollKilled(a)

Next ==
    \/ \E t \in Tokens : GenerateEnrollmentToken(t) \/ Expire(t)
    \/ \E h \in Handlers : Enroll(h)
    \/ \E a \in Attempts : ComputeNodeEnroll(a)
    \/ Restart

Spec == Init /\ [][Next]_vars

-----------------------------------------------------------------------------

\* The type of the token file, of the handlers and of the commands.
TypeOK ==
    /\ issued \subseteq Tokens /\ expired \subseteq issued
    /\ used \in [parses : BOOLEAN, ids : SUBSET Tokens]
    /\ pending \subseteq Attempts
    /\ handler \in [Handlers -> [st : HandlerState, att : Attempts \cup {None},
                                 map : SUBSET Tokens]]
    /\ certs \subseteq Attempts
    /\ client \in [Attempts -> [st : ClientState, node : Nodes \cup {None},
                                token : Tokens \cup {None}]]
    /\ files \in [Nodes -> [crt : Content, key : Content, pub : Content]]
    /\ boots \in [n : 0..MaxRestarts, cut : SUBSET Attempts]

\* "Single-use enrollment tokens, burned on first use" (README.md): no two
\* certificates are issued for one token.
SingleUse ==
    \A a, b \in certs : client[a].token = client[b].token => a = b

\* What is true of one request at a time: a token serves twice only if the daemon
\* has died between the truncation and the write of used_tokens.json, whatever
\* answers were lost and requests repeated, and wherever else it has died.
SingleUseUnlessCut == boots.cut = {} => SingleUse

\* A node has the certificate of the key pair it has, unless a command is saving
\* its files or was killed over it: a refused, timed-out or early interrupted
\* enrollment leaves the identity the node had, and only certificates that the CA
\* has signed are stored (ComputeNodeEnroll).
IdentityWhole ==
    \A n \in Nodes :
        \/ \E a \in Attempts :
               /\ client[a].node = n
               /\ client[a].st \in {"certified", "keyed", "killed"}
               /\ files[n].crt \in {a, Torn}
        \/ /\ files[n].crt = files[n].key /\ files[n].crt = files[n].pub
           /\ files[n].crt \in certs \cup {None}

=============================================================================
