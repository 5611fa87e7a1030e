------------------------------ MODULE TrustStore ------------------------------
(***************************************************************************)
(* How a node comes to its CA certificates and what it then accepts: the   *)
(* pulls that the heartbeat starts (daemon/peer.go, daemon/ca/sync.go) and *)
(* the trust store (daemon/ca/verify.go) with its two callers, /register   *)
(* and discovery.                                                          *)
(*                                                                         *)
(* One node; its LAN peers may belong to different networks, that is, hold *)
(* chains of different roots, whole or in part.  Certificates are model    *)
(* values: an intermediate is known by the root that signed it, a node's   *)
(* certificate by the intermediate that signed it, and has not expired.    *)
(* Intermediates have different CNs.  A file is opened, which truncates    *)
(* it, then written; over the longer text of another writer that leaves a  *)
(* mixture which does not parse.  Which text is longer is left open.       *)
(***************************************************************************)
CONSTANTS
    Peers,      \* LAN peers: node ids, and their URLs
    Roots, Ints,
    SignedBy,   \* of an intermediate: its root
    None, Torn, \* a file that is missing, or cut off
    Mixed       \* one that two writers have left with a text and the end of another

ASSUME StoreAssumption ==
    /\ SignedBy \in [Ints -> Roots]
    /\ None # Torn /\ None # Mixed /\ Torn # Mixed
    /\ {None, Torn, Mixed} \cap (Roots \cup Ints) = {}
    /\ \A ids \in (SUBSET Peers) \cup (SUBSET Ints) : ids # Torn

VARIABLES
    up,         \* the daemon runs
    rootCrt,    \* config/root.crt
    intCrt,     \* config/intermediate.crt
    imported,   \* config/trusted_intermediates.json, kept by the operator
    cnsFile,    \* config/trusted_certs/trusted_nodes.json: Torn, or node ids
    store,      \* the TrustStore in memory
    pull,       \* the PullCASync of each peer: where it is, with its payload
    trust,      \* TrustPeerCN, under its lock: where it is, with its peer
    raced,      \* history: a pull has opened a file that was there
    unsaved     \* history: the last write of the CNs has failed

files == <<rootCrt, intCrt, imported, cnsFile>>
history == <<raced, unsaved>>
storeVars == <<up, files, store, pull, trust, history>>

NoStore == [root |-> None, ints |-> {}, mapped |-> FALSE, cns |-> {}]

Pulling(at, root, int) == [at |-> at, root |-> root, int |-> int]

NoPull == Pulling("idle", None, None)

Trusting(at, cn) == [at |-> at, cn |-> cn]

NoTrust == Trusting("idle", None)

\* loadTrustedCNs: an unreadable file is as good as an empty one.
LoadTrustedCNs == IF cnsFile = Torn THEN {} ELSE cnsFile

\* Faulty variant of LoadTrustStore: it goes on after an unreadable list.
LoadTrustStoreGoesOn ==
    IF rootCrt \in {Torn, Mixed} THEN NoStore
    ELSE [root |-> rootCrt,
          ints |-> (IF imported = Torn THEN {} ELSE imported) \cup ({intCrt} \cap Ints),
          mapped |-> imported # Torn,
          cns |-> IF imported = Torn THEN {} ELSE LoadTrustedCNs]

\* The early returns leave out what they have not come to, the map of CNs included;
\* an unreadable intermediate.crt is passed over.
LoadTrustStore ==
    IF rootCrt \in {Torn, Mixed} THEN NoStore
    ELSE IF imported = Torn THEN [NoStore EXCEPT !.root = rootCrt]
    ELSE [root |-> rootCrt, ints |-> imported \cup ({intCrt} \cap Ints),
          mapped |-> TRUE, cns |-> LoadTrustedCNs]

StoreInit ==
    /\ up = TRUE
    /\ rootCrt = None /\ intCrt = None
    /\ imported \in (SUBSET Ints) \cup {Torn}
    /\ cnsFile = {}
    /\ store = LoadTrustStore
    /\ pull = [p \in Peers |-> NoPull]
    /\ trust = NoTrust
    /\ raced = FALSE /\ unsaved = FALSE

(* --------------------------------- pulls --------------------------------- *)

\* What os.WriteFile of new can leave in a file that has old in it: new, unless old is
\* the longer text.
Over(old, new) == IF old \in {Torn, new} THEN {new} ELSE {new, Mixed}

\* Faulty variant of Spawn: only trusted peers are asked.
SpawnTrusted(p) ==
    /\ up /\ pull[p].at = "idle"
    /\ rootCrt = None /\ p \in store.cns
    /\ pull' = [pull EXCEPT ![p].at = "get"]
    /\ UNCHANGED <<up, files, store, trust, history>>

\* A heartbeat starts a pull from every LAN peer until root.crt is there.
Spawn(p) ==
    /\ up /\ pull[p].at = "idle"
    /\ rootCrt = None
    /\ pull' = [pull EXCEPT ![p].at = "get"]
    /\ UNCHANGED <<up, files, store, trust, history>>

\* The peer answers with the files it has, whole or not at all ...
Get(p, root, int) ==
    /\ pull[p].at = "get"
    /\ pull' = [pull EXCEPT ![p] = Pulling("root", root, int)]
    /\ UNCHANGED <<up, files, store, trust, history>>

\* ... or not.
GetFails(p) ==
    /\ pull[p].at = "get"
    /\ pull' = [pull EXCEPT ![p] = NoPull]
    /\ UNCHANGED <<up, files, store, trust, history>>

StatRoot(p) ==
    /\ pull[p].at = "root"
    /\ pull' = [pull EXCEPT ![p].at =
                   IF pull[p].root # None /\ rootCrt = None THEN "root open" ELSE "int"]
    /\ UNCHANGED <<up, files, store, trust, history>>

OpenRoot(p) ==
    /\ pull[p].at = "root open"
    /\ rootCrt' = Torn
    /\ raced' = (raced \/ rootCrt # None)
    /\ pull' = [pull EXCEPT ![p].at = "root write"]
    /\ UNCHANGED <<up, intCrt, imported, cnsFile, store, trust, unsaved>>

OpenRootFails(p) ==
    /\ pull[p].at = "root open"
    /\ pull' = [pull EXCEPT ![p].at = "int"]
    /\ UNCHANGED <<up, files, store, trust, history>>

WriteRoot(p) ==
    /\ pull[p].at = "root write"
    /\ rootCrt' \in Over(rootCrt, pull[p].root)
    /\ pull' = [pull EXCEPT ![p].at = "int"]
    /\ UNCHANGED <<up, intCrt, imported, cnsFile, store, trust, history>>

StatInt(p) ==
    /\ pull[p].at = "int"
    /\ pull' = [pull EXCEPT ![p] =
                   IF pull[p].int # None /\ intCrt = None
                     THEN [pull[p] EXCEPT !.at = "int check"]
                     ELSE NoPull]
    /\ UNCHANGED <<up, files, store, trust, history>>

\* Faulty variant of CheckInt: against the root of the same answer.
CheckIntAnswer(p) ==
    /\ pull[p].at = "int check"
    /\ pull' = [pull EXCEPT ![p] =
                   IF pull[p].root \in {None, SignedBy[pull[p].int]}
                     THEN [pull[p] EXCEPT !.at = "int open"]
                     ELSE NoPull]
    /\ UNCHANGED <<up, files, store, trust, history>>

\* The root is read from disk: it may be another than the peer's, or unreadable.
CheckInt(p) ==
    /\ pull[p].at = "int check"
    /\ pull' = [pull EXCEPT ![p] =
                   IF rootCrt = SignedBy[pull[p].int]
                     THEN [pull[p] EXCEPT !.at = "int open"]
                     ELSE NoPull]
    /\ UNCHANGED <<up, files, store, trust, history>>

OpenInt(p) ==
    /\ pull[p].at = "int open"
    /\ \/ /\ intCrt' = Torn
          /\ raced' = (raced \/ intCrt # None)
          /\ pull' = [pull EXCEPT ![p].at = "int write"]
       \/ /\ pull' = [pull EXCEPT ![p] = NoPull]
          /\ UNCHANGED <<intCrt, raced>>
    /\ UNCHANGED <<up, rootCrt, imported, cnsFile, store, trust, unsaved>>

WriteInt(p) ==
    /\ pull[p].at = "int write"
    /\ intCrt' \in Over(intCrt, pull[p].int)
    /\ pull' = [pull EXCEPT ![p] = NoPull]
    /\ UNCHANGED <<up, rootCrt, imported, cnsFile, store, trust, history>>

(* ------------------------------ trusted CNs ------------------------------ *)

\* VerifyCert by the store in memory: the issuer is known and has signed.
Accepts(i) == up /\ i \in store.ints

\* Discovery has fetched p's certificate, signed by i: TrustPeerCN.  /register
\* looks at Accepts alone.
TrustPeerCN(p, i) ==
    /\ Accepts(i)
    /\ trust.at = "idle" /\ p \notin store.cns
    /\ store' = [store EXCEPT !.cns = store.cns \cup {p}]
    /\ trust' = Trusting("open", p)
    /\ UNCHANGED <<up, files, pull, history>>

OpenCns ==
    /\ trust.at = "open"
    /\ \/ /\ cnsFile' = Torn
          /\ trust' = Trusting("write", trust.cn)
          /\ UNCHANGED unsaved
       \/ /\ unsaved' = TRUE
          /\ trust' = NoTrust
          /\ UNCHANGED cnsFile
    /\ UNCHANGED <<up, rootCrt, intCrt, imported, store, pull, raced>>

\* Faulty variant of WriteCns: only the new CN is added to what was written.
WriteCnsOne ==
    /\ trust.at = "write"
    /\ cnsFile' = {trust.cn}
    /\ unsaved' = FALSE
    /\ trust' = NoTrust
    /\ UNCHANGED <<up, rootCrt, intCrt, imported, store, pull, raced>>

\* persistTrustedCNs writes them all.
WriteCns ==
    /\ trust.at = "write"
    /\ cnsFile' = store.cns
    /\ unsaved' = FALSE
    /\ trust' = NoTrust
    /\ UNCHANGED <<up, rootCrt, intCrt, imported, store, pull, raced>>

(* --------------------------- crash and restart --------------------------- *)

NodeCrash ==
    /\ up
    /\ up' = FALSE
    /\ store' = NoStore
    /\ pull' = [p \in Peers |-> NoPull]
    /\ trust' = NoTrust
    /\ UNCHANGED <<files, history>>

NodeBoot ==
    /\ ~up
    /\ up' = TRUE
    /\ store' = LoadTrustStore
    /\ unsaved' = FALSE
    /\ UNCHANGED <<files, pull, trust, raced>>

-----------------------------------------------------------------------------

Store(p) ==
    \/ StatRoot(p) \/ OpenRoot(p) \/ OpenRootFails(p) \/ WriteRoot(p)
    \/ StatInt(p) \/ CheckInt(p) \/ OpenInt(p) \/ WriteInt(p)

StoreNext ==
    \/ \E p \in Peers : Spawn(p) \/ GetFails(p) \/ Store(p)
    \/ \E p \in Peers, r \in Roots \cup {None}, i \in Ints \cup {None} : Get(p, r, i)
    \/ \E p \in Peers, i \in Ints : TrustPeerCN(p, i)
    \/ OpenCns \/ WriteCns
    \/ NodeCrash \/ NodeBoot

StoreSpec == StoreInit /\ [][StoreNext]_storeVars

\* Heartbeats go on, pulls have time-outs, some peer offers its whole chain again
\* and again, and not every attempt to open a file fails.  Nothing obliges operators
\* to restart a node.
StoreFairness ==
    /\ \A p \in Peers : WF_storeVars(Spawn(p)) /\ WF_storeVars(Store(p))
    /\ SF_storeVars(\E p \in Peers, i \in Ints : Get(p, SignedBy[i], i))
    /\ SF_storeVars(\E p \in Peers : OpenRoot(p))

FairStoreSpec == StoreSpec /\ StoreFairness

-----------------------------------------------------------------------------

\* The types of the files, of the store and of the goroutines.  The early returns of
\* LoadTrustStore leave the map of CNs nil: TrustPeerCN never writes to it then.
StoreTypeOK ==
    /\ up \in BOOLEAN
    /\ rootCrt \in Roots \cup {None, Torn, Mixed} /\ intCrt \in Ints \cup {None, Torn, Mixed}
    /\ imported \in (SUBSET Ints) \cup {Torn} /\ cnsFile \in (SUBSET Peers) \cup {Torn}
    /\ store \in [root : Roots \cup {None}, ints : SUBSET Ints, mapped : BOOLEAN, cns : SUBSET Peers]
    /\ pull \in [Peers -> [at : {"idle", "get", "root", "root open", "root write",
                                 "int", "int check", "int open", "int write"},
                           root : Roots \cup {None}, int : Ints \cup {None}]]
    /\ trust \in [at : {"idle", "open", "write"}, cn : Peers \cup {None}]
    /\ trust.at # "idle" => store.mapped
    /\ raced \in BOOLEAN /\ unsaved \in BOOLEAN

Matching(root, int) == root \in Roots /\ int \in Ints => SignedBy[int] = root

\* However the pulls from peers of different networks interleave, and wherever the
\* node dies, the intermediate it keeps and the root it keeps are of one chain,
\* on disk and among the certificates it has loaded, unless two pulls have opened
\* the same file.
OneChain ==
    ~raced => /\ Matching(rootCrt, intCrt)
              /\ \A i \in store.ints : (imported # Torn /\ i \in imported) \/ Matching(store.root, i)

\* After a run of TrustPeerCN the file has every CN that memory has, unless the last
\* write of it has failed: a later write makes up for a failed one.
CnsSaved == up /\ store.mapped /\ trust.at = "idle" /\ ~unsaved => LoadTrustedCNs = store.cns

\* Heartbeats bring a root certificate to a node that stays up, and never replace
\* it then, although every LAN peer is asked at the same time, as long as all answers
\* have the same root or no two pulls open the same file.  Otherwise, and after a
\* crash, the file is at least there: mixed or cut off, it stops the pulls for good.
RootArrives ==
    /\ /\ []up
       /\ ([]~raced) \/ (\E r \in Roots : [](\A p \in Peers : pull[p].root \in {None, r}))
       => \E r \in Roots : <>[](rootCrt = r)
    /\ (<>[]up) => <>[](rootCrt # None)

=============================================================================
