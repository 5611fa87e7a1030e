------------------------------ MODULE PeerTrust ------------------------------
(***************************************************************************)
(* Which peers a daemon lists and trusts: the registry (daemon/peer.go),   *)
(* the /register, /deregister, /trust-request, /trust-approve and          *)
(* /trust-deny handlers (daemon/handlers.go), the mDNS discovery goroutine *)
(* with its status fetches (daemon/mdns.go), and the node's config with    *)
(* the file behind it and its two writers, /trust-approve and the trust    *)
(* request of the heartbeat (daemon/config.go, daemon/peer.go).            *)
(*                                                                         *)
(* Every method of the registry is atomic; the goroutines that combine     *)
(* them are not.  A member of Calls is a /register handler followed by the *)
(* cert-verify goroutine it spawns, a member of Approvals a /trust-approve *)
(* handler.  LastSeen, addresses, keys and pushed statuses are left out.   *)
(*                                                                         *)
(* A certificate is fetched from the URL that a heartbeat or mDNS gives    *)
(* for a peer.  Whichever node answers there serves its own: the code does *)
(* not compare the name in it with the peer's node id.                     *)
(* unsaved, overlapped and chained are history.                            *)
(***************************************************************************)

CONSTANTS
    Peers,          \* node ids of the other nodes
    Calls,          \* goroutines that serve POST /register
    Approvals,      \* goroutines that serve POST /trust-approve
    Enrolled,       \* the nodes with a certificate that the trust store accepts
    Ack,            \* the line "trust_approved" of the config
    None            \* no peer

ASSUME TrustAssumption == None \notin Peers /\ Ack \notin Peers

\* What a config holds, as far as it is modelled: peers, and trust_approved.
Lines == Peers \cup {Ack}

Entry == [listed : BOOLEAN, verified : BOOLEAN, trusted : BOOLEAN]

\* What GetByNodeID returns for an unknown peer: not ok, and Go's zero value.
Zero == [listed |-> FALSE, verified |-> FALSE, trusted |-> FALSE]

Fresh == [listed |-> TRUE, verified |-> FALSE, trusted |-> FALSE]

VARIABLES
    entries,    \* peerRegistry.entries
    calls,      \* per /register goroutine: where it is, for whom, its local entry
    cfg,        \* node.cfg: the peers of PeerNodes, and Ack for TrustApproved
    disk,       \* config/node.json: empty, garbage or JSON, and the lines of the
                \* longest text written to it since it was truncated
    beat,       \* the heartbeat's saveConfig: off (no loop), idle or opened, the
                \* latter with node.mu held
    requests,   \* trustRequests: the peers in the operator's queue
    approvals,  \* per /trust-approve goroutine: where it is, for whom, cfgSnap
    unsaved,    \* history: lines whose save has failed, with none done since
    overlapped, \* history: a save has begun while another was under way
    discovered, \* mdnsDiscovered
    cns,        \* the CNs that TrustPeerCN has added to the trust store
    mdns,       \* the mDNS goroutine: where it is, for whom, its local entry
    fetch,      \* per peer: its fetchAndStorePeerStatus goroutine
    chained     \* history: <<p, q>> if VerifyCert accepted the certificate of q,
                \* fetched from the URL given for p

regVars == <<entries, calls, chained>>
cfgVars == <<cfg, disk, beat, requests, approvals, unsaved, overlapped>>
mdnsVars == <<discovered, cns, mdns, fetch>>
vars == <<regVars, cfgVars, mdnsVars>>

CallState == {"idle", "built", "scanned", "carried", "fetching", "verified", "marked"}
ApprovalState == {"idle", "taken", "saving", "opened", "marking"}
MdnsState == {"idle", "sighted", "checking", "branched", "storing"}
MdnsBranch == {"plain", "certified"}
FetchState == {"idle", "fetching", "storing"}

IdleCall == [st |-> "idle", peer |-> None, entry |-> Zero]
IdleApproval == [st |-> "idle", peer |-> None, snap |-> {}]
IdleMdns == [st |-> "idle", peer |-> None, how |-> "plain", first |-> FALSE, entry |-> Zero]
IdleFetch == [st |-> "idle", entry |-> Zero]

-----------------------------------------------------------------------------
(* peerRegistry: one critical section each *)

Register(p, e) == entries' = [entries EXCEPT ![p] = e]

Remove(p) == entries' = [entries EXCEPT ![p] = Zero]

\* SetCertVerified and SetTrustApproved: no effect on a peer not listed.
SetCertVerified(p) ==
    entries' = [entries EXCEPT ![p] =
                   [@ EXCEPT !.verified = entries[p].verified \/ entries[p].listed]]

SetTrustApproved(p) ==
    entries' = [entries EXCEPT ![p] =
                   [@ EXCEPT !.trusted = entries[p].trusted \/ entries[p].listed]]

-----------------------------------------------------------------------------

\* startHeartbeatLoop: no loop without peers.
Loop(lines) == IF lines \cap Peers = {} THEN "off" ELSE "idle"

\* node.mu is held over two steps only by the heartbeat's save.
Unlocked == beat # "opened"

\* /trust-approve is between its snapshot and the end of its saveConfig.
Saving(a) == approvals[a].st \in {"saving", "opened"}

Init ==
    /\ entries = [p \in Peers |-> Zero]
    /\ calls = [h \in Calls |-> IdleCall]
    /\ cfg \in SUBSET Peers
    /\ disk = [form |-> "json", lines |-> cfg] /\ beat = Loop(cfg)
    /\ unsaved = {} /\ overlapped = FALSE
    /\ requests = {}
    /\ approvals = [a \in Approvals |-> IdleApproval]
    /\ discovered = {} /\ cns = {}
    /\ mdns = IdleMdns
    /\ fetch = [p \in Peers |-> IdleFetch]
    /\ chained = {}

(* ----------------------- /register, /deregister ------------------------- *)

\* A well-formed heartbeat of p: a new entry with no flag set.
RegisterBuild(h, p) ==
    /\ calls[h].st = "idle"
    /\ calls' = [calls EXCEPT ![h] = [st |-> "built", peer |-> p, entry |-> Fresh]]
    /\ UNCHANGED <<entries, chained, cfgVars, mdnsVars>>

\* Faulty variant of RegisterScan: the config is not consulted.
RegisterScanSkips(h) ==
    /\ calls[h].st = "built"
    /\ calls' = [calls EXCEPT ![h] = [@ EXCEPT !.st = "scanned"]]
    /\ UNCHANGED <<entries, chained, cfgVars, mdnsVars>>

\* The scan of cfg.PeerNodes, by name or by public key, under node.mu.
RegisterScan(h) ==
    /\ calls[h].st = "built" /\ Unlocked
    /\ calls' = [calls EXCEPT ![h] =
                    [@ EXCEPT !.st = "scanned",
                              !.entry = [Fresh EXCEPT !.trusted = calls[h].peer \in cfg]]]
    /\ UNCHANGED <<entries, chained, cfgVars, mdnsVars>>

\* GetByNodeID: what is already known of the peer is carried over.
RegisterCarry(h) ==
    /\ calls[h].st = "scanned"
    /\ LET existing == entries[calls[h].peer]
           mine == calls[h].entry
       IN  calls' = [calls EXCEPT ![h] =
                        [@ EXCEPT !.st = "carried",
                                  !.entry = [listed |-> TRUE,
                                             verified |-> existing.verified,
                                             trusted |-> mine.trusted \/ existing.trusted]]]
    /\ UNCHANGED <<entries, chained, cfgVars, mdnsVars>>

\* Register, and the reply; the cert-verify goroutine starts.
RegisterStore(h) ==
    /\ calls[h].st = "carried"
    /\ Register(calls[h].peer, calls[h].entry)
    /\ calls' = [calls EXCEPT ![h] = [@ EXCEPT !.st = "fetching", !.entry = Zero]]
    /\ UNCHANGED <<chained, cfgVars, mdnsVars>>

\* Faulty variant of VerifyFail: the return after the error is missing.
VerifyFailGoesOn(h) ==
    /\ calls[h].st = "fetching"
    /\ calls' = [calls EXCEPT ![h] = [@ EXCEPT !.st = "verified"]]
    /\ UNCHANGED <<entries, chained, cfgVars, mdnsVars>>

\* No certificate, or its chain does not verify: the goroutine ends.
VerifyFail(h) ==
    /\ calls[h].st = "fetching"
    /\ calls' = [calls EXCEPT ![h] = IdleCall]
    /\ UNCHANGED <<entries, chained, cfgVars, mdnsVars>>

\* The certificate at the peer's URL, that of q, has a chain that verifies.
VerifyPass(h, q) ==
    /\ calls[h].st = "fetching"
    /\ calls' = [calls EXCEPT ![h] = [@ EXCEPT !.st = "verified"]]
    /\ chained' = chained \cup {<<calls[h].peer, q>>}
    /\ UNCHANGED <<entries, cfgVars, mdnsVars>>

VerifyMark(h) ==
    /\ calls[h].st = "verified"
    /\ SetCertVerified(calls[h].peer)
    /\ calls' = [calls EXCEPT ![h] = [@ EXCEPT !.st = "marked"]]
    /\ UNCHANGED <<chained, cfgVars, mdnsVars>>

VerifyTrust(h) ==
    /\ calls[h].st = "marked"
    /\ SetTrustApproved(calls[h].peer)
    /\ calls' = [calls EXCEPT ![h] = IdleCall]
    /\ UNCHANGED <<chained, cfgVars, mdnsVars>>

Deregister(p) ==
    /\ Remove(p)
    /\ UNCHANGED <<calls, chained, cfgVars, mdnsVars>>

(* --------- /trust-request, /trust-approve, /trust-deny, saveConfig ------ *)

\* os.WriteFile writes from the start of the file: over a longer text, the end of
\* that remains.  A config only grows, so that the later of two texts is the longer;
\* if they have the same lines, a peer may be in one of them twice.
WriteFile(lines) ==
    \E form \in {"json", "garbage"} :
        /\ form = "json" => disk.lines \subseteq lines
        /\ form = "garbage" => disk.form # "empty" /\ lines \subseteq disk.lines
        /\ disk' = [form |-> form, lines |-> disk.lines \cup lines]

TrustRequest(p) ==
    /\ requests' = requests \cup {p}
    /\ UNCHANGED <<cfg, disk, beat, approvals, unsaved, overlapped, regVars, mdnsVars>>

TrustDeny(p) ==
    /\ p \in requests
    /\ requests' = requests \ {p}
    /\ UNCHANGED <<cfg, disk, beat, approvals, unsaved, overlapped, regVars, mdnsVars>>

\* Faulty variant of ApproveTake: no check that the request was found.
ApproveTakeNothing(a, p) ==
    /\ approvals[a].st = "idle"
    /\ requests' = requests \ {p}
    /\ approvals' = [approvals EXCEPT ![a] =
                        [st |-> "taken", peer |-> IF p \in requests THEN p ELSE None, snap |-> {}]]
    /\ UNCHANGED <<cfg, disk, beat, unsaved, overlapped, regVars, mdnsVars>>

\* Take the request out of the queue, under trustMu; 404 if it is not there.
ApproveTake(a, p) ==
    /\ approvals[a].st = "idle"
    /\ p \in requests
    /\ requests' = requests \ {p}
    /\ approvals' = [approvals EXCEPT ![a] = [st |-> "taken", peer |-> p, snap |-> {}]]
    /\ UNCHANGED <<cfg, disk, beat, unsaved, overlapped, regVars, mdnsVars>>

\* Faulty variant of ApproveConfig: cfg is copied before the append.
ApproveConfigStale(a) ==
    /\ approvals[a].st = "taken" /\ Unlocked
    /\ cfg' = cfg \cup {approvals[a].peer}
    /\ approvals' = [approvals EXCEPT ![a] = [@ EXCEPT !.st = "saving", !.snap = cfg]]
    /\ overlapped' = (overlapped \/ \E b \in Approvals : Saving(b))
    /\ UNCHANGED <<disk, beat, requests, unsaved, regVars, mdnsVars>>

\* Append to cfg.PeerNodes and copy cfg, under node.mu.
ApproveConfig(a) ==
    /\ approvals[a].st = "taken" /\ Unlocked
    /\ cfg' = cfg \cup {approvals[a].peer}
    /\ approvals' = [approvals EXCEPT ![a] = [@ EXCEPT !.st = "saving", !.snap = cfg']]
    /\ overlapped' = (overlapped \/ \E b \in Approvals : Saving(b))
    /\ UNCHANGED <<disk, beat, requests, unsaved, regVars, mdnsVars>>

\* saveConfig, no lock held: os.WriteFile opens the file, which truncates it ...
ApproveOpen(a) ==
    /\ approvals[a].st = "saving"
    /\ disk' = [form |-> "empty", lines |-> {}]
    /\ approvals' = [approvals EXCEPT ![a] = [@ EXCEPT !.st = "opened"]]
    /\ UNCHANGED <<cfg, beat, requests, unsaved, overlapped, regVars, mdnsVars>>

\* ... or cannot open it, which is logged ...
ApproveOpenFails(a) ==
    /\ approvals[a].st = "saving"
    /\ unsaved' = unsaved \cup {approvals[a].peer}
    /\ approvals' = [approvals EXCEPT ![a] = [@ EXCEPT !.st = "marking", !.snap = {}]]
    /\ UNCHANGED <<cfg, disk, beat, requests, overlapped, regVars, mdnsVars>>

\* ... and writes.
ApproveWrite(a) ==
    /\ approvals[a].st = "opened"
    /\ WriteFile(approvals[a].snap)
    /\ unsaved' = {}
    /\ approvals' = [approvals EXCEPT ![a] = [@ EXCEPT !.st = "marking", !.snap = {}]]
    /\ UNCHANGED <<cfg, beat, requests, overlapped, regVars, mdnsVars>>

ApproveMark(a) ==
    /\ approvals[a].st = "marking"
    /\ SetTrustApproved(approvals[a].peer)
    /\ approvals' = [approvals EXCEPT ![a] = IdleApproval]
    /\ UNCHANGED <<calls, chained, cfg, disk, beat, requests, unsaved, overlapped, mdnsVars>>

\* The heartbeat's trust request was answered with a 200: under node.mu it sets
\* TrustApproved, and saveConfig opens the file or fails ...
BeatAck ==
    /\ beat = "idle" /\ Ack \notin cfg
    /\ cfg' = cfg \cup {Ack}
    /\ overlapped' = (overlapped \/ \E a \in Approvals : Saving(a))
    /\ \/ /\ disk' = [form |-> "empty", lines |-> {}]
          /\ beat' = "opened"
          /\ UNCHANGED unsaved
       \/ /\ unsaved' = unsaved \cup {Ack}
          /\ UNCHANGED <<disk, beat>>
    /\ UNCHANGED <<requests, approvals, regVars, mdnsVars>>

\* ... and writes what cfg still is.
BeatWrite ==
    /\ beat = "opened"
    /\ WriteFile(cfg)
    /\ unsaved' = {}
    /\ beat' = "idle"
    /\ UNCHANGED <<cfg, requests, approvals, overlapped, regVars, mdnsVars>>

(* ------------------------------- mDNS ----------------------------------- *)

\* The next peer that avahi-browse has found.
MdnsSight(p) ==
    /\ mdns.st = "idle"
    /\ mdns' = [IdleMdns EXCEPT !.st = "sighted", !.peer = p, !.first = p \notin discovered]
    /\ discovered' = discovered \cup {p}
    /\ UNCHANGED <<entries, calls, chained, cfgVars, cns, fetch>>

\* isTrustedPeer: is the peer in cfg.PeerNodes, or must its certificate decide?
MdnsClassify ==
    /\ mdns.st = "sighted"
    /\ mdns' = [mdns EXCEPT !.st = IF mdns.peer \in cfg THEN "branched" ELSE "checking"]
    /\ UNCHANGED <<regVars, cfgVars, discovered, cns, fetch>>

\* The certificate at the URL found for the peer, that of q, verifies.
MdnsCertified(q) ==
    /\ mdns.st = "checking"
    /\ mdns' = [mdns EXCEPT !.st = "branched", !.how = "certified"]
    /\ chained' = chained \cup {<<mdns.peer, q>>}
    /\ UNCHANGED <<entries, calls, cfgVars, discovered, cns, fetch>>

\* No valid certificate: queued for the operator; the rest is as for a known peer.
MdnsStranger ==
    /\ mdns.st = "checking"
    /\ mdns' = [mdns EXCEPT !.st = "branched"]
    /\ requests' = requests \cup {mdns.peer}
    /\ UNCHANGED <<regVars, cfg, disk, beat, approvals, unsaved, overlapped, discovered, cns, fetch>>

\* prev: the flags of the entry that Register is about to replace.
MdnsGet ==
    /\ mdns.st = "branched"
    /\ LET prev == entries[mdns.peer]
       IN  mdns' = [mdns EXCEPT !.st = "storing",
                                !.entry = [listed |-> TRUE,
                                           verified |-> mdns.how = "certified" \/ prev.verified,
                                           trusted |-> prev.trusted]]
    /\ UNCHANGED <<regVars, cfgVars, discovered, cns, fetch>>

\* Register, and a status fetch for a peer seen for the first time.
MdnsStore ==
    /\ mdns.st = "storing"
    /\ Register(mdns.peer, mdns.entry)
    /\ cns' = IF mdns.how = "certified" THEN cns \cup {mdns.peer} ELSE cns
    /\ fetch' = IF mdns.first
                  THEN [fetch EXCEPT ![mdns.peer] = [st |-> "fetching", entry |-> Zero]]
                  ELSE fetch
    /\ mdns' = IdleMdns
    /\ UNCHANGED <<calls, chained, cfgVars, discovered>>

\* fetchAndStorePeerStatus: the peer does not answer, or is not listed.
FetchFail(p) ==
    /\ fetch[p].st = "fetching"
    /\ fetch' = [fetch EXCEPT ![p] = IdleFetch]
    /\ UNCHANGED <<regVars, cfgVars, discovered, cns, mdns>>

FetchGet(p) ==
    /\ fetch[p].st = "fetching"
    /\ entries[p].listed
    /\ fetch' = [fetch EXCEPT ![p] = [st |-> "storing", entry |-> entries[p]]]
    /\ UNCHANGED <<regVars, cfgVars, discovered, cns, mdns>>

\* The whole entry is put back, with the status in it.
FetchStore(p) ==
    /\ fetch[p].st = "storing"
    /\ Register(p, fetch[p].entry)
    /\ fetch' = [fetch EXCEPT ![p] = IdleFetch]
    /\ UNCHANGED <<calls, chained, cfgVars, discovered, cns, mdns>>

-----------------------------------------------------------------------------

\* The process dies and starts again.  loadConfig falls back on its defaults if
\* node.json does not parse, and main then writes them out, because the default
\* node id is not the one its key pair gives.  trusted_nodes.json keeps the CNs.
Restart ==
    /\ cfg' = IF disk.form = "json" THEN disk.lines ELSE {}
    /\ disk' = [form |-> "json", lines |-> cfg'] /\ beat' = Loop(cfg')
    /\ unsaved' = {} /\ overlapped' = FALSE
    /\ entries' = [p \in Peers |-> Zero]
    /\ calls' = [h \in Calls |-> IdleCall]
    /\ requests' = {}
    /\ approvals' = [a \in Approvals |-> IdleApproval]
    /\ discovered' = {}
    /\ mdns' = IdleMdns
    /\ fetch' = [p \in Peers |-> IdleFetch]
    /\ chained' = {c \in chained : c[1] \in cns}
    /\ UNCHANGED cns

RegisterServe(h) == RegisterScan(h) \/ RegisterCarry(h) \/ RegisterStore(h)

VerifyPeer(h) ==
    \/ VerifyFail(h) \/ (\E q \in Enrolled : VerifyPass(h, q))
    \/ VerifyMark(h) \/ VerifyTrust(h)

RegisterCall(h) == (\E p \in Peers : RegisterBuild(h, p)) \/ RegisterServe(h) \/ VerifyPeer(h)

ApproveCall(a) ==
    \/ \E p \in Peers : ApproveTake(a, p)
    \/ ApproveConfig(a) \/ ApproveOpen(a) \/ ApproveOpenFails(a) \/ ApproveWrite(a) \/ ApproveMark(a)

MdnsProceeds ==
    \/ MdnsClassify \/ (\E q \in Enrolled : MdnsCertified(q)) \/ MdnsStranger
    \/ MdnsGet \/ MdnsStore

MdnsStep == (\E p \in Peers : MdnsSight(p)) \/ MdnsProceeds

FetchStep(p) == FetchFail(p) \/ FetchGet(p) \/ FetchStore(p)

Next ==
    \/ \E h \in Calls : RegisterCall(h)
    \/ \E a \in Approvals : ApproveCall(a)
    \/ BeatAck \/ BeatWrite
    \/ \E p \in Peers : Deregister(p) \/ TrustRequest(p) \/ TrustDeny(p) \/ FetchStep(p)
    \/ MdnsStep
    \/ Restart

Spec == Init /\ [][Next]_vars

\* Every peer sends its heartbeat every 60 s (startHeartbeatLoop) and gets a
\* goroutine for it, also if those of Calls are busy in between; the handlers and
\* the certificate fetches (5 s time-out) come to an end, as does a save.
Fairness ==
    /\ WF_vars(BeatWrite)
    /\ \A p \in Peers : SF_vars(\E h \in Calls : RegisterBuild(h, p))
    /\ \A h \in Calls : WF_vars(RegisterServe(h) \/ VerifyPeer(h))

FairSpec == Spec /\ Fairness

-----------------------------------------------------------------------------

\* The type of the registry, the config and the goroutines' locals.
TypeOK ==
    /\ entries \in [Peers -> Entry]
    /\ calls \in [Calls -> [st : CallState, peer : Peers \cup {None}, entry : Entry]]
    /\ \A h \in Calls : calls[h].st # "idle" => calls[h].peer \in Peers
    /\ cfg \subseteq Lines /\ unsaved \subseteq Lines /\ overlapped \in BOOLEAN
    /\ disk \in [form : {"empty", "garbage", "json"}, lines : SUBSET Lines]
    /\ beat \in {"off", "idle", "opened"}
    /\ requests \subseteq Peers
    /\ approvals \in [Approvals -> [st : ApprovalState, peer : Peers \cup {None},
                                    snap : SUBSET Lines]]
    /\ \A a \in Approvals : approvals[a].st # "idle" => approvals[a].peer \in Peers
    /\ discovered \subseteq Peers /\ cns \subseteq Peers
    /\ mdns \in [st : MdnsState, peer : Peers \cup {None}, how : MdnsBranch,
                 first : BOOLEAN, entry : Entry]
    /\ mdns.st # "idle" => mdns.peer \in Peers
    /\ fetch \in [Peers -> [st : FetchState, entry : Entry]]
    /\ chained \subseteq Peers \X Enrolled

\* The peers at whose URL a certificate that verifies has been found.
Vouched == {p \in Peers : \E q \in Enrolled : <<p, q>> \in chained}

\* "Inbound trust remains gated" (mdns.go): whichever goroutines overwrite each
\* other's entries, the registry calls a peer trusted only if the operator has
\* approved it or a certificate fetched from the URL given for it was verified, and
\* calls it verified, or persists its CN, only on the strength of the latter.  The
\* certificate may be that of another node which answers at the URL: the code asks
\* for no more.
TrustGrounded ==
    /\ \A p \in Peers :
           /\ entries[p].trusted => p \in cfg \cup Vouched
           /\ entries[p].verified => p \in Vouched
    /\ cns \subseteq Vouched

\* /trust-approve "adds node to cfg.PeerNodes and saves config" (handlers.go), and
\* the heartbeat saves trust_approved: when no save is under way, node.json holds all
\* of that, so that a restart keeps it, but for what could not be saved since the
\* last save that did not fail.  This is so until two saves overlap, of approvals or
\* of an approval and the heartbeat: then the older snapshot may be written last,
\* alone or with the end of the longer one behind it.
ApprovalsSaved ==
    ~overlapped /\ Unlocked /\ (\A a \in Approvals : ~Saving(a))
        => /\ disk.form = "json" /\ disk.lines \subseteq cfg
           /\ cfg \ unsaved \subseteq disk.lines

\* Unless the daemon restarts again and again, an approval reaches the registry, also
\* when the peer's heartbeats race with it, an older entry is put back over it, or
\* the peer was not listed: a later heartbeat of the peer finds it in cfg.PeerNodes.
ApprovalReachesRegistry ==
    (<>[][~Restart]_vars) =>
        \A p \in Peers : p \in cfg ~> p \notin cfg \/ entries[p].trusted

=============================================================================
