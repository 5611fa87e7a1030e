--------------------------- MODULE PeerTrustProofs ---------------------------
(***************************************************************************)
(* The registry never trusts a peer without grounds, for any number of     *)
(* peers, of concurrent handlers and of restarts.  The invariant has to    *)
(* speak of the copies of entries that goroutines hold while others write. *)
(***************************************************************************)
EXTENDS PeerTrust, TLAPS

\* An entry, listed or in a goroutine's hands, that p may have.
Grounded(e, p) ==
    /\ e.trusted => p \in cfg \cup Vouched
    /\ e.verified => p \in Vouched

\* Every copy of an entry is grounded, and so is what is still to be marked.
CopiesGrounded ==
    /\ \A p \in Peers : Grounded(entries[p], p) /\ Grounded(fetch[p].entry, p)
    /\ \A h \in Calls : /\ Grounded(calls[h].entry, calls[h].peer)
                        /\ calls[h].st \in {"verified", "marked"} => calls[h].peer \in Vouched
    /\ \A a \in Approvals :
           approvals[a].st \in {"saving", "opened", "marking"} => approvals[a].peer \in cfg
    /\ Grounded(mdns.entry, mdns.peer)
    /\ mdns.how = "certified" => mdns.peer \in Vouched
    /\ cns \subseteq Vouched

TIInv == TypeOK /\ CopiesGrounded

LEMMA VouchedSame == ASSUME UNCHANGED chained PROVE Vouched' = Vouched
  BY DEF Vouched

LEMMA InitTIInv == Init => TIInv
<1> SUFFICES ASSUME Init PROVE TIInv
  OBVIOUS
<1> USE DEF Init, Entry, Zero, IdleCall, IdleApproval, IdleMdns, IdleFetch
<1>1. cfg \subseteq Lines /\ disk \in [form : {"empty", "garbage", "json"}, lines : SUBSET Lines]
  BY DEF Lines
<1>2. beat \in {"off", "idle", "opened"}
  BY DEF Loop
<1>3. TypeOK
  BY <1>1, <1>2, TrustAssumption
     DEF TypeOK, CallState, ApprovalState, MdnsState, MdnsBranch, FetchState
<1>4. CopiesGrounded
  BY DEF CopiesGrounded, Grounded
<1>5. QED
  BY <1>3, <1>4 DEF TIInv

\* SetTrustApproved touches one flag of one entry.
LEMMA SetTrustApprovedKeeps ==
    ASSUME entries \in [Peers -> Entry], NEW p \in Peers, SetTrustApproved(p)
    PROVE  /\ entries' \in [Peers -> Entry]
           /\ \A q \in Peers : q # p => entries'[q] = entries[q]
           /\ entries'[p].verified = entries[p].verified
<1> DEFINE flag == entries[p].trusted \/ entries[p].listed
<1>1. entries' = [entries EXCEPT ![p] = [@ EXCEPT !.trusted = flag]]
  BY DEF SetTrustApproved
<1>2. entries[p] \in Entry /\ flag \in BOOLEAN
  BY DEF Entry
<1> HIDE DEF flag
<1>3. [entries[p] EXCEPT !.trusted = flag] \in Entry
  BY <1>2 DEF Entry
<1>4. QED
  BY <1>1, <1>2, <1>3 DEF Entry

\* A step of one /register goroutine that may raise grounded flags elsewhere.
LEMMA CallMoves ==
    ASSUME TIInv, NEW h \in Calls,
           UNCHANGED <<cfgVars, mdnsVars>>,
           entries' \in [Peers -> Entry],
           Vouched \subseteq Vouched', chained' \subseteq Peers \X Enrolled,
           calls' = [calls EXCEPT ![h] = calls'[h]],
           calls'[h].st \in CallState, calls'[h].peer \in Peers \cup {None},
           calls'[h].entry \in Entry,
           calls'[h] = [st |-> calls'[h].st, peer |-> calls'[h].peer, entry |-> calls'[h].entry],
           calls'[h].st # "idle" => calls'[h].peer \in Peers,
           \A p \in Peers : /\ entries'[p].trusted => p \in cfg \cup Vouched'
                            /\ entries'[p].verified => p \in Vouched',
           calls'[h].entry.trusted => calls'[h].peer \in cfg \cup Vouched',
           calls'[h].entry.verified => calls'[h].peer \in Vouched',
           calls'[h].st \in {"verified", "marked"} => calls'[h].peer \in Vouched'
    PROVE  TIInv'
<1>1. \A g \in Calls : g # h => calls'[g] = calls[g]
  BY DEF TIInv, TypeOK
<1>2. calls' \in [Calls -> [st : CallState, peer : Peers \cup {None}, entry : Entry]]
  <2>1. calls'[h] \in [st : CallState, peer : Peers \cup {None}, entry : Entry]
    OBVIOUS
  <2>2. calls \in [Calls -> [st : CallState, peer : Peers \cup {None}, entry : Entry]]
    BY DEF TIInv, TypeOK
  <2>3. QED
    BY <2>1, <2>2
<1>3. TypeOK'
  BY <1>1, <1>2 DEF TIInv, TypeOK, cfgVars, mdnsVars
<1>4. CopiesGrounded'
  BY <1>1 DEF TIInv, CopiesGrounded, Grounded, cfgVars, mdnsVars
<1>5. QED
  BY <1>3, <1>4 DEF TIInv

LEMMA CallTIInv ==
    ASSUME TIInv, NEW h \in Calls, RegisterCall(h)
    PROVE  TIInv'
<1>0. /\ calls \in [Calls -> [st : CallState, peer : Peers \cup {None}, entry : Entry]]
      /\ calls[h].st # "idle" => calls[h].peer \in Peers
      /\ entries \in [Peers -> Entry]
      /\ chained \subseteq Peers \X Enrolled
      /\ \A p \in Peers : Grounded(entries[p], p)
      /\ Grounded(calls[h].entry, calls[h].peer)
      /\ calls[h].st \in {"verified", "marked"} => calls[h].peer \in Vouched
  BY DEF TIInv, TypeOK, CopiesGrounded
<1> DEFINE now == calls'[h]
<1>1. ASSUME NEW p \in Peers, RegisterBuild(h, p) PROVE TIInv'
  <2>1. now = [st |-> "built", peer |-> p, entry |-> Fresh]
    BY <1>0, <1>1 DEF RegisterBuild
  <2>2. QED
    BY <1>0, <1>1, <2>1, CallMoves, VouchedSame DEF RegisterBuild, Fresh, Entry, CallState, Grounded
<1>2. CASE RegisterScan(h)
  <2>1. now = [st |-> "scanned", peer |-> calls[h].peer,
               entry |-> [listed |-> TRUE, verified |-> FALSE,
                          trusted |-> calls[h].peer \in cfg]]
    BY <1>0, <1>2 DEF RegisterScan, Fresh
  <2>2. /\ calls[h].peer \in Peers
        /\ calls' = [calls EXCEPT ![h] = now]
        /\ UNCHANGED <<entries, chained, cfgVars, mdnsVars>>
    BY <1>0, <1>2, <2>1 DEF RegisterScan
  <2> DEFINE listed == calls[h].peer \in cfg
             scanned == [listed |-> TRUE, verified |-> FALSE, trusted |-> listed]
  <2>a. /\ now.st = "scanned" /\ now.peer = calls[h].peer /\ now.entry = scanned
    BY <2>1
  <2>b. scanned \in Entry
    <3>1. listed \in BOOLEAN
      OBVIOUS
    <3> HIDE DEF listed
    <3>2. QED
      BY <3>1 DEF Entry
  <2>c. scanned.trusted => listed
    <3> HIDE DEF listed
    <3>1. QED
      OBVIOUS
  <2>d. ~scanned.verified
    <3> HIDE DEF listed
    <3>1. QED
      OBVIOUS
  <2> HIDE DEF scanned
  <2>3. /\ now.st = "scanned" /\ now.peer = calls[h].peer /\ now.entry \in Entry
        /\ now.entry.trusted => now.peer \in cfg
        /\ ~now.entry.verified
    BY <2>a, <2>b, <2>c, <2>d
  <2>4. now.st \in CallState
    BY <2>3 DEF CallState
  <2>5. QED
    BY <1>0, <2>1, <2>2, <2>3, <2>4, CallMoves, VouchedSame DEF Grounded
<1>3. CASE RegisterCarry(h)
  <2>1. now = [st |-> "carried", peer |-> calls[h].peer,
               entry |-> [listed |-> TRUE, verified |-> entries[calls[h].peer].verified,
                          trusted |-> calls[h].entry.trusted \/ entries[calls[h].peer].trusted]]
    BY <1>0, <1>3 DEF RegisterCarry
  <2>2. calls[h].peer \in Peers
    BY <1>0, <1>3 DEF RegisterCarry
  <2>3. now.entry \in Entry
    BY <1>0, <2>1, <2>2 DEF Entry
  <2>4. /\ calls' = [calls EXCEPT ![h] = now]
        /\ UNCHANGED <<entries, chained, cfgVars, mdnsVars>>
    BY <1>0, <1>3, <2>1 DEF RegisterCarry
  <2> DEFINE theirs == entries[calls[h].peer].verified
             either == calls[h].entry.trusted \/ entries[calls[h].peer].trusted
  <2>a. now.st = "carried" /\ now.peer = calls[h].peer
    BY <2>1
  <2>b. now.entry = [listed |-> TRUE, verified |-> theirs, trusted |-> either]
    BY <2>1
  <2>c. now.entry.trusted = either /\ now.entry.verified = theirs
    <3> HIDE DEF theirs, either
    <3>1. QED
      BY <2>b
  <2>d. now.entry.trusted => calls[h].peer \in cfg \cup Vouched
    BY <1>0, <2>2, <2>c DEF Grounded
  <2>e. now.entry.verified => calls[h].peer \in Vouched
    BY <1>0, <2>2, <2>c DEF Grounded
  <2>5. /\ now.st = "carried" /\ now.st \in CallState /\ now.peer = calls[h].peer
        /\ now.entry.trusted => now.peer \in cfg \cup Vouched
        /\ now.entry.verified => now.peer \in Vouched
    BY <2>a, <2>d, <2>e DEF CallState
  <2>6. QED
    BY <1>0, <2>1, <2>2, <2>3, <2>4, <2>5, CallMoves, VouchedSame DEF Grounded
<1>4. CASE RegisterStore(h)
  <2>1. now = [st |-> "fetching", peer |-> calls[h].peer, entry |-> Zero]
    BY <1>0, <1>4 DEF RegisterStore
  <2>2. QED
    BY <1>0, <1>4, <2>1, CallMoves, VouchedSame DEF RegisterStore, Register, Zero, Entry, CallState, Grounded
<1>5. CASE VerifyFail(h)
  <2>1. now = [st |-> "idle", peer |-> None, entry |-> Zero]
    BY <1>0, <1>5 DEF VerifyFail, IdleCall
  <2>2. QED
    BY <1>0, <1>5, <2>1, CallMoves, VouchedSame DEF VerifyFail, IdleCall, Zero, Entry, CallState, Grounded
<1>6. ASSUME NEW q \in Enrolled, VerifyPass(h, q) PROVE TIInv'
  <2>1. now = [st |-> "verified", peer |-> calls[h].peer, entry |-> calls[h].entry]
    BY <1>0, <1>6 DEF VerifyPass
  <2>2. /\ chained' = chained \cup {<<calls[h].peer, q>>} /\ calls[h].peer \in Peers
        /\ calls' = [calls EXCEPT ![h] = now]
        /\ UNCHANGED <<entries, cfgVars, mdnsVars>>
    BY <1>0, <1>6, <2>1 DEF VerifyPass
  <2>3. /\ Vouched \subseteq Vouched' /\ calls[h].peer \in Vouched'
        /\ chained' \subseteq Peers \X Enrolled
    BY <1>0, <1>6, <2>2 DEF Vouched
  <2>4. QED
    BY <1>0, <2>1, <2>2, <2>3, CallMoves DEF CallState, Grounded
<1>7. CASE VerifyMark(h)
  <2>1. now = [st |-> "marked", peer |-> calls[h].peer, entry |-> calls[h].entry]
    BY <1>0, <1>7 DEF VerifyMark
  <2>2. /\ calls' = [calls EXCEPT ![h] = now]
        /\ UNCHANGED <<chained, cfgVars, mdnsVars>>
        /\ calls[h].peer \in Peers /\ calls[h].peer \in Vouched
    BY <1>0, <1>7, <2>1 DEF VerifyMark
  <2>3. /\ entries' \in [Peers -> Entry]
        /\ \A p \in Peers : p # calls[h].peer => entries'[p] = entries[p]
        /\ entries'[calls[h].peer].trusted = entries[calls[h].peer].trusted
    BY <1>0, <1>7, <2>2 DEF VerifyMark, SetCertVerified, Entry
  <2>4. \A p \in Peers : /\ entries'[p].trusted => p \in cfg \cup Vouched'
                         /\ entries'[p].verified => p \in Vouched'
    BY <1>0, <2>2, <2>3, VouchedSame DEF Grounded
  <2>5. QED
    BY <1>0, <2>1, <2>2, <2>3, <2>4, CallMoves, VouchedSame DEF Zero, Entry, CallState, Grounded
<1>8. CASE VerifyTrust(h)
  <2>1. now = [st |-> "idle", peer |-> None, entry |-> Zero]
    BY <1>0, <1>8 DEF VerifyTrust, IdleCall
  <2>2. /\ calls' = [calls EXCEPT ![h] = now]
        /\ UNCHANGED <<chained, cfgVars, mdnsVars>>
        /\ calls[h].peer \in Peers /\ calls[h].peer \in Vouched
    BY <1>0, <1>8, <2>1 DEF VerifyTrust, IdleCall
  <2>3. /\ entries' \in [Peers -> Entry]
        /\ \A p \in Peers : p # calls[h].peer => entries'[p] = entries[p]
        /\ entries'[calls[h].peer].verified = entries[calls[h].peer].verified
    BY <1>0, <1>8, <2>2, SetTrustApprovedKeeps DEF VerifyTrust
  <2>4. \A p \in Peers : /\ entries'[p].trusted => p \in cfg \cup Vouched'
                         /\ entries'[p].verified => p \in Vouched'
    BY <1>0, <2>2, <2>3, VouchedSame DEF Grounded
  <2>5. /\ now.st = "idle" /\ now.peer = None /\ now.entry = Zero
        /\ Zero \in Entry /\ ~Zero.trusted /\ ~Zero.verified /\ now.st \in CallState
        /\ now = [st |-> now.st, peer |-> now.peer, entry |-> now.entry]
    BY <2>1 DEF Zero, Entry, CallState
  <2>6. QED
    BY <1>0, <2>2, <2>3, <2>4, <2>5, CallMoves, VouchedSame
<1>9. QED
  BY <1>1, <1>2, <1>3, <1>4, <1>5, <1>6, <1>7, <1>8
     DEF RegisterCall, RegisterServe, VerifyPeer

LEMMA WriteFileType ==
    ASSUME TIInv, NEW lines, lines \subseteq Lines, WriteFile(lines)
    PROVE  disk' \in [form : {"empty", "garbage", "json"}, lines : SUBSET Lines]
<1>1. disk.lines \subseteq Lines
  BY DEF TIInv, TypeOK
<1>2. PICK form \in {"json", "garbage"} : disk' = [form |-> form, lines |-> disk.lines \cup lines]
  BY DEF WriteFile
<1>3. QED
  BY <1>1, <1>2

\* The end of a save, done or not.
LEMMA ApprovalMarking ==
    ASSUME TIInv, NEW a \in Approvals, approvals[a].st \in {"saving", "opened"},
           approvals' = [approvals EXCEPT ![a] = [approvals[a] EXCEPT !.st = "marking", !.snap = {}]],
           unsaved' \subseteq Lines,
           disk' \in [form : {"empty", "garbage", "json"}, lines : SUBSET Lines],
           UNCHANGED <<cfg, beat, requests, overlapped, entries, calls, chained, discovered, cns,
                       mdns, fetch>>
    PROVE  TIInv'
<1>1. approvals \in [Approvals -> [st : ApprovalState, peer : Peers \cup {None}, snap : SUBSET Lines]]
  BY DEF TIInv, TypeOK
<1>2. /\ approvals'[a].st = "marking" /\ approvals'[a].peer = approvals[a].peer
      /\ approvals'[a].snap = {}
      /\ \A b \in Approvals : b # a => approvals'[b] = approvals[b]
      /\ approvals' \in [Approvals -> [st : ApprovalState, peer : Peers \cup {None}, snap : SUBSET Lines]]
  BY <1>1 DEF ApprovalState
<1>3. TypeOK'
  BY <1>2 DEF TIInv, TypeOK
<1>4. CopiesGrounded'
  BY <1>2, VouchedSame DEF TIInv, CopiesGrounded, Grounded
<1>5. QED
  BY <1>3, <1>4 DEF TIInv

LEMMA ApproveTIInv ==
    ASSUME TIInv, NEW a \in Approvals, ApproveCall(a)
    PROVE  TIInv'
<1> USE VouchedSame DEF TIInv, TypeOK, CopiesGrounded, Grounded, Entry, ApprovalState,
            regVars, mdnsVars, IdleApproval
<1>1. ASSUME NEW p \in Peers, ApproveTake(a, p) PROVE TIInv'
  <2>1. /\ approvals'[a] = [st |-> "taken", peer |-> p, snap |-> {}]
        /\ \A b \in Approvals : b # a => approvals'[b] = approvals[b]
        /\ approvals' \in [Approvals -> [st : ApprovalState, peer : Peers \cup {None},
                                        snap : SUBSET Lines]]
    BY <1>1 DEF ApproveTake
  <2>2. QED
    BY <1>1, <2>1 DEF ApproveTake
<1>2. CASE ApproveConfig(a)
  <2>1. /\ approvals'[a] = [st |-> "saving", peer |-> approvals[a].peer, snap |-> cfg']
        /\ approvals[a].peer \in Peers
        /\ cfg' = cfg \cup {approvals[a].peer}
        /\ \A b \in Approvals : b # a => approvals'[b] = approvals[b]
    BY <1>2 DEF ApproveConfig
  <2>b. cfg' \subseteq Lines
    BY <2>1 DEF Lines
  <2>2. approvals' \in [Approvals -> [st : ApprovalState, peer : Peers \cup {None},
                                     snap : SUBSET Lines]]
    BY <1>2, <2>1, <2>b DEF ApproveConfig
  <2>3. UNCHANGED <<disk, beat, requests, unsaved, entries, calls, chained, discovered, cns,
                    mdns, fetch>>
    BY <1>2 DEF ApproveConfig
  <2>a. overlapped' \in BOOLEAN
    BY <1>2 DEF ApproveConfig
  <2>4. TypeOK'
    BY <2>a, <2>b, <2>1, <2>2, <2>3
  <2>5. CopiesGrounded'
    <3>1. \A p \in Peers : Grounded(entries[p], p)' /\ Grounded(fetch[p].entry, p)'
      BY <2>1, <2>3
    <3>2. \A h \in Calls :
              /\ Grounded(calls[h].entry, calls[h].peer)'
              /\ calls'[h].st \in {"verified", "marked"} => calls'[h].peer \in Vouched'
      BY <2>1, <2>3
    <3>3. \A b \in Approvals :
              approvals'[b].st \in {"saving", "opened", "marking"} => approvals'[b].peer \in cfg'
      <4>1. TAKE b \in Approvals
      <4>2. CASE b = a
        BY <2>1, <4>2
      <4>3. CASE b # a
        BY <2>1, <4>3
      <4>4. QED
        BY <4>2, <4>3
    <3>4. /\ Grounded(mdns.entry, mdns.peer)'
          /\ mdns'.how = "certified" => mdns'.peer \in Vouched'
          /\ cns' \subseteq Vouched'
      BY <2>1, <2>3
    <3>5. QED
      BY <3>1, <3>2, <3>3, <3>4
  <2>6. QED
    BY <2>4, <2>5
<1>3. CASE ApproveOpen(a)
  <2>1. /\ approvals[a].st = "saving"
        /\ approvals'[a] = [st |-> "opened", peer |-> approvals[a].peer, snap |-> approvals[a].snap]
        /\ \A b \in Approvals : b # a => approvals'[b] = approvals[b]
        /\ disk' = [form |-> "empty", lines |-> {}]
        /\ UNCHANGED <<cfg, beat, requests, unsaved, overlapped, entries, calls, chained, discovered,
                       cns, mdns, fetch>>
    BY <1>3 DEF ApproveOpen
  <2>a. /\ approvals[a].peer \in Peers
        /\ approvals'[a] \in [st : ApprovalState, peer : Peers \cup {None}, snap : SUBSET Lines]
        /\ approvals' = [approvals EXCEPT ![a] = approvals'[a]]
    BY <1>3, <2>1 DEF ApproveOpen
  <2>2. approvals' \in [Approvals -> [st : ApprovalState, peer : Peers \cup {None},
                                     snap : SUBSET Lines]]
    <3>1. approvals \in [Approvals -> [st : ApprovalState, peer : Peers \cup {None},
                                       snap : SUBSET Lines]]
      OBVIOUS
    <3> QED
      BY ONLY <2>a, <3>1
  <2>3. disk' \in [form : {"empty", "garbage", "json"}, lines : SUBSET Lines]
    BY <2>1
  <2>b. \A b \in Approvals : approvals'[b].st # "idle" => approvals'[b].peer \in Peers
    <3>1. \A b \in Approvals : approvals[b].st # "idle" => approvals[b].peer \in Peers
      OBVIOUS
    <3>2. approvals'[a].peer \in Peers
      BY <2>1, <2>a
    <3>3. \A b \in Approvals : b # a => approvals'[b] = approvals[b]
      BY <2>1
    <3> QED
      BY ONLY <3>1, <3>2, <3>3
  <2>4. TypeOK'
    BY <2>1, <2>2, <2>3, <2>b
  <2>5. CopiesGrounded'
    <3>1. \A b \in Approvals : b # a => approvals'[b] = approvals[b]
      BY <2>1
    <3>2. \A b \in Approvals :
              approvals'[b].st \in {"saving", "opened", "marking"} => approvals'[b].peer \in cfg'
      BY <2>1, <3>1
    <3>3. UNCHANGED <<cfg, entries, calls, chained, cns, mdns, fetch>>
      BY <2>1
    <3>4. QED
      BY <3>2, <3>3
  <2>6. QED
    BY <2>4, <2>5
<1>7. CASE ApproveOpenFails(a)
  <2>1. /\ approvals[a].st = "saving" /\ approvals[a].peer \in Peers
        /\ approvals' = [approvals EXCEPT ![a] = [approvals[a] EXCEPT !.st = "marking", !.snap = {}]]
        /\ unsaved' = unsaved \cup {approvals[a].peer} /\ unsaved' \subseteq Lines
        /\ UNCHANGED <<disk, cfg, beat, requests, overlapped, entries, calls, chained, discovered,
                       cns, mdns, fetch>>
    BY <1>7 DEF ApproveOpenFails, Lines
  <2>2. QED
    BY <2>1, ApprovalMarking
<1>4. CASE ApproveWrite(a)
  <2>1. /\ approvals[a].st = "opened" /\ approvals[a].peer \in Peers
        /\ approvals' = [approvals EXCEPT ![a] = [approvals[a] EXCEPT !.st = "marking", !.snap = {}]]
        /\ unsaved' = {} /\ WriteFile(approvals[a].snap)
        /\ approvals[a].snap \subseteq Lines
        /\ UNCHANGED <<cfg, beat, requests, overlapped, entries, calls, chained, discovered, cns,
                       mdns, fetch>>
    BY <1>4 DEF ApproveWrite
  <2>2. disk' \in [form : {"empty", "garbage", "json"}, lines : SUBSET Lines]
    BY <2>1, WriteFileType
  <2>3. QED
    BY <2>1, <2>2, ApprovalMarking
<1>5. CASE ApproveMark(a)
  <2> DEFINE p == approvals[a].peer
  <2>1. /\ p \in Peers /\ p \in cfg
        /\ approvals' = [approvals EXCEPT ![a] = [st |-> "idle", peer |-> None, snap |-> {}]]
        /\ UNCHANGED <<calls, chained, cfg, disk, beat, requests, unsaved, overlapped, discovered, cns,
                       mdns, fetch>>
    BY <1>5 DEF ApproveMark
  <2>2. /\ entries' \in [Peers -> Entry]
        /\ \A q \in Peers : q # p => entries'[q] = entries[q]
        /\ entries'[p].verified = entries[p].verified
    BY <1>5, <2>1, SetTrustApprovedKeeps DEF ApproveMark
  <2>3. TypeOK'
    BY <2>1, <2>2
  <2>4. \A q \in Peers : Grounded(entries[q], q)'
    BY <2>1, <2>2
  <2>5. CopiesGrounded'
    BY <2>1, <2>4
  <2>6. QED
    BY <2>3, <2>5
<1>6. QED
  BY <1>1, <1>2, <1>3, <1>4, <1>5, <1>7 DEF ApproveCall

LEMMA BeatTIInv ==
    ASSUME TIInv, BeatAck \/ BeatWrite
    PROVE  TIInv'
<1>1. /\ UNCHANGED <<requests, approvals, entries, calls, chained, discovered, cns, mdns, fetch>>
      /\ overlapped' \in BOOLEAN /\ beat' \in {"off", "idle", "opened"}
      /\ cfg \subseteq cfg' /\ cfg' \subseteq Lines /\ unsaved' \subseteq Lines
  BY DEF BeatAck, BeatWrite, TIInv, TypeOK, regVars, mdnsVars, Lines
<1>2. disk' \in [form : {"empty", "garbage", "json"}, lines : SUBSET Lines]
  <2>1. CASE BeatAck
    BY <2>1 DEF BeatAck, TIInv, TypeOK
  <2>2. CASE BeatWrite
    BY <2>2, WriteFileType DEF BeatWrite, TIInv, TypeOK
  <2>3. QED
    BY <2>1, <2>2
<1>3. TypeOK'
  BY <1>1, <1>2 DEF TIInv, TypeOK
<1>4. CopiesGrounded'
  BY <1>1, VouchedSame DEF TIInv, CopiesGrounded, Grounded
<1>5. QED
  BY <1>3, <1>4 DEF TIInv

LEMMA MdnsTIInv ==
    ASSUME TIInv, MdnsStep
    PROVE  TIInv'
<1> USE VouchedSame DEF TIInv, TypeOK, CopiesGrounded, Grounded, Entry, Zero, MdnsState, MdnsBranch,
            FetchState, regVars, cfgVars, IdleMdns
<1>1. ASSUME NEW p \in Peers, MdnsSight(p) PROVE TIInv'
  <2>1. mdns' = [st |-> "sighted", peer |-> p, how |-> "plain", first |-> p \notin discovered,
                 entry |-> [listed |-> FALSE, verified |-> FALSE, trusted |-> FALSE]]
    BY <1>1 DEF MdnsSight
  <2>2. UNCHANGED <<entries, calls, chained, cfg, disk, beat, requests, approvals, unsaved, overlapped, cns,
                    fetch>> /\ discovered' \subseteq Peers
    BY <1>1 DEF MdnsSight
  <2>3. TypeOK'
    BY <2>1, <2>2
  <2>4. CopiesGrounded'
    BY <2>1, <2>2
  <2>5. QED
    BY <2>3, <2>4
<1>2. CASE MdnsClassify
  <2>1. /\ mdns'.st \in {"branched", "checking"} /\ mdns'.how = mdns.how
        /\ mdns'.peer = mdns.peer /\ mdns'.first = mdns.first /\ mdns'.entry = mdns.entry
        /\ mdns' = [st |-> mdns'.st, peer |-> mdns.peer, how |-> mdns.how,
                    first |-> mdns.first, entry |-> mdns.entry]
    BY <1>2 DEF MdnsClassify
  <2>2. TypeOK'
    BY <1>2, <2>1 DEF MdnsClassify
  <2>3. CopiesGrounded'
    <3>1. UNCHANGED <<entries, calls, chained, cfg, approvals, cns, fetch>>
      BY <1>2 DEF MdnsClassify
    <3>2. QED
      BY <2>1, <3>1
  <2>4. QED
    BY <2>2, <2>3
<1>3. ASSUME NEW q \in Enrolled, MdnsCertified(q) PROVE TIInv'
  <2>1. /\ mdns.peer \in Peers /\ chained' = chained \cup {<<mdns.peer, q>>}
        /\ mdns' = [mdns EXCEPT !.st = "branched", !.how = "certified"]
        /\ UNCHANGED <<entries, calls, cfg, disk, beat, requests, approvals, unsaved, overlapped,
                       discovered, cns, fetch>>
    BY <1>3 DEF MdnsCertified
  <2>2. /\ Vouched \subseteq Vouched' /\ mdns.peer \in Vouched'
        /\ chained' \subseteq Peers \X Enrolled
    BY <1>3, <2>1 DEF Vouched
  <2>3. TypeOK'
    BY <2>1, <2>2
  <2>4. CopiesGrounded'
    BY <2>1, <2>2
  <2>5. QED
    BY <2>3, <2>4
<1>4. CASE MdnsStranger
  BY <1>4 DEF MdnsStranger
<1>5. CASE MdnsGet
  BY <1>5 DEF MdnsGet
<1>6. CASE MdnsStore
  BY <1>6 DEF MdnsStore, Register
<1>7. QED
  BY <1>1, <1>2, <1>3, <1>4, <1>5, <1>6 DEF MdnsStep, MdnsProceeds

LEMMA PeerTIInv ==
    ASSUME TIInv, NEW p \in Peers,
           Deregister(p) \/ TrustRequest(p) \/ TrustDeny(p) \/ FetchStep(p)
    PROVE  TIInv'
<1> USE VouchedSame DEF TIInv, TypeOK, CopiesGrounded, Grounded, Entry, Zero, FetchState,
            regVars, cfgVars, mdnsVars, IdleFetch
<1>1. CASE Deregister(p)
  BY <1>1 DEF Deregister, Remove
<1>2. CASE TrustRequest(p) \/ TrustDeny(p)
  BY <1>2 DEF TrustRequest, TrustDeny
<1>3. CASE FetchFail(p)
  BY <1>3 DEF FetchFail
<1>4. CASE FetchGet(p)
  BY <1>4 DEF FetchGet
<1>5. CASE FetchStore(p)
  BY <1>5 DEF FetchStore, Register
<1>6. QED
  BY <1>1, <1>2, <1>3, <1>4, <1>5 DEF FetchStep

LEMMA TIInvariance == Spec => []TIInv
<1>1. TIInv /\ [Next]_vars => TIInv'
  <2> SUFFICES ASSUME TIInv, [Next]_vars PROVE TIInv'
    OBVIOUS
  <2>1. CASE Restart
    <3> USE DEF Restart, Entry, Zero, IdleCall, IdleApproval, IdleMdns, IdleFetch
    <3>1. cfg' \subseteq Lines /\ disk' \in [form : {"empty", "garbage", "json"}, lines : SUBSET Lines]
      BY <2>1 DEF TIInv, TypeOK
    <3>2. beat' \in {"off", "idle", "opened"}
      BY <2>1 DEF Loop
    <3>3. /\ chained' \subseteq Peers \X Enrolled
          /\ cns' = cns /\ cns' \subseteq Vouched'
      BY <2>1 DEF TIInv, TypeOK, CopiesGrounded, Vouched
    <3>4. TypeOK'
      BY <2>1, <3>1, <3>2, <3>3, TrustAssumption
         DEF TIInv, TypeOK, CallState, ApprovalState, MdnsState, MdnsBranch, FetchState
    <3>5. CopiesGrounded'
      BY <2>1, <3>3 DEF CopiesGrounded, Grounded
    <3>6. QED
      BY <3>4, <3>5 DEF TIInv
  <2>2. CASE UNCHANGED vars
    BY <2>2, VouchedSame DEF vars, regVars, cfgVars, mdnsVars, TIInv, TypeOK, CopiesGrounded, Grounded
  <2>3. QED
    BY <2>1, <2>2, CallTIInv, ApproveTIInv, BeatTIInv, MdnsTIInv, PeerTIInv DEF Next
<1>2. QED
  BY <1>1, InitTIInv, PTL DEF Spec

\* The registry, the config and the goroutines' locals keep their types.
THEOREM TrustTypeCorrect == Spec => []TypeOK
<1>1. TIInv => TypeOK
  BY DEF TIInv
<1>2. QED
  BY <1>1, TIInvariance, PTL

\* No interleaving of handlers, discovery and restarts lets the registry trust a
\* peer that the operator has not approved and at whose URL no certificate was verified.
THEOREM TrustHasGrounds == Spec => []TrustGrounded
<1>1. TIInv => TrustGrounded
  BY DEF TIInv, CopiesGrounded, Grounded, TrustGrounded
<1>2. QED
  BY <1>1, TIInvariance, PTL


-----------------------------------------------------------------------------
(* node.json and its two writers *)

\* As long as no two saves have overlapped, one at most is under way; what it is about
\* to write, or has opened the file for, is the config as it is.  Until an approval's
\* save opens the file, that lacks only this approval and what could not be saved.
OneSave ==
    /\ \A a, b \in Approvals : Saving(a) /\ Saving(b) => a = b
    /\ ~Unlocked => (\A a \in Approvals : ~Saving(a)) /\ disk = [form |-> "empty", lines |-> {}]
    /\ \A a \in Approvals :
           /\ Saving(a) => approvals[a].snap = cfg
           /\ approvals[a].st = "saving" =>
                  /\ disk.form = "json" /\ disk.lines \subseteq cfg
                  /\ cfg \ (unsaved \cup {approvals[a].peer}) \subseteq disk.lines
           /\ approvals[a].st = "opened" => disk = [form |-> "empty", lines |-> {}]

Saves == (~overlapped => OneSave) /\ ApprovalsSaved

\* Whatever leaves the config, its file and the saves alone.
LEMMA SavesKept ==
    ASSUME Saves, UNCHANGED <<cfg, disk, beat, approvals, unsaved, overlapped>>
    PROVE  Saves'
BY DEF Saves, OneSave, ApprovalsSaved, Saving, Unlocked

\* Over an empty file the text written is what is there.
LEMMA WriteOverEmpty ==
    ASSUME NEW lines, disk = [form |-> "empty", lines |-> {}], WriteFile(lines)
    PROVE  disk' = [form |-> "json", lines |-> lines]
BY DEF WriteFile

LEMMA ApproveSaves ==
    ASSUME TypeOK, Saves, NEW a \in Approvals, ApproveCall(a)
    PROVE  Saves'
<1> USE DEF Saves, OneSave, ApprovalsSaved, Saving, Unlocked
<1>0. /\ approvals \in [Approvals -> [st : ApprovalState, peer : Peers \cup {None},
                                      snap : SUBSET Lines]]
      /\ overlapped \in BOOLEAN
  BY DEF TypeOK
<1>1. ASSUME NEW p \in Peers, ApproveTake(a, p) PROVE Saves'
  <2>1. /\ approvals'[a].st = "taken" /\ approvals[a].st = "idle"
        /\ \A b \in Approvals : b # a => approvals'[b] = approvals[b]
        /\ UNCHANGED <<cfg, disk, beat, unsaved, overlapped>>
    BY <1>0, <1>1 DEF ApproveTake
  <2>2. QED
    BY <1>0, <2>1
<1>2. CASE ApproveConfig(a)
  <2>1. /\ approvals[a].st = "taken" /\ approvals'[a].st = "saving" /\ Unlocked
        /\ approvals'[a].snap = cfg' /\ approvals'[a].peer = approvals[a].peer
        /\ \A b \in Approvals : b # a => approvals'[b] = approvals[b]
        /\ cfg' = cfg \cup {approvals[a].peer} /\ UNCHANGED <<disk, beat, unsaved>>
    BY <1>0, <1>2 DEF ApproveConfig
  <2>2. ~overlapped' => ~overlapped /\ \A b \in Approvals : ~Saving(b)
    BY <1>2 DEF ApproveConfig
  <2>3. QED
    BY <1>0, <2>1, <2>2
<1>3. CASE ApproveOpen(a)
  <2>1. /\ approvals[a].st = "saving" /\ approvals'[a].st = "opened"
        /\ approvals'[a].snap = approvals[a].snap
        /\ \A b \in Approvals : b # a => approvals'[b] = approvals[b]
        /\ disk' = [form |-> "empty", lines |-> {}] /\ UNCHANGED <<cfg, beat, overlapped>>
    BY <1>0, <1>3 DEF ApproveOpen
  <2>2. QED
    BY <1>0, <2>1
<1>4. CASE ApproveOpenFails(a)
  <2>1. /\ approvals[a].st = "saving" /\ approvals'[a].st = "marking"
        /\ \A b \in Approvals : b # a => approvals'[b] = approvals[b]
        /\ unsaved' = unsaved \cup {approvals[a].peer} /\ UNCHANGED <<cfg, disk, beat, overlapped>>
    BY <1>0, <1>4 DEF ApproveOpenFails
  <2>2. QED
    BY <1>0, <2>1
<1>5. CASE ApproveWrite(a)
  <2>1. /\ approvals[a].st = "opened" /\ approvals'[a].st = "marking"
        /\ \A b \in Approvals : b # a => approvals'[b] = approvals[b]
        /\ UNCHANGED <<cfg, beat, overlapped>> /\ WriteFile(approvals[a].snap)
    BY <1>0, <1>5 DEF ApproveWrite
  <2>2. ~overlapped => /\ disk' = [form |-> "json", lines |-> cfg] /\ Unlocked
                       /\ \A b \in Approvals : b # a => ~Saving(b)
    BY <2>1, WriteOverEmpty
  <2>3. QED
    BY <1>0, <2>1, <2>2
<1>6. CASE ApproveMark(a)
  <2>1. /\ approvals[a].st = "marking" /\ approvals'[a].st = "idle"
        /\ \A b \in Approvals : b # a => approvals'[b] = approvals[b]
        /\ UNCHANGED <<cfg, disk, beat, unsaved, overlapped>>
    BY <1>0, <1>6 DEF ApproveMark, IdleApproval
  <2>2. QED
    BY <1>0, <2>1
<1>7. QED
  BY <1>1, <1>2, <1>3, <1>4, <1>5, <1>6 DEF ApproveCall

LEMMA BeatSaves ==
    ASSUME TypeOK, Saves, BeatAck \/ BeatWrite
    PROVE  Saves'
<1> USE DEF Saves, OneSave, ApprovalsSaved, Saving, Unlocked
<1>1. CASE BeatAck
  <2>1. /\ beat = "idle" /\ cfg' = cfg \cup {Ack} /\ UNCHANGED approvals
        /\ \/ disk' = [form |-> "empty", lines |-> {}] /\ beat' = "opened"
           \/ unsaved' = unsaved \cup {Ack} /\ UNCHANGED <<disk, beat>>
    BY <1>1 DEF BeatAck
  <2>2. ~overlapped' => ~overlapped /\ \A a \in Approvals : ~Saving(a)
    BY <1>1 DEF BeatAck, TypeOK
  <2>3. QED
    BY <2>1, <2>2
<1>2. CASE BeatWrite
  <2>1. /\ beat = "opened" /\ beat' = "idle" /\ unsaved' = {}
        /\ UNCHANGED <<cfg, approvals, overlapped>> /\ WriteFile(cfg)
    BY <1>2 DEF BeatWrite
  <2>2. ~overlapped => disk' = [form |-> "json", lines |-> cfg] /\ \A a \in Approvals : ~Saving(a)
    BY <2>1, WriteOverEmpty
  <2>3. QED
    BY <2>1, <2>2
<1>3. QED
  BY <1>1, <1>2

\* For any number of approvals and peers, and with the heartbeat as a second writer:
\* until two saves overlap, node.json holds all of the config when none is under way
\* (/trust-approve, sendTrustRequestIfNeeded, saveConfig).
THEOREM ConfigSaved == Spec => []ApprovalsSaved
<1>1. Init => Saves
  BY DEF Init, Saves, OneSave, ApprovalsSaved, Saving, Unlocked, Loop, IdleApproval
<1>2. TIInv /\ Saves /\ [Next]_vars => Saves'
  <2> SUFFICES ASSUME TIInv, Saves, [Next]_vars PROVE Saves'
    OBVIOUS
  <2>1. ASSUME NEW h \in Calls, RegisterCall(h) PROVE Saves'
    BY <2>1, SavesKept
       DEF RegisterCall, RegisterServe, VerifyPeer, RegisterBuild, RegisterScan, RegisterCarry,
           RegisterStore, VerifyFail, VerifyPass, VerifyMark, VerifyTrust, cfgVars
  <2>2. ASSUME NEW a \in Approvals, ApproveCall(a) PROVE Saves'
    BY <2>2, ApproveSaves DEF TIInv
  <2>3. ASSUME NEW p \in Peers, Deregister(p) \/ TrustRequest(p) \/ TrustDeny(p) \/ FetchStep(p)
        PROVE  Saves'
    BY <2>3, SavesKept
       DEF Deregister, TrustRequest, TrustDeny, FetchStep, FetchFail, FetchGet, FetchStore, cfgVars
  <2>4. CASE MdnsStep
    BY <2>4, SavesKept
       DEF MdnsStep, MdnsProceeds, MdnsSight, MdnsClassify, MdnsCertified, MdnsStranger, MdnsGet,
           MdnsStore, cfgVars
  <2>5. CASE BeatAck \/ BeatWrite
    BY <2>5, BeatSaves DEF TIInv
  <2>6. CASE Restart
    <3>1. /\ \A a \in Approvals : approvals'[a].st = "idle"
          /\ disk' = [form |-> "json", lines |-> cfg'] /\ beat' # "opened"
      BY <2>6 DEF Restart, IdleApproval, Loop
    <3>2. QED
      BY <3>1 DEF Saves, OneSave, ApprovalsSaved, Saving, Unlocked
  <2>7. CASE UNCHANGED vars
    BY <2>7, SavesKept DEF vars, cfgVars
  <2>8. QED
    BY <2>1, <2>2, <2>3, <2>4, <2>5, <2>6, <2>7 DEF Next
<1>3. Saves => ApprovalsSaved
  BY DEF Saves
<1>4. QED
  BY <1>1, <1>2, <1>3, TIInvariance, PTL DEF Spec

=============================================================================
