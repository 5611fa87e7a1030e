# A TLA+ model of the Vernex daemon

This directory holds TLA+ specifications of the Vernex node (`daemon/`, `dashboard/`, `scripts/`), the TLC
configurations that check them on small instances, and TLAPS proofs of their main safety properties. Paths and line
numbers refer to the repository.

## 1. The system

A Vernex node is a Go daemon that schedules prompts on local and remote Ollama servers, keeps a registry of its peers, a
trust queue for new ones, and a certificate authority; a Flask dashboard fronts it and carries a text game; an OAuth
relay logs users in. All handlers of the daemon run in goroutines of their own and share one `Node`.

| Component | State | Operations | What is hard | What makes it correct |
|---|---|---|---|---|
| Token scheduler (`scheduler.go`) | heap of requests, `seqNext`, condition variable, contribution stats | `Enqueue`, worker `run` | wake-ups, order under concurrent arrivals, failing model calls | class 1 first, FIFO within a class, every job answered, each success credited once |
| Commons Review (`handlers.go`, `scheduler.go`) | `node.reviews` under `reviewsMu`, deadlines | `/submit`, `/consent`, expiry sweeper | consent racing expiry, the sweeper's old clock reading, two consents | no upgrade without consent, at most one execution, no request dropped |
| Peer registry (`peer.go`, `handlers.go`) | entries by node id with trust flags | `/register` + certificate check, `/deregister`, `/peers` | get-then-register races, entries stored back after removal | flags are never granted without an approval or a verified certificate |
| Trust queue (`handlers.go`) | `trustRequests`, `cfg.PeerNodes` | `/trust-request`, `/trust-approve`, `/trust-deny` | overlapping approvals, approval racing heartbeats and the heartbeat's own save | approvals reach registry and disk |
| Config file (`config.go`, `main.go`) | `node.json` | load, save, start-up rewrite | truncate-then-write, crash in between | approvals survive a restart |
| mDNS discovery (`mdns.go`) | `mdnsDiscovered`, `dynamicPeers`, registry | scan loop, status fetch goroutines | copies of entries stored late | discovery never grants trust |
| Outgoing heartbeats (`peer.go`) | `cfg.TrustApproved`, `node.json`, snapshots of `dynamicPeers` | heartbeat loop, trust requests, deregister | lost and late posts, "pending" taken for "approved", farewells overtaken by heartbeats, crashes | a request counts as delivered only if a peer had it; the peers' lists follow the node |
| Rate limiter (`scheduler.go`) | buckets of time stamps | `Allow`, `PruneEmpty` | edges of the window and of the limit | never more than the limit in a window, pruning changes no answer |
| Request signing (`tls.go`) | none | sign, verify | clock skew, age window | a request is accepted only inside the window |
| CA enrollment (`ca/enrollment.go`, `ca/intermediate.go`) | used tokens file, a node's key and certificate files | issue a token, enroll, burn, sign, save | look-up then burn, truncate then write, lost answers, kills between files | a token serves once, a node's certificate fits its key |
| CA sync and trust store (`ca/sync.go`, `ca/verify.go`) | `root.crt`, `intermediate.crt`, trusted CNs in memory and on disk | pull, load, verify, trust a CN | pulls from several peers at once, crashes in the middle of a file, partial loads | one chain is kept, a root arrives and stays, CNs survive |
| Root CA and shares (`ca/root.go`) | shares | split, combine, ceremony | field arithmetic | any k shares give the key |
| Clock check (`ca/clockcheck.go`) | `last_seen_time.json`, `node.clockStatus` | four steps at start and every 30 min, the gate of the CA handlers | lying or silent servers, a clock stepped in between, a saved time that is ahead, a status used after it was read | a verdict is as sound as its sources; CA operations are blocked while, and only while, the clock is wrong |
| NAT traversal (`punch.go`) | external IP and port, last addresses, holes | STUN, IP watchdog, signals, punching | watchdog, heartbeat loop and bursts racing with an address change | the endpoint is current after a change, the peers' registries follow, old holes are gone |
| Ollama routing (`inference.go`) | node list | probe, select, fall back | a server failing between probe and call | every prompt is tried on the local server last |
| Status (`node.go`) | public IP, connections, GPU readings | `getStats`, tickers | none of protocol relevance | - |
| Start-up and shutdown (`main.go`) | - | order of goroutines, deregister on signal | crash while saving keys | - |
| Dashboard (`dashboard/app.py`) | peers cache, save files, NPC files | proxies, game routes | load-modify-store of files by concurrent requests | no lost update, capacity of bag and party |
| OAuth and relay (`oauth.py`, `relay.py`) | users file, cookies | login, callback | first login | one first admin |

**Interactions.** `/submit`, `/consent` and the sweeper hand jobs to the scheduler and get results through a channel per
job. Handlers, discovery, status fetches and certificate checks share the registry; each of its methods is atomic,
sequences of them are not. `/trust-approve` changes `cfg.PeerNodes` (read by `/register` and discovery), the routing
table and `node.json`, which the heartbeat's trust request saves too. Locks that nest: `reviewsMu` then `scheduler.mu`
(sweeper), `node.mu` then `scheduler.mu` (`getStats`).

`PROJECT.json` lists the hazards with the line where each bites and the properties that watch it.

## 2. Modules

| Module | Models | Used by |
|---|---|---|
| `TokenScheduler` | the queue and its worker, as operations without an environment | `SchedulerLoad`, `CommonsReview` |
| `SchedulerLoad` | the scheduler under arbitrary arrivals; its mapping to `PriorityLanes` | - |
| `PriorityLanes` | abstract: two FIFO lanes and one server | refined in `SchedulerLoad` |
| `CommonsReview` | `/submit`, `/consent`, sweeper, clock, over `TokenScheduler` | `MCCommonsReview` |
| `ConsentGate` | abstract: what the review promises to users | refined in `CommonsReview` |
| `PeerTrust` | registry, `/register`, approvals, config file and its two writers, discovery, restart | - |
| `RateLimiter` | `Allow` and `PruneEmpty` of a limiter, with the clock | - |
| `SlidingWindow` | abstract: the limit over the whole history of calls | refined in `RateLimiter` |
| `Enrollment` | `/token-gen`, `/enroll`, the burn of a token, `ca enroll` and its files | `MCEnrollment` |
| `TrustHandshake` | heartbeat loop, trust requests and farewell of a node, the approvals that write the same file, the network, the peers' ends | `MCTrustHandshake` |
| `TrustStore` | CA pulls, the trust store, trusted CNs and their files | `MCTrustStore` |
| `ClockCheck` | `CheckSystemClock`, its ticker, the saved time, the gate of the CA handlers | `MCClockCheck` |
| `NatEndpoint` | STUN, the IP watchdog, the endpoint in the peers' registries, UDP holes | - |
| `TokenSchedulerProofs` | theorems about `TokenScheduler` and `SchedulerLoad` | `CommonsReviewProofs` |
| `CaProofs` | theorems about `ClockCheck` and `TrustStore` | - |
| other `*Proofs` | theorems about the module they are named after | - |

### TokenScheduler

The heap is not modelled as an array: `container/heap` is the library's, and all the code gives it is `Less`. The state
is the sequence `jobs` of everything enqueued so far, indexed by `seq`; the queue is the set of jobs still `"queued"`,
and a pop takes the `Less`-least. One worker goroutine goes round: sleep if the queue is empty (`WorkerSleep`), pop
(`WorkerPop`), come back from the model server with or without an error and credit a success under `node.mu`
(`WorkerReturn`), send the result (`WorkerAnswer`). `Enqueue` appends and clears `asleep`, as `cond.Signal` does with a
single waiter. `stats` counts what the worker adds to the stats only; the ticker in `node.go` that adds uptime credit
commutes with it.

`start`, `ahead` and `starts` are history variables that date starts and arrivals; `NoOvertaking` is stated over them,
with an order (`Precedes`) of its own rather than the code's `Less`.

### CommonsReview

Each request is a `/submit` goroutine, each member of `Consents` a `/consent` goroutine. The interesting steps are kept
apart because other goroutines run between them:

* the assessment (a model call outside the queue) and then either the review stored under `reviewsMu` or the enqueue;
* in `/consent`, find-and-delete under the lock (`ConsentClaim`), the expiry check after the unlock (`ConsentCheck`),
  the enqueue;
* in the sweeper, the clock read before the lock (`SweepTick`, `SweepLock`), one step per review (`SweepVisit`), the
  unlock. `SweepVisit` includes the `Enqueue` and the `delete`.

A review is identified with its request, since review ids are 48 random bits. The handlers do not watch whether their
client is still there, so there is no step for a client that leaves. Prompts, models and web search are data.
`scheduler.mu` is never held across two actions and is no variable: a deadlock by the order of locks would not show. The
code takes it last everywhere.

### PeerTrust

One entry per peer with the two flags the code calls `CertVerified` and `TrustApproved`. A member of `Calls` is a
`/register` handler followed by the certificate goroutine it starts; a member of `Approvals` is a `/trust-approve`
handler; discovery is one goroutine; each peer has one status fetch. Addresses, keys and pushed statuses are left out;
so is `LastSeen` (it is in `TrustHandshake`, the external endpoint of an entry in `NatEndpoint`), and `listed` means "in
the map", whatever its age.

The certificate of a peer is fetched from the URL that its heartbeat, or mDNS, gives for it, and `VerifyCert` checks the
chain of whatever is served there (`handlers.go:339-350`, `verify.go:171-203`); its CN is not compared with the node id
that is then marked. `VerifyPass(h, q)` and `MdnsCertified(q)` therefore take the certificate of any node `q` of
`Enrolled`, and `chained` records which was taken for which peer. `TrustGrounded` says no more than this gives: a
trusted peer was approved, or a valid certificate, its own or another node's, was found at its URL.

`disk` is `node.json`. It has two writers: `/trust-approve` calls `saveConfig` with its copy after it has released
`node.mu` (`handlers.go:524-526`), `sendTrustRequestIfNeeded` with `node.mu` held (`peer.go:411-414`; `BeatAck`,
`BeatWrite`). `os.WriteFile` truncates the file and then writes, or cannot open it (`ApproveOpenFails`, and the second
half of `BeatAck`). A text shorter than what the other writer has left there keeps the tail of that: `"garbage"`. A
config only grows, so its later text is the longer one; a peer approved twice is in it twice, hence the choice when the
lines are equal. At a restart `loadConfig` uses its defaults if the file does not parse, and `main` writes them out.
`unsaved` is history: what was to be saved and could not, with no other save done since; `overlapped` says that one save
has begun during another. A write that fails half-way (a full disk) is left out. So are torn reads: `/register` scans
`cfg.PeerNodes` under `node.mu`, but discovery and the heartbeat read it without, which the model takes for atomic.

### RateLimiter

A bucket is a set of accepted calls with their times; calls at the same instant are told apart by a number, which the
code does by their place in the slice. `Accept` and `Refuse` are the two ends of `Allow`, both of which forget the calls
out of the window. The key (node id or source address) is whatever the caller gives. Pruning may happen at any moment,
which covers the ticker of 5 minutes and the limiter of `/trust-request`, which is never pruned. `log` and `calls` are
the history that `SlidingWindow` is about.

### Enrollment

Each member of `Attempts` is one run of `vernex-node ca enroll`, with the key pair it generates; each member of
`Handlers` is a goroutine serving `/enroll`. `BurnEnrollmentToken` is three steps: the file is read into a map
(`BurnLoad`), opened and truncated (`BurnOpen`), written (`BurnWrite`). Its text is a set of ids with a flag whether it
parses: a map written over a longer text of another goroutine leaves a tail. A request whose client has gone stays
`pending` and may still be served. The command saves certificate, private and public key in this order and may die
before, in the middle of, or between any two. `certs` records what has been signed. The writes of the bootstrap node
either fail to open or succeed; a disk that fills up in the middle is not modelled. Only one command runs on a node at a
time.

### TrustHandshake

One node and the peers of its configuration. A post is a message in `net`, because the handler at the peer may run after
the client has given up (3 or 5 s) or died: it may be handled late, out of order, or be lost, and so may the answer
alone (`Lose`). The beat goroutine is a record that says where it is, to which targets it has still to post and whom it
has still to ask. `BeatStart` is the head of `registerWithPeers`, with its snapshot of `dynamicPeers` and the rule by
which static peers are skipped; `BeatPost` is one iteration of either of its loops; `BeatCheck` to `BeatSave` is
`sendTrustRequestIfNeeded`, whose targets are LAN URLs where there are any.

`lan` are the keys of `dynamicPeers`, from which nothing is ever taken out; `near` are those whose LAN URL still leads
to them, which `LeaveLan` ends and `Discover` restores. A post to a LAN URL that leads nowhere is no message (`PostTo`).
`shadowed` are the peers whose static URL is skipped though they were not found on the LAN, since its hostname is that
of another peer's LAN URL or is the `public_ip` which such a peer has pushed (`peer.go:167-193, 213-220`).

`approve` is a `/trust-approve` handler of this node (for some other node that has asked it): it copies the config, with
`trust_approved` as it was, and writes the copy later. `disk` has the length of the list of peers and whether
`trust_approved` is in the text. `kept` is history: `trust_approved` has been written, no approval under way then has a
copy without it, and no crash has cut a save short since. `HandleRegister`, `HandleDeregister`, `HandleRequest` and
`RefuseRequest` are the peers' handlers, `Expire` the 90 s of `LivePeers`, `FetchGet` and `FetchStore` the peers' status
fetches, which put an entry back that `/deregister` may have removed. How often a fetch runs is left open; a copy of an
entry is never younger than the entry. Both sides may crash. What a peer does with a request is in `PeerTrust`; here an
operator decides it or not. Not modelled: a peer's own mDNS rescan, every 30 s, which lists the node with `LastSeen` now
(`mdns.go:208-211`) for as long as avahi reports it, a node that is down included.

### TrustStore

The heartbeats start a pull from every LAN peer while `root.crt` is missing. A pull is a goroutine of its own: it gets a
chain, or half of one, and then looks and writes, file by file. Two peers may belong to different networks. Certificates
are model values and know who signed them; expiry is left out. Nothing keeps two pulls from opening the same file: the
one that writes last leaves its own text, or, if the other's was longer, its own with the end of the other's (`Mixed`,
by `Over`), which does not parse. The daemon's store is read once, at its start (`LoadTrustStore`, with its early
returns): what a pull brings counts after the next start. `AddIntermediate` and `IsTrustedCN` are not modelled, since
nothing calls them.

### ClockCheck

`real` is true time and `clock` the node's; a check takes no time on this scale but other things may happen between its
steps: the clock is stepped, the network comes or goes, CA requests pass the gate, the process dies. Steps A and B,
which wait for nothing, are one action; C takes the answers of all servers at once, as it waits for all of them; D asks
one bootstrap per step. The fields `sound` are history. They say that the honest answers were a majority of those heard
(or the bootstrap honest) and that the clock has not been stepped since. `CheckLocal` blocks with `saved.t > clock +
MaxBack`, the others with `Apart`.

The comment on `CheckSystemClock` says "BlockCAOps is set true only when clock fraud is unambiguous (steps A/B/C/D all
report drift > 5 min)". The code returns at the first step that has something to say, and one bootstrap can block; the
model follows the code.

### NatEndpoint

One node, numbered addresses. The heartbeat goroutine and the watchdog are two instances of one loop: ask `/stun`, store
IP and port (two atomics, two steps), register with the peers one by one. In the holes' part, a burst is the five
datagrams a peer sends toward the endpoint it was given, each of which may get through at any time until the burst ends,
also after the node has moved. What has come in waits in `inbox`, the socket's buffer or the listener's hands
(`ReadPacket`), and makes its hole later, under `peerHolesMu` (`StorePacket`); a move and the watchdog's clearing may
come in between. `late` is history: what was waiting when the holes were last cleared. A post of a heartbeat is handled
at once or not at all, and `registerWithPeers` reaches each peer or fails; what is skipped, or handled late, is in
`TrustHandshake`.

Things the model shows or leaves open: `/stun` is asked over HTTPS, so its port is that of a TCP connection, although
README.md:74 speaks of "UDP hole punching (STUN-style...)"; whether a datagram to it gets through is open. After a
`/stun` that nobody answers the endpoint stays empty until the next address change. An address that changes and comes
back within 30 s is not noticed. A hole is only cleared when the node itself moves, not when the peer does. A packet is
attributed to the first live peer with its source address (`punch.go:127`).

## 3. Runs

| Run | Instance | Shows |
|---|---|---|
| `scheduler_load` | 4 jobs | `NoOvertaking`, `LedgerBalances`, refinement of `PriorityLanes` with its fairness, `EveryJobAnswered` |
| `commons_review` | 2 requests, 2 consents, TTL 1, clock to 3 | types, `ConsentRequired`, `AtMostOnce`, `Custody`, `LostOnlyToLateConsent`, `TimelyConsentHonoured` |
| `commons_live` | 2 requests, 1 consent, clock to 2 | refinement of `ConsentGate`, `EveryReviewSettles`, `EveryWaiterReplies` |
| `peer_trust` | 1 peer, another node's certificate, 1 register, 1 approval, the heartbeat's save, any number of restarts | types, `TrustGrounded`, `ApprovalsSaved`, `ApprovalReachesRegistry` |
| `rate_limiter` | 2 keys, limit 2, window 2, clock to 5 | `AtMostLimit`, refinement of `SlidingWindow` |
| `enroll` | 2 tokens, 2 nodes, 3 commands, 1 handler, 1 restart | types, `SingleUseUnlessCut`, `IdentityWhole` |
| `enroll_race` | 1 token, 2 commands, 2 handlers | *violated*: `SingleUse` |
| `handshake` | 1 peer, which comes to the LAN and leaves it, 1 approval at a time, 2 posts in the network | types, `AckIsHeld`, `StopsRetry`, `PickedUp`, `GoneExpires` |
| `handshake_ask` | 1 peer, not on the LAN, no approvals, 3 posts | *violated*: `WillAsk` |
| `trust_store` | 2 LAN peers, 2 roots with an intermediate each | types, `OneChain`, `CnsSaved`, `RootArrives` |
| `clock_check` | 3 servers, one of them lying, 1 bootstrap, times to 4 | types, `VerdictSound`, `SavedSound`, `ServedOnTime`, `Settles` |
| `nat_endpoint` | 1 peer, 2 moves, 1 packet waiting | types, `OldHolesCleared`, `EndpointCurrent`, `RegistriesFollow` |

The `RateLimiter` has no run for its types: they are proved. Those of the scheduler are part of `CommonsReview!TypeOK`.

**Bounds.** `MaxJobs` = 4 lets two jobs of each class meet in the queue while a fifth place, the worker, is taken by one
of them. With two consents, both a race for one review and consents for two reviews occur, and the second request is
what the first must not be mixed up with. The clock runs to TTL + 2, so that a review can be swept, consented to in
time, and consented to late, with the sweeper's reading one or more ticks behind; `AssessSuspend` requires `now + TTL <
MaxTime`, so that each deadline can pass. One peer is enough for the registry because no operation relates two entries;
its certificate is that of another node, which is all that the code lets one tell. The file's two writers are an
approval and the heartbeat, so overlapping saves occur in the run, in either order. A cycle of a `/register` goroutine
can repeat without bound, and so can restarts; with one member of `Calls`, two heartbeats of one peer do not overlap in
the run, while `TrustHasGrounds` and `ConfigSaved` are proved for any number. The rate limiter's clock runs through
three windows, so a call can be accepted, block others, be forgotten and be replaced, twice. Two tokens and three
commands let a token be tried again after another is burned, and a node enroll again over an identity it has; one
restart can meet any step of a burn. Two posts in the network let a heartbeat overtake a farewell, and a request of one
run meet the next run; the safety properties are proved for any peers and any number of posts. One place beyond the
first peer in `cfg.PeerNodes` (`MaxNodes`) lets an approval overlap the save of the heartbeat. Two peers of different
networks are what `TrustStore` needs, since a file has one content. Three servers are the least with a lying minority;
with `MaxDrift` 1, `MaxBack` 2 and times to 4, each of the steps A to D can block and can pass, and a saved time can be
ahead by more than `MaxBack`. Two moves let an answer of an address before the last meet the last; one waiting packet
(`MaxInbox`) is enough to be late (with two, 1.3 million states, the properties hold as well); the peers of
`NatEndpoint` do not depend on each other (their invariants are proved for any number).

**The runs that fail on purpose.** They check a sentence of the repository the code does not keep; `findings` in
`PROJECT.json` quotes each. `SingleUse` fails when two requests with one token are both between look-up and burn. With
one request at a time it fails in one way only: the daemon dies between the truncation and the write of
`used_tokens.json`, which `loadUsedTokens` then takes for an empty file. That is with writes and reads that do not fail
half-way: a write that fails after the truncation (`enrollment.go:107`), as on a full disk, or a file that cannot be
read, forgets the burns as well and is not modelled. `SingleUseUnlessCut` passes and says so. `WillAsk` fails because a
node takes any HTTP 200 for the approval: after a peer that answered "pending" has restarted, the node sends heartbeats
but never asks again. `AckIsHeld` says what remains true.

**Disagreements without a run of their own**, each allowed by the model and bounded by a property that passes:

* a consent after the deadline deletes the review before it looks at the deadline, and nothing runs the request
  (`handlers.go:210-223`), although ARCH_SPEC.md:106 says "user never loses their request"; `LostOnlyToLateConsent` says
  that this is the only way;
* of two overlapping heartbeats of a peer, one may undo the flags the other carried over (`handlers.go:325-336`),
  although the comment at 301 says they are preserved; `TrustGrounded` and `ApprovalReachesRegistry` say that no race
  grants a flag and that a later heartbeat repairs an approval;
* an entry may be stored back after `/deregister` has removed it "immediately" (`handlers.go:357-359`,
  `mdns.go:320-325`); `GoneExpires` says that it does not stay;
* the certificate that makes a peer verified and trusted need not be the peer's (`handlers.go:339-350`,
  `mdns.go:227-243`), although the comment at `mdns.go:227` says "auto-trust peers whose cert chain validates";
  `TrustGrounded` says what is left of it;
* the two writers of `node.json` may overlap: of two approvals the older copy may be written last
  (`handlers.go:524-526`), or an approval's copy after the heartbeat's save, which erases `trust_approved` (a later run
  then asks again, although `config.go:32` says "stops retry"), or a shorter text over a longer one, which leaves a file
  that does not parse and the defaults at the next start. `ApprovalsSaved` holds until two saves overlap, `StopsRetry`
  in the same run always and in later ones while `kept`;
* a peer that was seen on the LAN and has left it is heartbeaten at its stale LAN URL only, and a static peer with the
  hostname or `public_ip` of a LAN peer not at all, although `peer.go:148-149` says of the skipped ones that "the mDNS
  heartbeat loop covers them"; `PickedUp` promises the listing to the others (`Reachable`);
* two overlapping pulls of different roots may leave one root in the place of the other, or an unparsable `root.crt`,
  although `sync.go:75` says "never overwrites"; the pulls stop for good then (`peer.go:256`), and the first conjunct of
  `RootArrives` is about the other cases;
* a hole of the previous address may be made after the watchdog has cleared the holes ("Old UDP holes are tied to the
  previous IP — clear them", `punch.go:167`), by a packet that had come in and was not handled, and stays until the next
  move; `OldHolesCleared` says that no other does;
* `LoadTrustStore` speaks of nodes that wait for CA certificates to be propagated (`verify.go:19-20`), but pulls stop as
  soon as `root.crt` is there, with or without an intermediate (`peer.go:256`), or cut off by a crash; the second
  conjunct of `RootArrives` is what remains then.

**Fairness.** Weak fairness of the worker, of the sweeper (a ticker), of time, and of handlers that have started: the Go
scheduler runs every runnable goroutine, model calls and certificate fetches have time-outs, and locks are held for a
bounded time. Nothing obliges a user to submit or to consent, nor a peer to deregister. In `PeerTrust` heartbeats are
strongly fair: a peer sends one every 60 s and the HTTP server always has a goroutine for it, while the model has only
those of `Calls`; `ApprovalReachesRegistry` is about daemons that do not restart for ever. `EveryJobAnswered` relies on
arrivals being finite (`MaxJobs`): endless class 1 traffic starves class 2, which is what the queue's order asks for.

In `TrustHandshake` the loop is weakly fair (a ticker, calls with time-outs), entries expire, and the network is
strongly fair to heartbeats and requests of each peer, since `PickedUp` cannot hold over one that loses them all.
Nothing obliges operators, discovery, signals or restarts. In `TrustStore` the pulls are weakly fair, and strongly so
for some peer with a whole chain answering and for some opening of `root.crt` succeeding. In `ClockCheck` only the check
is fair: its ticker goes on and its waits have time-outs; `Settles` has as its premises that the network stays up and
the honest servers are the majority of all. In `NatEndpoint` both loops are weakly fair, and the heartbeat's post to a
peer strongly: not every one of them fails.

**Deadlock** is off for `SchedulerLoad`, which stops when the last job is answered and the worker sleeps, and for
`Enrollment`, which stops when every command of the instance has ended. It is checked for all other modules, where a
ticker, a heartbeat or an operator can always act.

## 4. Theorems

All are checked by `tlapm` for every value of the constants, given only the named assumptions (`TTL` and `MaxTime` are
naturals, names are distinct, `None` is no peer).

* `SchedTypeCorrect`, `PriorityRespected` (`TokenSchedulerProofs`) rest on lemmas about what each operation of the
  scheduler changes (`EnqueueShape`, `PopShape`, ...), which `CommonsReviewProofs` cites too. `NoOvertaking` is not
  inductive: the invariant adds that a queued job has no start, that a started job started no later than the current
  number of starts and after its arrival, and that starts are distinct.
* `LedgerAlwaysBalances`: the set of credited jobs of a class grows only in `WorkerReturn`, by the job that returned,
  and no job returns twice; the library's cardinality theorems do the counting.
* `NoLostWakeUp`: the worker sleeps only when every job ever enqueued is answered, the safety part of
  `EveryJobAnswered`. The invariant (`Manned`) says that a job popped and not answered is the one in the worker's hands
  and that a sleeping worker has none and an empty queue.
* `SchedulerFollowsLanes`: every step of the scheduler is one of `PriorityLanes` or a stutter. The mapping chooses for
  each class an increasing listing of its queued jobs. That there is exactly one (`Listed`) would take an induction on
  the size of the set; instead it is an invariant, kept because an arrival has the highest number (`ListingAppend`) and
  a pop takes the head (`ListingTail`).
* `TypeCorrect`, `OneCustodian`, `NeverRunsTwice`, `NeverUpgradesWithoutConsent`, `TimelyConsent`,
  `OnlyLateConsentLoses` (`CommonsReviewProofs`). The core is `Custody`: a suspended request is in the map, in one
  consent's hands or in the queue. Uniqueness of jobs follows from it, because every enqueue starts from a custodian and
  ends its custody. The consent properties add what a handler's local state says about its job (the ticket belongs to
  its request and its answer), the timing ones that a sweeper's reading is never ahead of the clock and that deadlines
  in the map are those the reviews were created with.
* `GateRespectsPriority`, `GateLedgerBalances`, `GateFollowsLanes`, `GateNoLostWakeUp`: what holds of the scheduler
  under any load holds of it as the handlers and the sweeper drive it, since it sees of each of their steps an arrival,
  a step of its worker, or nothing (`SchedSees`).
* `GateOwnAnswers`, `GateOneReader`: a handler reads the channel of a job of its own request, in the class its user
  chose or its consent decided, and no two handlers read one channel. The first is inductive with custody. The second
  follows: a waiting `/submit` has kept its request from review, and a review is taken by one consent (`Gated`).
* `CommonsReviewImplements`: the gate implements `ConsentGate`. Taking a well-formed request is `Ask`, storing its
  review `Offer`, an enqueue `Accept` or, after an approval, `Upgrade`; a consent that finds the review and says upgrade
  is `Approve`, one that finds it expired `Lapse`; a pop is `Start`, a return `Settle`; the rest stutters. `Viewed`
  unfolds the mapping (whose `CHOOSE` has one candidate, by `NeverRunsTwice`), and `Gated` adds to custody that only
  class 2 is suspended and that each review is taken once.
* `TrustTypeCorrect`, `TrustHasGrounds` (`PeerTrustProofs`): a trusted peer was approved, or a valid certificate was
  found at its URL. The registry alone is not inductive: entries are stored from copies, so the invariant
  (`CopiesGrounded`) says of every copy, in whichever goroutine's hands, that its flags are grounded, and of every
  goroutine about to set a flag that the ground exists already.
* `ConfigSaved` (`PeerTrustProofs`), for any number of approvals. The invariant says of every moment until two saves
  overlap (`overlapped`) what the file has and lacks: that a copy in an approval's hands is the whole of `cfg`, that the
  file a writer has opened is empty, and what is not in the file before it is opened.
* `EnrollmentTypeCorrect`, `EnrollmentIdentityWhole`, `EnrollmentSingleUse` (`EnrollmentProofs`). The identity rests on
  three facts: a command that has an answer has a signed certificate (`Answered`), it is alone on its node
  (`OneCommand`), and what it has saved is still there (`Saved`). Single use is proved under `Solo` (one handler); its
  invariant, which holds until a burn is cut short, says where the spent tokens are: in the file, or, while the file is
  being rewritten, in the map it is rewritten from (`SpentIsUsed`, `MapIsWhole`), and that a token in a handler's hands
  is not spent yet (`BurnsBeforeSigning`).
* `RateLimiterTypeCorrect`, `RateLimiterAtMostLimit`, `RateLimiterImplements` (`RateLimiterProofs`). A bucket holds
  accepted calls, among them all that are in the window (`Kept`); so what `Allow` counts is what the history holds
  (`ValidIsWithin`), and every step is a step of `SlidingWindow` or a stutter.
* `HandshakeTypeCorrect`, `HandshakeAckIsHeld`, `HandshakeStopsRetry` (`TrustHandshakeProofs`). The node's belief is in
  memory, in the file, in the copy of an approval and in the two states of the loop on the way to the first two.
  `MemoryAgrees` says that a loop which knows does not ask; `CopyIsLatest` that a copy with `trust_approved` is not
  overlapped by the heartbeat's save, which happens once; `KeptIsSafe` that what is kept is in memory, unless the node
  is down, in the file, unless it is being rewritten, and in the copy that will replace it. So no request is posted from
  there, and none from a run that has read it.
* `ClockTypeCorrect`, `ClockVerdictSound`, `ClockSavedSound`, `ClockServedOnTime` (`CaProofs`). `MedianHonest` is the
  core: `times[len/2]` of answers most of which are the true time is the true time, by counting. `CheckSound` carries it
  through the check, which compares with the clock of its start and saves the clock of its end. No assumption is made on
  how many servers lie; the fields `sound` say which verdicts are spoken for.
* `StoreTypeCorrect`, `StoreOneChain`, `StoreCnsSaved` (`CaProofs`). `Chained` says of every moment of a pull that a
  file cut off has one writer, and that an intermediate that is being stored, is stored, or has been loaded has the root
  beside it as its signer. It holds as long as no two pulls have opened one file (`raced`), which is the premise of
  `OneChain` too: without it two networks can leave one file each. `Grounded` adds what a node that is down has lost,
  and that the map of intermediates is there when it has members, so that no step writes to a nil map.
* `EndpointTypeCorrect`, `HolesCleared`, `EndpointIsCurrent` (`NatEndpointProofs`). `Known` bounds all endpoints by the
  address the node has; `HolesFresh` says that while the watchdog rests no hole, nor any packet that waits, is older
  than the address it last acted on, unless it was waiting when the holes were cleared; `EndsFresh` that an answer of
  `/stun` in a loop's hands, and the endpoint stored while nobody is storing one, are whole and not older than that
  address either. The last is false when the watchdog overlaps the first heartbeat (`overlapped`), as two answers may
  then be stored crosswise.

**Only model-checked.** Liveness (`EveryJobAnswered`, `EveryReviewSettles`, `EveryWaiterReplies`,
`ApprovalReachesRegistry`, `PickedUp`, `GoneExpires`, `RootArrives`, `Settles`, `RegistriesFollow`) and the fairness of
`PriorityLanes` in `ImplementsLanes`, because fairness and `ENABLED` are outside the prover's reach. Every safety
property of a passing run is proved, `SingleUseUnlessCut` under `Solo`, of which its run is an instance: it is false
when two `/enroll` overlap.

## 5. Not modelled, and the plan

Not modelled yet, in the order of the plan:

1. The age window of signatures (`tls.go`), with the clock offsets of two nodes. Nothing is kept between two requests.
2. Ollama routing (`inference.go`): the choice of a server from probes, the fallback to the local one, and the slices
   `cfg.PeerNodes` and `ollamaNodes` that it reads without `node.mu`.
3. `Shamir` over GF(256), with the `Bitwise` operators, for TLC only; its ceremony is interactive.
4. The dashboard: the cache of `get_nodes`, saves and inventory of the game under concurrent requests, the first login.

Left out of modelled parts: ML-DSA keys and pushed statuses of registry entries, dates and expiry of certificates,
`VerifyTLSPeerCert`, the creation of the intermediate CA, disks that fill up in the middle of a write, unsynchronised
reads of `node.cfg` that see half of a slice, a peer's mDNS rescan of a node that is down, two `ca enroll` commands on
one node.

Theorems planned: abstract specifications of the trust queue and of enrollment ("a flag is set only after its ground",
"a token is spent once") with the detailed modules shown to implement them; the safety halves of the liveness properties
that have one, as `NoLostWakeUp` is for `EveryJobAnswered`.

Left out for good: the avahi D-Bus registration and the parsing of its output, `/proc` and GPU readings, web search,
HTML and canvas rendering, prompt texts, installers, nginx and systemd files; they carry no state other components
depend on. The auth relay is stateless.
