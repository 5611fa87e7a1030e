------------------------ MODULE CommonsReviewProofs ------------------------
(***************************************************************************)
(* Proofs about the Commons Review gate, for any sets of requests and      *)
(* consents, any TTL and any bound of the clock: the types, then the       *)
(* custody of each request (no interleaving of /submit, /consent, sweeper  *)
(* and worker enqueues it twice), consent to class 1, order and credit,    *)
(* whose answer a handler reads, who may take a review and when, and last  *)
(* the refinement of ConsentGate.                                          *)
(***************************************************************************)
EXTENDS CommonsReview, TokenSchedulerProofs

\* What a handler has learnt by the state it is in.
Tickets ==
    /\ \A r \in Requests : submit[r] \notin {"idle", "refused"} => class[r] \in Class
    /\ \A c \in Consents : ticket[c] # 0 => consent[c].st \in {"waiting", "replied"}
    /\ \A c \in Consents : consent[c].st \notin {"idle", "refused"} =>
           consent[c].req \in Requests /\ submit[consent[c].req] = "reviewed"

-----------------------------------------------------------------------------
(* Types *)

\* A step that leaves the scheduler alone keeps its types.
LEMMA SchedStutter ==
    ASSUME SchedTypeOK, UNCHANGED schedVars
    PROVE  SchedTypeOK'
BY DEF SchedTypeOK, schedVars

LEMMA InitTypeOK == Init => TypeOK
<1> SUFFICES ASSUME Init PROVE TypeOK
  OBVIOUS
<1>1. SchedTypeOK
  BY SchedInitIInv DEF Init, SchedIInv
<1>2. MaxTime \in Nat /\ 0 \in 0..MaxTime
  BY TimeAssumption
<1>3. NoCall \in Call
  BY <1>2 DEF NoCall, Call, ConsentState, Answers
<1>4. consent \in [Consents -> Call]
  BY <1>3 DEF Init
<1>5. sweep \in [st : SweepState, now : 0..MaxTime, todo : SUBSET Review]
  BY <1>2 DEF Init, SweepState
<1>6. QED
  BY <1>1, <1>2, <1>4, <1>5 DEF TypeOK, Init, SubmitState, Handlers

\* The number of an arriving job, which its handler keeps as its ticket.
LEMMA TicketType ==
    ASSUME SchedTypeOK, NEW r \in Requests, NEW k \in Class, Enqueue(r, k)
    PROVE  SchedTypeOK' /\ Len(jobs') \in Nat
<1>1. Len(jobs) \in Nat
  BY JobTable DEF SchedTypeOK
<1>2. SchedTypeOK' /\ Len(jobs') = Len(jobs) + 1
  BY EnqueueShape
<1>3. QED
  BY <1>1, <1>2

LEMMA SubmitTypeOK ==
    ASSUME TypeOK, Tickets, NEW r \in Requests, SubmitStep(r)
    PROVE  TypeOK'
<1> USE SchedStutter DEF TypeOK
<1>1. CASE SubmitRefuse(r)
  BY <1>1 DEF SubmitRefuse, SubmitState
<1>2. ASSUME NEW k \in Class, SubmitAccept(r, k) PROVE TypeOK'
  BY <1>2 DEF SubmitAccept, SubmitState
<1>3. CASE AssessProceed(r)
  BY <1>3 DEF AssessProceed, SubmitState
<1>4. CASE AssessSuspend(r)
  <2>1. now + TTL \in 0..MaxTime
    BY <1>4, TimeAssumption DEF AssessSuspend
  <2>2. [id |-> r, expiresAt |-> now + TTL] \in Review
    BY <2>1 DEF Review
  <2>3. QED
    BY <1>4, <2>1, <2>2 DEF AssessSuspend, SubmitState
<1>5. CASE SubmitEnqueue(r)
  <2>1. class[r] \in Class
    BY <1>5 DEF SubmitEnqueue, Tickets
  <2>2. SchedTypeOK' /\ Len(jobs') \in Nat
    BY <1>5, <2>1, TicketType DEF SubmitEnqueue
  <2>3. QED
    BY <1>5, <2>2 DEF SubmitEnqueue, SubmitState, Handlers
<1>6. CASE SubmitReply(r)
  BY <1>6 DEF SubmitReply, SubmitState
<1>7. QED
  BY <1>1, <1>2, <1>3, <1>4, <1>5, <1>6 DEF SubmitStep, SubmitAssess

LEMMA ConsentTypeOK ==
    ASSUME TypeOK, Tickets, NEW c \in Consents, ConsentArrives(c) \/ ConsentProceeds(c)
    PROVE  TypeOK'
<1> USE SchedStutter DEF TypeOK
<1>0. MaxTime \in Nat /\ 0 \in 0..MaxTime
  BY TimeAssumption
<1>1. ASSUME NEW r \in Requests, ConsentRefuse(c, r) PROVE TypeOK'
  <2>1. [NoCall EXCEPT !.st = "refused"] \in Call
    BY <1>0 DEF NoCall, Call, ConsentState, Answers
  <2>2. consent' \in [Consents -> Call]
    BY <1>1, <2>1 DEF ConsentRefuse
  <2>3. QED
    BY <1>1, <2>2 DEF ConsentRefuse
<1>2. ASSUME NEW r \in Requests, NEW answer \in Answers, ConsentClaim(c, r, answer)
      PROVE  TypeOK'
  <2>1. \A v \in reviews : [st |-> "claimed", req |-> r, answer |-> answer,
                            until |-> v.expiresAt, at |-> now] \in Call
    BY DEF Call, ConsentState, Review
  <2>2. [st |-> "notfound", req |-> r, answer |-> answer, until |-> 0, at |-> now] \in Call
    BY <1>0 DEF Call, ConsentState
  <2>3. consent' \in [Consents -> Call] /\ reviews' \subseteq Review
    BY <1>2, <2>1, <2>2 DEF ConsentClaim
  <2>4. QED
    BY <1>2, <2>3 DEF ConsentClaim
<1>3. CASE ConsentCheck(c)
  <2>1. consent' \in [Consents -> Call]
    BY <1>3 DEF ConsentCheck, Call, ConsentState
  <2>2. QED
    BY <1>3, <2>1 DEF ConsentCheck
<1>4. CASE ConsentEnqueue(c)
  <2>1. consent[c].req \in Requests /\ FinalClass(consent[c].answer) \in Class
    BY <1>4 DEF ConsentEnqueue, Tickets, FinalClass, ReviewClass, Class
  <2>2. SchedTypeOK' /\ Len(jobs') \in Nat
    BY <1>4, <2>1, TicketType DEF ConsentEnqueue
  <2>3. consent' \in [Consents -> Call]
    BY <1>4 DEF ConsentEnqueue, Call, ConsentState
  <2>4. ticket' \in [Handlers -> Nat]
    BY <1>4, <2>2 DEF ConsentEnqueue, Handlers
  <2>5. QED
    BY <1>4, <2>2, <2>3, <2>4 DEF ConsentEnqueue
<1>5. CASE ConsentReply(c)
  <2>1. consent' \in [Consents -> Call]
    BY <1>5 DEF ConsentReply, Call, ConsentState
  <2>2. QED
    BY <1>5, <2>1 DEF ConsentReply
<1>6. QED
  BY <1>1, <1>2, <1>3, <1>4, <1>5 DEF ConsentArrives, ConsentProceeds

LEMMA SweeperTypeOK ==
    ASSUME TypeOK, Sweeper
    PROVE  TypeOK'
<1> USE SchedStutter DEF TypeOK
<1>0. MaxTime \in Nat /\ 0 \in 0..MaxTime
  BY TimeAssumption
<1>1. CASE SweepTick
  BY <1>0, <1>1 DEF SweepTick, SweepState
<1>2. CASE SweepLock
  BY <1>2 DEF SweepLock, SweepState
<1>3. ASSUME NEW v \in sweep.todo, SweepVisit(v) PROVE TypeOK'
  <2>1. v.id \in Requests
    BY DEF Review
  <2>2. SchedTypeOK' /\ reviews' \subseteq Review
    BY <1>3, <2>1, TicketType DEF SweepVisit, ReviewClass, Class
  <2>3. sweep' \in [st : SweepState, now : 0..MaxTime, todo : SUBSET Review]
    BY <1>3 DEF SweepVisit
  <2>4. QED
    BY <1>3, <2>2, <2>3 DEF SweepVisit
<1>4. CASE SweepUnlock
  BY <1>0, <1>4 DEF SweepUnlock, SweepState
<1>5. QED
  BY <1>1, <1>2, <1>3, <1>4 DEF Sweeper, SweepScan

LEMMA NextTypeOK ==
    ASSUME TypeOK, Tickets, [Next]_vars
    PROVE  TypeOK'
<1>1. ASSUME NEW r \in Requests, SubmitStep(r) PROVE TypeOK'
  BY <1>1, SubmitTypeOK
<1>2. ASSUME NEW c \in Consents, ConsentArrives(c) \/ ConsentProceeds(c) PROVE TypeOK'
  BY <1>2, ConsentTypeOK
<1>3. CASE Sweeper
  BY <1>3, SweeperTypeOK
<1>4. CASE Worker
  BY <1>4, WorkerShape DEF Worker, reviewVars, TypeOK
<1>5. CASE Tick
  BY <1>5, SchedStutter, TimeAssumption DEF Tick, TypeOK
<1>6. CASE UNCHANGED vars
  BY <1>6, SchedStutter DEF vars, reviewVars, TypeOK
<1>7. QED
  BY <1>1, <1>2, <1>3, <1>4, <1>5, <1>6 DEF Next

-----------------------------------------------------------------------------
(* Custody: a request is enqueued at most once *)

\* A job for r' arrives; the jobs of the other requests stay as they are.
LEMMA EnqueueJobs ==
    ASSUME SchedTypeOK, NEW q \in Requests, NEW k \in Class, Enqueue(q, k)
    PROVE  /\ \A r : HasJob(r)' <=> HasJob(r) \/ r = q
           /\ AtMostOnce /\ ~HasJob(q) => AtMostOnce'
<1>1. /\ DOMAIN jobs = 1..Len(jobs) /\ DOMAIN jobs' = 1..(Len(jobs) + 1)
      /\ Len(jobs) \in Nat
      /\ \A s \in 1..Len(jobs) : jobs'[s] = jobs[s]
      /\ jobs'[Len(jobs) + 1].req = q
  <2>1. DOMAIN jobs = 1..Len(jobs) /\ Len(jobs) \in Nat
    BY JobTable DEF SchedTypeOK
  <2>2. /\ DOMAIN jobs' = 1..(Len(jobs) + 1)
        /\ \A s \in 1..Len(jobs) : jobs'[s] = jobs[s]
        /\ jobs'[Len(jobs) + 1] = [req |-> q, class |-> k, st |-> "queued", ok |-> FALSE,
                                   start |-> 0, ahead |-> starts]
    BY EnqueueShape
  <2>3. QED
    BY <2>1, <2>2
<1>2. \A r : HasJob(r)' <=> HasJob(r) \/ r = q
  BY <1>1 DEF HasJob
<1>3. ASSUME AtMostOnce, ~HasJob(q) PROVE AtMostOnce'
  BY <1>1, <1>3 DEF AtMostOnce, HasJob
<1>4. QED
  BY <1>2, <1>3

\* Steps that enqueue nothing: the worker keeps the request of every job.
LEMMA WorkerJobs ==
    ASSUME SchedTypeOK, WorkerStep
    PROVE  /\ \A r : HasJob(r)' <=> HasJob(r)
           /\ AtMostOnce => AtMostOnce'
           /\ DOMAIN jobs' = DOMAIN jobs
           /\ \A s \in DOMAIN jobs : /\ jobs'[s].class = jobs[s].class
                                     /\ jobs'[s].req = jobs[s].req
<1>1. Keeps
  BY WorkerShape
<1>2. QED
  BY <1>1 DEF Keeps, HasJob, AtMostOnce

LEMMA StutterJobs ==
    ASSUME UNCHANGED schedVars
    PROVE  /\ \A r : HasJob(r)' <=> HasJob(r)
           /\ AtMostOnce => AtMostOnce'
           /\ jobs' = jobs
BY DEF schedVars, HasJob, AtMostOnce

\* The part of the invariant that says who holds each request.
Holding == TypeOK /\ Tickets /\ Custody /\ AtMostOnce

LEMMA SubmitHolding ==
    ASSUME Holding, NEW q \in Requests, SubmitStep(q)
    PROVE  Tickets' /\ Custody' /\ AtMostOnce'
<1> USE DEF Holding
<1>0. /\ submit \in [Requests -> SubmitState] /\ class \in [Requests -> {0} \cup Class]
      /\ ticket \in [Handlers -> Nat] /\ Requests \cap Consents = {}
      /\ SchedTypeOK
  BY NamesAssumption DEF TypeOK
<1>1. CASE SubmitRefuse(q)
  BY <1>0, <1>1, StutterJobs DEF SubmitRefuse, Tickets, Custody, HasReview, Claims
<1>2. ASSUME NEW k \in Class, SubmitAccept(q, k)
      PROVE  Tickets' /\ Custody' /\ AtMostOnce'
  BY <1>0, <1>2, StutterJobs DEF SubmitAccept, Tickets, Custody, HasReview, Claims
<1>3. CASE AssessProceed(q)
  BY <1>0, <1>3, StutterJobs DEF AssessProceed, Tickets, Custody, HasReview, Claims
<1>4. CASE AssessSuspend(q)
  BY <1>0, <1>4, StutterJobs DEF AssessSuspend, ReviewsMuFree, Tickets, Custody, HasReview, Claims
<1>5. CASE SubmitEnqueue(q)
  <2>1. /\ submit[q] = "admitted" /\ submit' = [submit EXCEPT ![q] = "waiting"]
        /\ class[q] \in Class /\ Enqueue(q, class[q])
        /\ UNCHANGED <<class, reviews, consent, sweep>>
        /\ \A c \in Consents : ticket'[c] = ticket[c]
    BY <1>0, <1>5 DEF SubmitEnqueue, Tickets, Handlers
  <2>2. ~HasJob(q)
    BY <2>1 DEF Custody
  <2>3. /\ \A r : HasJob(r)' <=> HasJob(r) \/ r = q
        /\ AtMostOnce'
    BY <1>0, <2>1, <2>2, EnqueueJobs
  <2>4. /\ \A r \in Requests : HasReview(r)' <=> HasReview(r)
        /\ \A c \in Consents, r \in Requests : Claims(c, r)' <=> Claims(c, r)
    BY <2>1 DEF HasReview, Claims
  <2>5. Custody'
    BY <1>0, <2>1, <2>3, <2>4 DEF Custody
  <2>6. Tickets'
    BY <1>0, <2>1 DEF Tickets
  <2>7. QED
    BY <2>3, <2>5, <2>6
<1>6. CASE SubmitReply(q)
  BY <1>0, <1>6, StutterJobs DEF SubmitReply, Tickets, Custody, HasReview, Claims
<1>7. QED
  BY <1>1, <1>2, <1>3, <1>4, <1>5, <1>6 DEF SubmitStep, SubmitAssess

LEMMA ConsentHolding ==
    ASSUME Holding, NEW c \in Consents, ConsentArrives(c) \/ ConsentProceeds(c)
    PROVE  Tickets' /\ Custody' /\ AtMostOnce'
<1> USE DEF Holding
<1>0. /\ submit \in [Requests -> SubmitState]
      /\ consent \in [Consents -> Call]
      /\ ticket \in [Handlers -> Nat] /\ Requests \cap Consents = {}
      /\ SchedTypeOK
  BY NamesAssumption DEF TypeOK
<1>1. ASSUME NEW r \in Requests, ConsentRefuse(c, r)
      PROVE  Tickets' /\ Custody' /\ AtMostOnce'
  BY <1>0, <1>1, StutterJobs DEF ConsentRefuse, NoCall, Tickets, Custody, HasReview, Claims
<1>2. ASSUME NEW r \in Requests, NEW answer \in Answers, ConsentClaim(c, r, answer)
      PROVE  Tickets' /\ Custody' /\ AtMostOnce'
  <2>1. /\ \A x : HasJob(x)' <=> HasJob(x)
        /\ AtMostOnce' /\ sweep' = sweep /\ submit' = submit /\ class' = class
        /\ ticket' = ticket /\ submit[r] = "reviewed"
        /\ consent[c].st = "idle" /\ sweep.st # "holding"
    BY <1>2, StutterJobs DEF ConsentClaim, ReviewsMuFree
  <2>2. ASSUME NEW v \in reviews, v.id = r, reviews' = reviews \ {v},
               consent' = [consent EXCEPT ![c] = [st |-> "claimed", req |-> r,
                              answer |-> answer, until |-> v.expiresAt, at |-> now]]
        PROVE  Tickets' /\ Custody'
    <3>1. /\ consent'[c].st = "claimed" /\ consent'[c].req = r
          /\ \A d \in Consents : d # c => consent'[d] = consent[d]
      BY <1>0, <2>2
    <3>2. Tickets'
      BY <1>0, <2>1, <3>1 DEF Tickets
    <3>3. /\ \A x \in Requests : HasReview(x)' => HasReview(x)
          /\ ~HasReview(r)' /\ HasReview(r)
      BY <2>2 DEF Custody, HasReview
    <3>4. \A d \in Consents, x \in Requests :
             Claims(d, x)' => (d = c /\ x = r) \/ (d # c /\ x # r /\ Claims(d, x))
      BY <3>1, <3>3 DEF Custody, Claims
    <3>5. Custody'
      BY <2>1, <2>2, <3>1, <3>3, <3>4 DEF Custody
    <3>6. QED
      BY <3>2, <3>5
  <2>3. ASSUME reviews' = reviews,
               consent' = [consent EXCEPT ![c] = [st |-> "notfound", req |-> r,
                             answer |-> answer, until |-> 0, at |-> now]]
        PROVE  Tickets' /\ Custody'
    BY <1>0, <2>1, <2>3 DEF Tickets, Custody, HasReview, Claims
  <2>4. QED
    BY <1>2, <2>1, <2>2, <2>3 DEF ConsentClaim
<1>3. CASE ConsentCheck(c)
  BY <1>0, <1>3, StutterJobs DEF ConsentCheck, Call, Tickets, Custody, HasReview, Claims
<1>4. CASE ConsentEnqueue(c)
  <2> DEFINE q == consent[c].req
  <2>1. /\ consent[c].st = "cleared" /\ consent'[c].st = "waiting"
        /\ consent'[c].req = q /\ q \in Requests
        /\ \A d \in Consents : d # c => consent'[d] = consent[d]
        /\ \A d \in Consents : d # c => ticket'[d] = ticket[d]
        /\ UNCHANGED <<submit, class, reviews, sweep>>
    BY <1>0, <1>4 DEF ConsentEnqueue, Tickets, Call, Handlers
  <2>2. Claims(c, q) /\ ~HasJob(q) /\ submit[q] = "reviewed" /\ ~HasReview(q)
    BY <2>1 DEF Claims, Custody
  <2>3. Enqueue(q, FinalClass(consent[c].answer)) /\ FinalClass(consent[c].answer) \in Class
    BY <1>4 DEF ConsentEnqueue, FinalClass, ReviewClass, Class
  <2>4. /\ \A r : HasJob(r)' <=> HasJob(r) \/ r = q
        /\ AtMostOnce'
    BY <1>0, <2>1, <2>2, <2>3, EnqueueJobs
  <2>5. /\ \A r \in Requests : HasReview(r)' <=> HasReview(r)
        /\ \A d \in Consents, r \in Requests : Claims(d, r)' => Claims(d, r) /\ d # c /\ r # q
    BY <2>1, <2>2 DEF HasReview, Claims, Custody
  <2> HIDE DEF q
  <2>6. Custody'
    BY <2>1, <2>2, <2>4, <2>5 DEF Custody
  <2>7. Tickets'
    <3>1. \A r \in Requests : submit'[r] \notin {"idle", "refused"} => class'[r] \in Class
      BY <2>1 DEF Tickets
    <3>2. \A d \in Consents : ticket'[d] # 0 => consent'[d].st \in {"waiting", "replied"}
      BY <2>1 DEF Tickets
    <3>3. \A d \in Consents : consent'[d].st \notin {"idle", "refused"} =>
              consent'[d].req \in Requests /\ submit'[consent'[d].req] = "reviewed"
      BY <2>1, <2>2 DEF Tickets
    <3>4. QED
      BY <3>1, <3>2, <3>3 DEF Tickets
  <2>8. QED
    BY <2>4, <2>6, <2>7
<1>5. CASE ConsentReply(c)
  BY <1>0, <1>5, StutterJobs DEF ConsentReply, Call, Tickets, Custody, HasReview, Claims
<1>6. QED
  BY <1>1, <1>2, <1>3, <1>4, <1>5 DEF ConsentArrives, ConsentProceeds

LEMMA SweeperHolding ==
    ASSUME Holding, Sweeper
    PROVE  Tickets' /\ Custody' /\ AtMostOnce'
<1> USE DEF Holding
<1>0. /\ reviews \subseteq Review /\ SchedTypeOK
      /\ sweep \in [st : SweepState, now : 0..MaxTime, todo : SUBSET Review]
  BY DEF TypeOK
<1>1. CASE SweepTick
  BY <1>0, <1>1, StutterJobs DEF SweepTick, Tickets, Custody, HasReview, Claims
<1>2. CASE SweepLock
  BY <1>0, <1>2, StutterJobs DEF SweepLock, Tickets, Custody, HasReview, Claims
<1>3. ASSUME NEW v \in sweep.todo, SweepVisit(v)
      PROVE  Tickets' /\ Custody' /\ AtMostOnce'
  <2>1. /\ v \in reviews /\ v.id \in Requests /\ HasReview(v.id) /\ ~HasJob(v.id)
        /\ \A c \in Consents : ~Claims(c, v.id)
        /\ \A w \in reviews : w.id = v.id => w = v
        /\ sweep'.st = "holding" /\ sweep'.todo = sweep.todo \ {v}
        /\ submit' = submit /\ class' = class /\ ticket' = ticket /\ consent' = consent
    BY <1>0, <1>3 DEF SweepVisit, Custody, HasReview, Review
  <2>2. CASE sweep.now > v.expiresAt
    <3>1. Enqueue(v.id, ReviewClass) /\ reviews' = reviews \ {v}
      BY <1>3, <2>2 DEF SweepVisit
    <3>2. /\ \A r : HasJob(r)' <=> HasJob(r) \/ r = v.id
          /\ AtMostOnce'
      BY <1>0, <2>1, <3>1, EnqueueJobs DEF ReviewClass, Class
    <3>3. \A r \in Requests : HasReview(r)' => HasReview(r) /\ r # v.id
      BY <2>1, <3>1 DEF HasReview
    <3>4. \A c \in Consents, r \in Requests : Claims(c, r)' <=> Claims(c, r)
      BY <2>1 DEF Claims
    <3>5. Custody'
      BY <2>1, <3>1, <3>2, <3>3, <3>4 DEF Custody
    <3>6. QED
      BY <2>1, <3>2, <3>5 DEF Tickets
  <2>3. CASE ~(sweep.now > v.expiresAt)
    <3>1. UNCHANGED <<schedVars, reviews>>
      BY <1>3, <2>3 DEF SweepVisit
    <3>2. QED
      BY <2>1, <3>1, StutterJobs DEF Tickets, Custody, HasReview, Claims
  <2>4. QED
    BY <2>2, <2>3
<1>4. CASE SweepUnlock
  BY <1>0, <1>4, StutterJobs DEF SweepUnlock, Tickets, Custody, HasReview, Claims
<1>5. QED
  BY <1>1, <1>2, <1>3, <1>4 DEF Sweeper, SweepScan

LEMMA NextHolding ==
    ASSUME Holding, [Next]_vars
    PROVE  Holding'
<1>1. TypeOK'
  BY NextTypeOK DEF Holding
<1> SUFFICES Tickets' /\ Custody' /\ AtMostOnce'
  BY <1>1 DEF Holding
<1>2. ASSUME NEW r \in Requests, SubmitStep(r) PROVE Tickets' /\ Custody' /\ AtMostOnce'
  BY <1>2, SubmitHolding
<1>3. ASSUME NEW c \in Consents, ConsentArrives(c) \/ ConsentProceeds(c)
      PROVE  Tickets' /\ Custody' /\ AtMostOnce'
  BY <1>3, ConsentHolding
<1>4. CASE Sweeper
  BY <1>4, SweeperHolding
<1>5. CASE Worker
  BY <1>5, WorkerJobs DEF Worker, reviewVars, Holding, TypeOK, Tickets, Custody, HasReview, Claims
<1>6. CASE Tick
  BY <1>6, StutterJobs DEF Tick, Holding, Tickets, Custody, HasReview, Claims
<1>7. CASE UNCHANGED vars
  BY <1>7, StutterJobs DEF vars, reviewVars, Holding, Tickets, Custody, HasReview, Claims
<1>8. QED
  BY <1>2, <1>3, <1>4, <1>5, <1>6, <1>7 DEF Next

LEMMA InitHolding == Init => Holding
<1> SUFFICES ASSUME Init PROVE Holding
  OBVIOUS
<1>1. TypeOK
  BY InitTypeOK
<1>2. \A r : ~HasJob(r)
  BY EmptySeq DEF Init, SchedInit, HasJob
<1>3. AtMostOnce
  BY EmptySeq DEF Init, SchedInit, AtMostOnce
<1>4. Tickets /\ Custody
  BY <1>2 DEF Init, NoCall, Tickets, Custody, HasReview, Claims, Handlers
<1>5. QED
  BY <1>1, <1>3, <1>4 DEF Holding

LEMMA HoldingInvariance == Spec => []Holding
BY InitHolding, NextHolding, PTL DEF Spec

\* Every variable of the gate keeps its type (node.reviews, handler locals).
THEOREM TypeCorrect == Spec => []TypeOK
<1>1. Holding => TypeOK
  BY DEF Holding
<1>2. QED
  BY <1>1, HoldingInvariance, PTL

\* A suspended request has one custodian at a time: reviewsMu and the single
\* lookup-and-delete of /consent and of the sweeper are enough for it.
THEOREM OneCustodian == Spec => []Custody
<1>1. Holding => Custody
  BY DEF Holding
<1>2. QED
  BY <1>1, HoldingInvariance, PTL

\* No interleaving of /submit, several /consent calls, the sweeper and the
\* worker enqueues a request twice.
THEOREM NeverRunsTwice == Spec => []AtMostOnce
<1>1. Holding => AtMostOnce
  BY DEF Holding
<1>2. QED
  BY <1>1, HoldingInvariance, PTL

-----------------------------------------------------------------------------
(* Consent: class 1 is the user's choice *)

\* Jobs stay justified while the handlers' knowledge only grows, and an arriving
\* job must bring its own justification.
LEMMA Justified ==
    ASSUME ConsentRequired,
           DOMAIN jobs \subseteq DOMAIN jobs', 0 \notin DOMAIN jobs,
           \A s \in DOMAIN jobs : jobs'[s].class = jobs[s].class /\ jobs'[s].req = jobs[s].req,
           \A s \in DOMAIN jobs : class'[jobs[s].req] = class[jobs[s].req],
           \A c \in Consents : ticket[c] # 0 =>
               /\ consent'[c].req = consent[c].req
               /\ consent'[c].answer = consent[c].answer
               /\ ticket'[c] = ticket[c],
           \A s \in DOMAIN jobs' \ DOMAIN jobs : jobs'[s].class = 1 =>
               \/ class'[jobs'[s].req] = 1
               \/ \E c \in Consents : /\ consent'[c].req = jobs'[s].req
                                     /\ consent'[c].answer = "upgrade"
                                     /\ ticket'[c] = s
    PROVE  ConsentRequired'
<1> SUFFICES ASSUME NEW s \in DOMAIN jobs', jobs'[s].class = 1
             PROVE  \/ class'[jobs'[s].req] = 1
                    \/ \E c \in Consents : /\ consent'[c].req = jobs'[s].req
                                          /\ consent'[c].answer = "upgrade"
                                          /\ ticket'[c] = s
  BY DEF ConsentRequired
<1>1. CASE s \notin DOMAIN jobs
  BY <1>1
<1>2. CASE s \in DOMAIN jobs
  <2>1. jobs[s].class = 1 /\ jobs'[s].req = jobs[s].req /\ s # 0
    BY <1>2
  <2>2. CASE class[jobs[s].req] = 1
    BY <1>2, <2>1, <2>2
  <2>3. CASE \E c \in Consents : /\ consent[c].req = jobs[s].req
                               /\ consent[c].answer = "upgrade"
                               /\ ticket[c] = s
    BY <2>1, <2>3
  <2>4. QED
    BY <1>2, <2>1, <2>2, <2>3 DEF ConsentRequired
<1>3. QED
  BY <1>1, <1>2

\* The arriving job is the only new one.
LEMMA OneArrival ==
    ASSUME SchedTypeOK, NEW q \in Requests, NEW k \in Class, Enqueue(q, k)
    PROVE  /\ DOMAIN jobs \subseteq DOMAIN jobs' /\ 0 \notin DOMAIN jobs
           /\ \A s \in DOMAIN jobs : jobs'[s].class = jobs[s].class /\ jobs'[s].req = jobs[s].req
           /\ \A s \in DOMAIN jobs' \ DOMAIN jobs :
                  s = Len(jobs') /\ jobs'[s].class = k /\ jobs'[s].req = q
<1>1. DOMAIN jobs = 1..Len(jobs) /\ Len(jobs) \in Nat
  BY JobTable DEF SchedTypeOK
<1>2. /\ DOMAIN jobs' = 1..(Len(jobs) + 1) /\ Len(jobs') = Len(jobs) + 1
      /\ \A s \in 1..Len(jobs) : jobs'[s] = jobs[s]
      /\ jobs'[Len(jobs) + 1] = [req |-> q, class |-> k, st |-> "queued", ok |-> FALSE,
                                 start |-> 0, ahead |-> starts]
  BY EnqueueShape
<1>3. QED
  BY <1>1, <1>2

LEMMA NextConsent ==
    ASSUME Holding, ConsentRequired, [Next]_vars
    PROVE  ConsentRequired'
<1>0. /\ SchedTypeOK /\ class \in [Requests -> {0} \cup Class]
      /\ consent \in [Consents -> Call] /\ ticket \in [Handlers -> Nat]
      /\ Requests \cap Consents = {} /\ Tickets /\ Custody
      /\ 0 \notin DOMAIN jobs
      /\ \A s \in DOMAIN jobs : jobs[s].req \in Requests /\ HasJob(jobs[s].req)
  BY NamesAssumption, JobTable DEF Holding, TypeOK, SchedTypeOK, HasJob
<1>1. ASSUME NEW q \in Requests, SubmitStep(q) PROVE ConsentRequired'
  <2>1. CASE SubmitEnqueue(q)
    <3>1. /\ class[q] \in Class /\ Enqueue(q, class[q])
          /\ UNCHANGED <<class, consent>>
          /\ \A c \in Consents : ticket'[c] = ticket[c]
      BY <1>0, <2>1 DEF SubmitEnqueue, Tickets, Handlers
    <3>2. QED
      BY <1>0, <3>1, OneArrival, Justified
  <2>2. ASSUME NEW k \in Class, SubmitAccept(q, k) PROVE ConsentRequired'
    <3>1. /\ jobs' = jobs /\ UNCHANGED <<consent, ticket>>
          /\ submit[q] = "idle" /\ class' = [class EXCEPT ![q] = k]
      BY <2>2 DEF SubmitAccept, schedVars
    <3>2. ~HasJob(q)
      BY <3>1 DEF Holding, Custody
    <3>3. QED
      BY <1>0, <3>1, <3>2, Justified
  <2>3. CASE SubmitRefuse(q) \/ SubmitAssess(q) \/ SubmitReply(q)
    <3>1. jobs' = jobs /\ UNCHANGED <<class, consent, ticket>>
      BY <2>3 DEF SubmitRefuse, SubmitAssess, AssessProceed, AssessSuspend, SubmitReply, schedVars
    <3>2. QED
      BY <1>0, <3>1, Justified
  <2>4. QED
    BY <1>1, <2>1, <2>2, <2>3 DEF SubmitStep
<1>2. ASSUME NEW c \in Consents, ConsentArrives(c) \/ ConsentProceeds(c)
      PROVE  ConsentRequired'
  <2>1. CASE ConsentEnqueue(c)
    <3> DEFINE q == consent[c].req
               k == FinalClass(consent[c].answer)
    <3>1. /\ q \in Requests /\ k \in Class /\ Enqueue(q, k)
          /\ k = 1 => consent[c].answer = "upgrade"
          /\ ticket[c] = 0 /\ ticket'[c] = Len(jobs') /\ class' = class
          /\ consent'[c].req = q /\ consent'[c].answer = consent[c].answer
          /\ \A d \in Consents : d # c => consent'[d] = consent[d] /\ ticket'[d] = ticket[d]
      BY <1>0, <2>1 DEF ConsentEnqueue, Tickets, FinalClass, ReviewClass, Class, Handlers, Call
    <3> HIDE DEF q, k
    <3>2. /\ DOMAIN jobs \subseteq DOMAIN jobs' /\ 0 \notin DOMAIN jobs
          /\ \A s \in DOMAIN jobs : jobs'[s].class = jobs[s].class /\ jobs'[s].req = jobs[s].req
          /\ \A s \in DOMAIN jobs' \ DOMAIN jobs :
                 s = Len(jobs') /\ jobs'[s].class = k /\ jobs'[s].req = q
      BY <1>0, <3>1, OneArrival
    <3>3. \A s \in DOMAIN jobs' \ DOMAIN jobs : jobs'[s].class = 1 =>
             \E d \in Consents : /\ consent'[d].req = jobs'[s].req
                                /\ consent'[d].answer = "upgrade"
                                /\ ticket'[d] = s
      BY <3>1, <3>2
    <3>4. \A d \in Consents : ticket[d] # 0 => consent'[d] = consent[d] /\ ticket'[d] = ticket[d]
      BY <3>1
    <3>5. QED
      BY <1>0, <3>1, <3>2, <3>3, <3>4, Justified
  <2>2. CASE ConsentArrives(c) \/ ConsentCheck(c) \/ ConsentReply(c)
    <3>1. /\ jobs' = jobs /\ UNCHANGED <<class, ticket>>
          /\ \A d \in Consents : d # c => consent'[d] = consent[d]
          /\ \/ consent[c].st \in {"idle", "claimed"}
             \/ consent'[c].req = consent[c].req /\ consent'[c].answer = consent[c].answer
      BY <1>0, <2>2 DEF ConsentArrives, ConsentRefuse, ConsentClaim, ConsentCheck, ConsentReply,
                        Call, schedVars
    <3>2. \A d \in Consents : ticket[d] # 0 => /\ consent'[d].req = consent[d].req
                                              /\ consent'[d].answer = consent[d].answer
      BY <1>0, <3>1 DEF Tickets
    <3>3. QED
      BY <1>0, <3>1, <3>2, Justified
  <2>3. QED
    BY <1>2, <2>1, <2>2 DEF ConsentProceeds
<1>3. CASE Sweeper
  <2>1. ASSUME NEW v \in sweep.todo, SweepVisit(v) PROVE ConsentRequired'
    <3>1. v.id \in Requests /\ UNCHANGED <<class, consent, ticket>>
      BY <2>1 DEF SweepVisit, Holding, TypeOK, Review
    <3>2. CASE Enqueue(v.id, ReviewClass)
      BY <1>0, <3>1, <3>2, OneArrival, Justified DEF ReviewClass, Class
    <3>3. CASE UNCHANGED schedVars
      BY <1>0, <3>1, <3>3, Justified DEF schedVars
    <3>4. QED
      BY <2>1, <3>2, <3>3 DEF SweepVisit
  <2>2. CASE SweepTick \/ SweepLock \/ SweepUnlock
    <3>1. jobs' = jobs /\ UNCHANGED <<class, consent, ticket>>
      BY <2>2 DEF SweepTick, SweepLock, SweepUnlock, schedVars
    <3>2. QED
      BY <1>0, <3>1, Justified
  <2>3. QED
    BY <1>3, <2>1, <2>2 DEF Sweeper, SweepScan
<1>4. CASE Worker
  <2>1. UNCHANGED <<class, consent, ticket>>
    BY <1>4 DEF Worker, reviewVars
  <2>2. QED
    BY <1>0, <1>4, <2>1, WorkerJobs, Justified DEF Worker
<1>5. CASE Tick \/ UNCHANGED vars
  <2>1. jobs' = jobs /\ UNCHANGED <<class, consent, ticket>>
    BY <1>5 DEF Tick, vars, reviewVars, schedVars
  <2>2. QED
    BY <1>0, <2>1, Justified
<1>6. QED
  BY <1>1, <1>2, <1>3, <1>4, <1>5 DEF Next

\* Whatever the interleaving, a job runs as class 1 only if its request was
\* submitted as class 1 or a /consent call of the user said upgrade.
THEOREM NeverUpgradesWithoutConsent == Spec => []ConsentRequired
<1>1. Init => ConsentRequired
  BY EmptySeq DEF Init, SchedInit, ConsentRequired
<1>2. Holding /\ ConsentRequired /\ [Next]_vars => ConsentRequired'
  BY NextConsent
<1>3. QED
  BY <1>1, <1>2, HoldingInvariance, PTL DEF Spec

-----------------------------------------------------------------------------
(* Priority, for the scheduler as the gate really drives it *)

\* The scheduler sees of a step an arrival, a step of its worker, or nothing.
LEMMA SchedSees ==
    ASSUME Holding, [Next]_vars
    PROVE  \/ UNCHANGED schedVars
           \/ \E q \in Requests, k \in Class : Enqueue(q, k)
           \/ WorkerStep
<1>1. ASSUME NEW r \in Requests, SubmitStep(r)
      PROVE  \/ UNCHANGED schedVars
             \/ class[r] \in Class /\ Enqueue(r, class[r])
  BY <1>1 DEF SubmitStep, SubmitRefuse, SubmitAccept, SubmitAssess, AssessProceed,
              AssessSuspend, SubmitEnqueue, SubmitReply, Holding, Tickets
<1>2. ASSUME NEW c \in Consents, ConsentArrives(c) \/ ConsentProceeds(c)
      PROVE  \/ UNCHANGED schedVars
             \/ /\ consent[c].req \in Requests /\ FinalClass(consent[c].answer) \in Class
                /\ Enqueue(consent[c].req, FinalClass(consent[c].answer))
  BY <1>2 DEF ConsentArrives, ConsentRefuse, ConsentClaim, ConsentProceeds, ConsentCheck,
              ConsentEnqueue, ConsentReply, FinalClass, ReviewClass, Class, Holding, Tickets
<1>3. CASE Sweeper
  <2>1. \/ UNCHANGED schedVars
        \/ \E v \in sweep.todo : v.id \in Requests /\ Enqueue(v.id, ReviewClass)
    BY <1>3 DEF Sweeper, SweepTick, SweepLock, SweepScan, SweepVisit, SweepUnlock,
                Holding, TypeOK, Review
  <2>2. QED
    BY <2>1 DEF ReviewClass, Class
<1>4. CASE Worker \/ Tick \/ UNCHANGED vars
  BY <1>4 DEF Worker, Tick, vars
<1>5. QED
  BY <1>1, <1>2, <1>3, <1>4 DEF Next

LEMMA NextOrder ==
    ASSUME Holding, SchedIInv, [Next]_vars
    PROVE  SchedIInv'
<1>1. ASSUME UNCHANGED schedVars PROVE SchedIInv'
  BY <1>1 DEF schedVars, SchedIInv, SchedTypeOK, Dated, NoOvertaking, Precedes
<1>2. QED
  BY <1>1, SchedSees, EnqueueIInv, WorkerIInv

\* Class 1 before class 2 and FIFO within a class, for the jobs that /submit,
\* /consent and the sweeper really enqueue.
THEOREM GateRespectsPriority == Spec => []NoOvertaking
<1>1. Init => SchedIInv
  BY SchedInitIInv DEF Init
<1>2. Holding /\ SchedIInv /\ [Next]_vars => SchedIInv'
  BY NextOrder
<1>3. SchedIInv => NoOvertaking
  BY DEF SchedIInv
<1>4. QED
  BY <1>1, <1>2, <1>3, HoldingInvariance, PTL DEF Spec

\* Every successful job is credited once under its class, whatever /submit,
\* /consent, the sweeper and the model server do.
THEOREM GateLedgerBalances == Spec => []LedgerBalances
<1>1. Init => LedgerBalances
  BY LedgerInit DEF Init
<1>2. Holding /\ LedgerBalances /\ [Next]_vars => LedgerBalances'
  BY SchedSees, LedgerStep DEF Holding, TypeOK
<1>3. QED
  BY <1>1, <1>2, HoldingInvariance, PTL DEF Spec

\* With the arrivals that the handlers and the sweeper make, whatever the bound
\* of SchedulerLoad, the scheduler is two FIFO lanes with one server.
THEOREM GateFollowsLanes == Spec => Lanes!LanesSpec
<1>1. Init => Listed /\ Lanes!LanesInit
  BY LanesBegin DEF Init
<1>2. Holding /\ Listed /\ [Next]_vars => Listed' /\ [Lanes!LanesNext]_Lanes!laneVars
  BY SchedSees, LanesStep DEF Holding, TypeOK
<1>3. QED
  BY <1>1, <1>2, HoldingInvariance, PTL DEF Spec, Lanes!LanesSpec

\* No wake-up is lost between the handlers, the sweeper and run(): the worker
\* sleeps only when every job they have enqueued has been answered.
THEOREM GateNoLostWakeUp == Spec => []SleepsWhenDone
<1>1. Init => Manned
  BY MannedInit DEF Init
<1>2. Holding /\ Manned /\ [Next]_vars => Manned'
  BY SchedSees, MannedStep DEF Holding, TypeOK
<1>3. Holding /\ Manned => SleepsWhenDone
  BY MannedSleeps DEF Holding, TypeOK
<1>4. QED
  BY <1>1, <1>2, <1>3, HoldingInvariance, PTL DEF Spec

-----------------------------------------------------------------------------
(* Answers: each handler reads the channel of its own job *)

\* The job whose channel handler h reads is of request r and runs as class k.
Reads(h, r, k) ==
    /\ ticket[h] \in DOMAIN jobs
    /\ jobs[ticket[h]].req = r
    /\ jobs[ticket[h]].class = k

\* A handler that waits, waits for a job of its own request, which runs in the class
\* the user chose; one that has replied did so with that job's result (the resultCh
\* of /submit and of /consent).
OwnAnswers ==
    /\ \A r \in Requests :
           /\ ticket[r] # 0 => submit[r] \in {"waiting", "replied"}
           /\ submit[r] \in {"waiting", "replied"} => Reads(r, r, class[r])
           /\ submit[r] = "replied" => Answered(r)
    /\ \A c \in Consents :
           /\ consent[c].st \in {"waiting", "replied"} =>
                  Reads(c, consent[c].req, FinalClass(consent[c].answer))
           /\ consent[c].st = "replied" => Answered(c)

\* A job, once there, keeps its request and class, and its answer once it has one.
LEMMA JobsStay ==
    ASSUME Holding, [Next]_vars
    PROVE  /\ 0 \notin DOMAIN jobs
           /\ \A s \in DOMAIN jobs :
                  /\ s \in DOMAIN jobs'
                  /\ jobs'[s].req = jobs[s].req /\ jobs'[s].class = jobs[s].class
                  /\ jobs[s].st = "answered" => jobs'[s].st = "answered"
<1>0. SchedTypeOK /\ DOMAIN jobs = 1..Len(jobs) /\ Len(jobs) \in Nat
  BY JobTable DEF Holding, TypeOK, SchedTypeOK
<1>1. ASSUME NEW q \in Requests, NEW k \in Class, Enqueue(q, k)
      PROVE  \A s \in DOMAIN jobs : s \in DOMAIN jobs' /\ jobs'[s] = jobs[s]
  <2>1. /\ DOMAIN jobs' = 1..(Len(jobs) + 1)
        /\ \A s \in 1..Len(jobs) : jobs'[s] = jobs[s]
    BY <1>0, <1>1, EnqueueShape
  <2>2. QED
    BY <1>0, <2>1
<1>2. WorkerStep => Keeps
  BY <1>0, WorkerShape
<1>3. UNCHANGED schedVars => jobs' = jobs
  BY DEF schedVars
<1>4. QED
  BY <1>0, <1>1, <1>2, <1>3, SchedSees DEF Keeps

\* A handler that keeps its ticket keeps what it reads, and the answer once there.
LEMMA ReadsKept ==
    ASSUME Holding, [Next]_vars, NEW h \in Handlers, ticket'[h] = ticket[h],
           NEW r, NEW k
    PROVE  /\ Reads(h, r, k) => Reads(h, r, k)'
           /\ Reads(h, r, k) /\ Answered(h) => Answered(h)'
BY JobsStay DEF Reads, Answered

\* The job that has just arrived is the one its handler reads.
LEMMA ReadsNew ==
    ASSUME SchedTypeOK, NEW q \in Requests, NEW k \in Class, Enqueue(q, k),
           NEW h \in Handlers, ticket'[h] = Len(jobs')
    PROVE  Reads(h, q, k)'
<1>1. DOMAIN jobs = 1..Len(jobs) /\ Len(jobs) \in Nat
  BY JobTable DEF SchedTypeOK
<1>2. /\ DOMAIN jobs' = 1..(Len(jobs) + 1) /\ Len(jobs') = Len(jobs) + 1
      /\ jobs'[Len(jobs) + 1] = [req |-> q, class |-> k, st |-> "queued", ok |-> FALSE,
                                 start |-> 0, ahead |-> starts]
  BY EnqueueShape
<1>3. QED
  BY <1>1, <1>2 DEF Reads

LEMMA NextAnswers ==
    ASSUME Holding, OwnAnswers, [Next]_vars
    PROVE  OwnAnswers'
<1>0. /\ SchedTypeOK /\ submit \in [Requests -> SubmitState]
      /\ class \in [Requests -> {0} \cup Class]
      /\ consent \in [Consents -> Call] /\ ticket \in [Handlers -> Nat]
      /\ Requests \cap Consents = {} /\ Handlers = Requests \cup Consents
  BY NamesAssumption DEF Holding, TypeOK, Handlers
<1>1. ASSUME NEW r \in Requests, ticket'[r] = ticket[r], submit'[r] = submit[r], class'[r] = class[r]
      PROVE  /\ ticket'[r] # 0 => submit'[r] \in {"waiting", "replied"}
             /\ submit'[r] \in {"waiting", "replied"} => Reads(r, r, class[r])'
             /\ submit'[r] = "replied" => Answered(r)'
  BY <1>0, <1>1, ReadsKept DEF OwnAnswers
<1>2. ASSUME NEW c \in Consents, ticket'[c] = ticket[c], consent'[c] = consent[c]
      PROVE  /\ consent'[c].st \in {"waiting", "replied"} =>
                    Reads(c, consent[c].req, FinalClass(consent[c].answer))'
             /\ consent'[c].st = "replied" => Answered(c)'
  BY <1>0, <1>2, ReadsKept DEF OwnAnswers
<1>3. ASSUME NEW q \in Requests, SubmitStep(q) PROVE OwnAnswers'
  <2>1. /\ \A c \in Consents : ticket'[c] = ticket[c] /\ consent'[c] = consent[c]
        /\ \A r \in Requests \ {q} :
               ticket'[r] = ticket[r] /\ submit'[r] = submit[r] /\ class'[r] = class[r]
    BY <1>0, <1>3 DEF SubmitStep, SubmitRefuse, SubmitAccept, SubmitAssess, AssessProceed,
                      AssessSuspend, SubmitEnqueue, SubmitReply
  <2>2. SUFFICES /\ ticket'[q] # 0 => submit'[q] \in {"waiting", "replied"}
                 /\ submit'[q] \in {"waiting", "replied"} => Reads(q, q, class[q])'
                 /\ submit'[q] = "replied" => Answered(q)'
    BY <1>1, <1>2, <2>1 DEF OwnAnswers
  <2>3. CASE SubmitEnqueue(q)
    <3>1. /\ Enqueue(q, class[q]) /\ class[q] \in Class /\ class' = class
          /\ ticket'[q] = Len(jobs') /\ submit'[q] = "waiting"
      BY <1>0, <2>3 DEF SubmitEnqueue, Holding, Tickets
    <3>2. QED
      BY <1>0, <3>1, ReadsNew
  <2>4. CASE SubmitReply(q)
    <3>1. /\ submit[q] = "waiting" /\ submit'[q] = "replied" /\ Answered(q)
          /\ class' = class /\ ticket' = ticket
      BY <1>0, <2>4 DEF SubmitReply
    <3>2. QED
      BY <1>0, <3>1, ReadsKept DEF OwnAnswers
  <2>5. CASE SubmitRefuse(q) \/ SubmitAssess(q) \/ \E k \in Class : SubmitAccept(q, k)
    BY <1>0, <2>5 DEF SubmitRefuse, SubmitAccept, SubmitAssess, AssessProceed, AssessSuspend,
                      OwnAnswers
  <2>6. QED
    BY <1>3, <2>3, <2>4, <2>5 DEF SubmitStep
<1>4. ASSUME NEW d \in Consents, ConsentArrives(d) \/ ConsentProceeds(d) PROVE OwnAnswers'
  <2>1. /\ UNCHANGED <<submit, class>>
        /\ \A h \in Handlers \ {d} : ticket'[h] = ticket[h]
        /\ \A c \in Consents \ {d} : consent'[c] = consent[c]
    BY <1>0, <1>4 DEF ConsentArrives, ConsentRefuse, ConsentClaim, ConsentProceeds,
                      ConsentCheck, ConsentEnqueue, ConsentReply
  <2>0. \A r \in Requests :
           /\ ticket'[r] # 0 => submit'[r] \in {"waiting", "replied"}
           /\ submit'[r] \in {"waiting", "replied"} => Reads(r, r, class[r])'
           /\ submit'[r] = "replied" => Answered(r)'
    <3>1. \A r \in Requests : ticket'[r] = ticket[r] /\ submit'[r] = submit[r] /\ class'[r] = class[r]
      BY <1>0, <2>1
    <3>2. QED
      BY <1>1, <3>1
  <2>2. SUFFICES /\ consent'[d].st \in {"waiting", "replied"} =>
                        Reads(d, consent[d].req, FinalClass(consent[d].answer))'
                 /\ consent'[d].st = "replied" => Answered(d)'
    <3>1. ASSUME NEW c \in Consents \ {d}
          PROVE  /\ consent'[c].st \in {"waiting", "replied"} =>
                        Reads(c, consent[c].req, FinalClass(consent[c].answer))'
                 /\ consent'[c].st = "replied" => Answered(c)'
      BY <1>0, <1>2, <2>1
    <3>2. QED
      BY <2>0, <2>2, <3>1 DEF OwnAnswers
  <2>3. CASE ConsentEnqueue(d)
    <3>1. /\ consent[d].req \in Requests /\ FinalClass(consent[d].answer) \in Class
          /\ Enqueue(consent[d].req, FinalClass(consent[d].answer))
          /\ ticket'[d] = Len(jobs') /\ consent'[d].st = "waiting"
          /\ consent'[d].req = consent[d].req /\ consent'[d].answer = consent[d].answer
      BY <1>0, <2>3 DEF ConsentEnqueue, Holding, Tickets, FinalClass, ReviewClass, Class, Call
    <3>2. Reads(d, consent[d].req, FinalClass(consent[d].answer))'
      BY <1>0, <3>1, ReadsNew DEF Reads
    <3>3. QED
      BY <3>1, <3>2
  <2>4. CASE ConsentReply(d)
    <3>1. /\ consent[d].st = "waiting" /\ Answered(d) /\ ticket' = ticket
          /\ consent'[d].req = consent[d].req /\ consent'[d].answer = consent[d].answer
      BY <1>0, <2>4 DEF ConsentReply, Call
    <3>2. Reads(d, consent[d].req, FinalClass(consent[d].answer))
      BY <3>1 DEF OwnAnswers
    <3>3. /\ ticket[d] \in DOMAIN jobs' /\ jobs'[ticket[d]].req = consent[d].req
          /\ jobs'[ticket[d]].class = FinalClass(consent[d].answer)
          /\ jobs'[ticket[d]].st = "answered" /\ ticket[d] # 0
      BY <3>1, <3>2, JobsStay DEF Reads, Answered
    <3>4. QED
      BY <3>1, <3>3 DEF Reads, Answered
  <2>5. CASE ConsentArrives(d) \/ ConsentCheck(d)
    <3>1. consent'[d].st \notin {"waiting", "replied"}
      BY <1>0, <2>5 DEF ConsentArrives, ConsentRefuse, NoCall, ConsentClaim, ConsentCheck, Call
    <3>2. QED
      BY <3>1
  <2>6. QED
    BY <1>4, <2>3, <2>4, <2>5 DEF ConsentProceeds
<1>5. CASE Sweeper \/ Worker \/ Tick \/ UNCHANGED vars
  <2>1. UNCHANGED <<submit, class, consent, ticket>>
    BY <1>5 DEF Sweeper, SweepTick, SweepLock, SweepScan, SweepVisit, SweepUnlock, Worker, Tick,
                vars, reviewVars
  <2>2. QED
    BY <1>0, <1>1, <1>2, <2>1 DEF OwnAnswers
<1>6. QED
  BY <1>3, <1>4, <1>5 DEF Next

LEMMA AnswersInvariance == Spec => [](Holding /\ OwnAnswers)
<1>1. Init => OwnAnswers
  BY DEF Init, NoCall, Handlers, OwnAnswers
<1>2. Holding /\ OwnAnswers /\ [Next]_vars => OwnAnswers'
  BY NextAnswers
<1>3. QED
  BY <1>1, <1>2, HoldingInvariance, PTL DEF Spec

\* Whatever interleaves, a client gets the result of its own request, run in the
\* class it was submitted with or its consent decided.
THEOREM GateOwnAnswers == Spec => []OwnAnswers
BY AnswersInvariance, PTL

-----------------------------------------------------------------------------
(* Time: who may take a suspended request, and when *)

\* What the clock readings of the sweeper and of the handlers guarantee.
Clocked ==
    /\ sweep.now <= now
    /\ \A v \in reviews : v.expiresAt = deadline[v.id]
    /\ \A c \in Consents :
           /\ consent[c].at <= now
           /\ consent[c].st = "claimed" => consent[c].until = deadline[consent[c].req]
           /\ consent[c].st = "gone" => now > deadline[consent[c].req]
           /\ consent[c].st \in {"waiting", "replied"} => HasJob(consent[c].req)
    /\ \A r \in Requests : submit[r] = "reviewed" =>
           \/ HasReview(r)
           \/ \E c \in Consents : Took(c, r)
           \/ HasJob(r) /\ now > deadline[r]

\* Clocked is stable when reviews, consents and deadlines stand still.
LEMMA ClockedQuiet ==
    ASSUME Holding, Clocked, TimelyConsentHonoured,
           UNCHANGED <<reviews, deadline, consent>>,
           now' \in Nat, now <= now', sweep'.now \in Nat, sweep'.now <= now',
           \A r \in Requests : HasJob(r) => HasJob(r)',
           \A r \in Requests : submit'[r] = "reviewed" => submit[r] = "reviewed"
    PROVE  Clocked' /\ TimelyConsentHonoured'
<1>0. /\ now \in Nat /\ deadline \in [Requests -> Nat]
      /\ \A c \in Consents : consent[c].at \in Nat
      /\ \A c \in Consents : consent[c].st \notin {"idle", "refused"} => consent[c].req \in Requests
  BY TimeAssumption DEF Holding, TypeOK, Call, Tickets
<1>1. \A c \in Consents :
         /\ consent'[c].at <= now'
         /\ consent'[c].st = "claimed" => consent'[c].until = deadline'[consent'[c].req]
         /\ consent'[c].st = "gone" => now' > deadline'[consent'[c].req]
         /\ consent'[c].st \in {"waiting", "replied"} => HasJob(consent[c].req)'
  BY <1>0 DEF Clocked
<1>2. \A r \in Requests : submit'[r] = "reviewed" =>
         \/ HasReview(r)'
         \/ \E c \in Consents : Took(c, r)'
         \/ HasJob(r)' /\ now' > deadline'[r]
  BY <1>0 DEF Clocked, HasReview, Took
<1>3. TimelyConsentHonoured'
  BY DEF TimelyConsentHonoured, Took
<1>4. QED
  BY <1>1, <1>2, <1>3 DEF Clocked

\* A new job never takes a job away.
LEMMA JobsKept ==
    ASSUME Holding, UNCHANGED schedVars \/ WorkerStep
                    \/ \E q \in Requests, k \in Class : Enqueue(q, k)
    PROVE  \A r \in Requests : HasJob(r) => HasJob(r)'
<1>1. SchedTypeOK
  BY DEF Holding, TypeOK
<1>2. QED
  BY <1>1, StutterJobs, WorkerJobs, EnqueueJobs

LEMMA SubmitClocked ==
    ASSUME Holding, Clocked, TimelyConsentHonoured, NEW q \in Requests, SubmitStep(q)
    PROVE  Clocked' /\ TimelyConsentHonoured'
<1>0. /\ now \in Nat /\ sweep.now \in Nat /\ sweep.now <= now
      /\ submit \in [Requests -> SubmitState] /\ deadline \in [Requests -> 0..MaxTime]
  BY TimeAssumption DEF Holding, TypeOK, Clocked
<1>1. CASE ~AssessSuspend(q)
  <2>1. /\ UNCHANGED <<now, sweep, reviews, deadline, consent>>
        /\ \A r \in Requests : submit'[r] = "reviewed" => submit[r] = "reviewed"
        /\ UNCHANGED schedVars \/ (class[q] \in Class /\ Enqueue(q, class[q]))
    BY <1>0, <1>1 DEF SubmitStep, SubmitRefuse, SubmitAccept, SubmitAssess, AssessProceed,
                      SubmitEnqueue, SubmitReply, Holding, Tickets
  <2>2. QED
    BY <1>0, <2>1, JobsKept, ClockedQuiet
<1>2. CASE AssessSuspend(q)
  <2>1. /\ submit[q] = "assessing" /\ submit' = [submit EXCEPT ![q] = "reviewed"]
        /\ reviews' = reviews \cup {[id |-> q, expiresAt |-> now + TTL]}
        /\ deadline' = [deadline EXCEPT ![q] = now + TTL]
        /\ UNCHANGED <<schedVars, now, consent, sweep>>
    BY <1>2 DEF AssessSuspend
  <2>2. /\ \A v \in reviews : v.id \in Requests /\ v.id # q
        /\ \A c \in Consents : consent[c].st \notin {"idle", "refused"} =>
              consent[c].req \in Requests /\ consent[c].req # q
    BY <2>1 DEF Holding, TypeOK, Review, Custody, HasReview, Tickets
  <2>3. \A v \in reviews' : v.expiresAt = deadline'[v.id]
    BY <1>0, <2>1, <2>2 DEF Clocked
  <2>4. \A r \in Requests : HasJob(r)' <=> HasJob(r)
    BY <2>1, StutterJobs
  <2>5. \A c \in Consents :
           /\ consent'[c].at <= now'
           /\ consent'[c].st = "claimed" => consent'[c].until = deadline'[consent'[c].req]
           /\ consent'[c].st = "gone" => now' > deadline'[consent'[c].req]
           /\ consent'[c].st \in {"waiting", "replied"} => HasJob(consent[c].req)'
    BY <1>0, <2>1, <2>2, <2>4 DEF Clocked
  <2>6. HasReview(q)'
    <3>1. /\ [id |-> q, expiresAt |-> now + TTL] \in reviews'
          /\ [id |-> q, expiresAt |-> now + TTL].id = q
      BY <2>1
    <3>2. QED
      BY <3>1 DEF HasReview
  <2>7. ASSUME NEW r \in Requests, r # q, submit'[r] = "reviewed"
        PROVE  \/ HasReview(r)'
               \/ \E c \in Consents : Took(c, r)'
               \/ HasJob(r)' /\ now' > deadline'[r]
    BY <1>0, <2>1, <2>4, <2>7 DEF Clocked, HasReview, Took
  <2>8. Clocked'
    BY <1>0, <2>1, <2>3, <2>5, <2>6, <2>7 DEF Clocked
  <2>9. TimelyConsentHonoured'
    BY <1>0, <2>1, <2>2 DEF TimelyConsentHonoured, Took
  <2>10. QED
    BY <2>8, <2>9
<1>3. QED
  BY <1>1, <1>2

\* One /consent call moves: it keeps the review it took, if any, and when.
LEMMA OneCallMoves ==
    ASSUME Holding, Clocked, TimelyConsentHonoured, NEW c \in Consents,
           UNCHANGED <<now, submit, deadline, sweep>>,
           reviews' \subseteq reviews,
           \A r \in Requests : HasJob(r) => HasJob(r)',
           \A d \in Consents : d # c => consent'[d] = consent[d],
           \A r \in Requests : Took(c, r) =>
               Took(c, r)' /\ consent'[c].at = consent[c].at,
           \A r \in Requests : HasReview(r) => HasReview(r)' \/ Took(c, r)',
           consent'[c].at <= now,
           consent'[c].st = "claimed" => consent'[c].until = deadline[consent'[c].req],
           consent'[c].st = "gone" => now > deadline[consent'[c].req],
           consent'[c].st \in {"waiting", "replied"} => HasJob(consent[c].req)',
           consent'[c].st # "notfound"
    PROVE  Clocked' /\ TimelyConsentHonoured'
<1>0. \A d \in Consents : consent[d].st \notin {"idle", "refused"} => consent[d].req \in Requests
  BY DEF Holding, Tickets
<1>1. \A d \in Consents :
         /\ consent'[d].at <= now'
         /\ consent'[d].st = "claimed" => consent'[d].until = deadline'[consent'[d].req]
         /\ consent'[d].st = "gone" => now' > deadline'[consent'[d].req]
         /\ consent'[d].st \in {"waiting", "replied"} => HasJob(consent[d].req)'
  BY <1>0 DEF Clocked
<1>2. \A d \in Consents, r \in Requests : Took(d, r) =>
         Took(d, r)' /\ consent'[d].at = consent[d].at
  BY DEF Took
<1>3. \A r \in Requests : submit'[r] = "reviewed" =>
         \/ HasReview(r)'
         \/ \E d \in Consents : Took(d, r)'
         \/ HasJob(r)' /\ now' > deadline'[r]
  BY <1>2 DEF Clocked
<1>4. TimelyConsentHonoured'
  <2> SUFFICES ASSUME NEW b \in Consents, consent'[b].st = "notfound",
                      consent'[b].at <= deadline'[consent'[b].req]
               PROVE  \E d \in Consents : Took(d, consent[b].req)' /\ consent'[d].at <= consent'[b].at
    BY DEF TimelyConsentHonoured
  <2>1. b # c /\ consent'[b] = consent[b] /\ consent[b].req \in Requests
    BY <1>0
  <2>2. PICK d \in Consents : Took(d, consent[b].req) /\ consent[d].at <= consent[b].at
    BY <2>1 DEF TimelyConsentHonoured
  <2>3. QED
    BY <1>2, <2>1, <2>2
<1>5. QED
  BY <1>1, <1>3, <1>4 DEF Clocked

LEMMA ConsentClocked ==
    ASSUME Holding, Clocked, TimelyConsentHonoured, NEW c \in Consents,
           ConsentArrives(c) \/ ConsentProceeds(c)
    PROVE  Clocked' /\ TimelyConsentHonoured'
<1>0. /\ now \in Nat /\ consent \in [Consents -> Call] /\ SchedTypeOK
      /\ deadline \in [Requests -> 0..MaxTime]
      /\ consent[c].st \notin {"idle", "refused"} => consent[c].req \in Requests
      /\ \A r \in Requests : UNCHANGED schedVars => (HasJob(r)' <=> HasJob(r))
  BY TimeAssumption, StutterJobs DEF Holding, TypeOK, Tickets
<1>1. ASSUME NEW r \in Requests, ConsentRefuse(c, r)
      PROVE  Clocked' /\ TimelyConsentHonoured'
  <2>1. /\ UNCHANGED <<now, submit, deadline, sweep, schedVars, reviews>>
        /\ consent[c].st = "idle" /\ consent'[c].st = "refused" /\ consent'[c].at = 0
        /\ \A d \in Consents : d # c => consent'[d] = consent[d]
    BY <1>0, <1>1 DEF ConsentRefuse, NoCall
  <2>2. consent'[c].at <= now
    BY <1>0, <2>1
  <2>3. \A x \in Requests : ~Took(c, x) /\ (HasReview(x) => HasReview(x)')
    BY <2>1 DEF Took, HasReview
  <2>4. QED
    BY <1>0, <2>1, <2>2, <2>3, OneCallMoves
<1>2. ASSUME NEW r \in Requests, NEW answer \in Answers, ConsentClaim(c, r, answer)
      PROVE  Clocked' /\ TimelyConsentHonoured'
  <2>1. /\ UNCHANGED <<now, submit, deadline, sweep, schedVars>>
        /\ consent[c].st = "idle" /\ submit[r] = "reviewed"
    BY <1>2 DEF ConsentClaim
  <2>2. ASSUME NEW v \in reviews, v.id = r, reviews' = reviews \ {v},
               consent' = [consent EXCEPT ![c] = [st |-> "claimed", req |-> r,
                              answer |-> answer, until |-> v.expiresAt, at |-> now]]
        PROVE  Clocked' /\ TimelyConsentHonoured'
    <3>1. /\ consent'[c] = [st |-> "claimed", req |-> r, answer |-> answer,
                            until |-> v.expiresAt, at |-> now]
          /\ \A d \in Consents : d # c => consent'[d] = consent[d]
      BY <1>0, <2>2
    <3>2. v.expiresAt = deadline[r]
      BY <2>2 DEF Clocked
    <3>3. \A x \in Requests : HasReview(x) => HasReview(x)' \/ Took(c, x)'
      BY <2>2, <3>1 DEF HasReview, Took
    <3>4. QED
      BY <1>0, <2>1, <2>2, <3>1, <3>2, <3>3, OneCallMoves DEF Took
  <2>3. ASSUME \A v \in reviews : v.id # r, reviews' = reviews,
               consent' = [consent EXCEPT ![c] = [st |-> "notfound", req |-> r,
                             answer |-> answer, until |-> 0, at |-> now]]
        PROVE  Clocked' /\ TimelyConsentHonoured'
    <3>1. /\ consent'[c] = [st |-> "notfound", req |-> r, answer |-> answer,
                            until |-> 0, at |-> now]
          /\ \A d \in Consents : d # c => consent'[d] = consent[d]
      BY <1>0, <2>3
    <3>2. \A d \in Consents, x \in Requests : Took(d, x) =>
             Took(d, x)' /\ consent'[d].at = consent[d].at
      BY <2>1, <3>1 DEF Took
    <3>3. \A d \in Consents :
             /\ consent'[d].at <= now'
             /\ consent'[d].st = "claimed" => consent'[d].until = deadline'[consent'[d].req]
             /\ consent'[d].st = "gone" => now' > deadline'[consent'[d].req]
             /\ consent'[d].st \in {"waiting", "replied"} => HasJob(consent[d].req)'
      <4>1. consent'[c].at = now /\ consent'[c].st = "notfound"
        BY <3>1
      <4>2. ASSUME NEW d \in Consents, d # c
            PROVE  /\ consent'[d].at <= now'
                   /\ consent'[d].st = "claimed" => consent'[d].until = deadline'[consent'[d].req]
                   /\ consent'[d].st = "gone" => now' > deadline'[consent'[d].req]
                   /\ consent'[d].st \in {"waiting", "replied"} => HasJob(consent[d].req)'
        BY <2>1, <3>1, <4>2, StutterJobs DEF Clocked
      <4>3. QED
        BY <1>0, <2>1, <4>1, <4>2
    <3>4. Clocked'
      BY <1>0, <2>1, <2>3, <3>2, <3>3 DEF Clocked, HasReview
    <3>5. TimelyConsentHonoured'
      <4> SUFFICES ASSUME NEW b \in Consents, consent'[b].st = "notfound",
                          consent'[b].at <= deadline'[consent'[b].req]
                   PROVE  \E d \in Consents : /\ Took(d, consent[b].req)'
                                             /\ consent'[d].at <= consent'[b].at
        BY DEF TimelyConsentHonoured
      <4>1. CASE b = c
        <5>1. ~HasReview(r) /\ ~(now > deadline[r])
          BY <1>0, <2>1, <2>3, <3>1, <4>1 DEF HasReview
        <5>2. PICK d \in Consents : Took(d, r)
          BY <2>1, <5>1 DEF Clocked
        <5>3. consent[d].at <= now
          BY DEF Clocked
        <5>4. QED
          BY <3>1, <3>2, <4>1, <5>2, <5>3
      <4>2. CASE b # c
        <5>1. consent'[b] = consent[b] /\ consent[b].req \in Requests
          BY <3>1, <4>2 DEF Holding, Tickets
        <5>2. PICK d \in Consents : Took(d, consent[b].req) /\ consent[d].at <= consent[b].at
          BY <2>1, <5>1 DEF TimelyConsentHonoured
        <5>3. QED
          BY <3>2, <5>1, <5>2
      <4>3. QED
        BY <4>1, <4>2
    <3>6. QED
      BY <3>4, <3>5
  <2>4. QED
    BY <1>2, <2>2, <2>3 DEF ConsentClaim
<1>3. CASE ConsentCheck(c)
  <2>1. /\ UNCHANGED <<now, submit, deadline, sweep, schedVars, reviews>>
        /\ consent[c].st = "claimed" /\ consent[c].until = deadline[consent[c].req]
        /\ consent'[c].st = IF now > consent[c].until THEN "gone" ELSE "cleared"
        /\ consent'[c].req = consent[c].req /\ consent'[c].at = consent[c].at
        /\ \A d \in Consents : d # c => consent'[d] = consent[d]
        /\ consent[c].at <= now
    BY <1>0, <1>3 DEF ConsentCheck, Clocked, Call
  <2>2. QED
    BY <1>0, <2>1, OneCallMoves DEF Took, HasReview
<1>4. CASE ConsentEnqueue(c)
  <2>1. /\ UNCHANGED <<now, submit, deadline, sweep, reviews>>
        /\ consent[c].st = "cleared" /\ consent[c].req \in Requests
        /\ FinalClass(consent[c].answer) \in Class
        /\ Enqueue(consent[c].req, FinalClass(consent[c].answer))
        /\ consent'[c].st = "waiting"
        /\ consent'[c].req = consent[c].req /\ consent'[c].at = consent[c].at
        /\ \A d \in Consents : d # c => consent'[d] = consent[d]
        /\ consent[c].at <= now
    BY <1>0, <1>4 DEF ConsentEnqueue, Clocked, Call, FinalClass, ReviewClass, Class
  <2>2. \A x : HasJob(x)' <=> HasJob(x) \/ x = consent[c].req
    BY <1>0, <2>1, EnqueueJobs
  <2>3. QED
    BY <2>1, <2>2, OneCallMoves DEF Took, HasReview
<1>5. CASE ConsentReply(c)
  <2>1. /\ UNCHANGED <<now, submit, deadline, sweep, schedVars, reviews>>
        /\ consent[c].st = "waiting" /\ consent'[c].st = "replied"
        /\ consent'[c].req = consent[c].req /\ consent'[c].at = consent[c].at
        /\ \A d \in Consents : d # c => consent'[d] = consent[d]
        /\ consent[c].at <= now /\ HasJob(consent[c].req)
    BY <1>0, <1>5 DEF ConsentReply, Clocked, Call
  <2>2. QED
    BY <1>0, <2>1, OneCallMoves DEF Took, HasReview
<1>6. QED
  BY <1>1, <1>2, <1>3, <1>4, <1>5 DEF ConsentArrives, ConsentProceeds

LEMMA SweeperClocked ==
    ASSUME Holding, Clocked, TimelyConsentHonoured, Sweeper
    PROVE  Clocked' /\ TimelyConsentHonoured'
<1>0. /\ now \in Nat /\ sweep.now \in Nat /\ sweep.now <= now
      /\ sweep \in [st : SweepState, now : 0..MaxTime, todo : SUBSET Review]
      /\ deadline \in [Requests -> 0..MaxTime]
      /\ sweep.todo \subseteq reviews /\ reviews \subseteq Review /\ SchedTypeOK
  BY TimeAssumption DEF Holding, TypeOK, Clocked, Custody
<1>1. CASE SweepTick \/ SweepLock \/ SweepUnlock
  <2>1. /\ UNCHANGED <<schedVars, now, submit, reviews, deadline, consent>>
        /\ sweep'.now \in Nat /\ sweep'.now <= now
    <3>1. CASE SweepTick
      BY <1>0, <3>1 DEF SweepTick
    <3>2. CASE SweepLock
      BY <1>0, <3>2 DEF SweepLock
    <3>3. CASE SweepUnlock
      BY <1>0, <3>3 DEF SweepUnlock
    <3>4. QED
      BY <1>1, <3>1, <3>2, <3>3
  <2>2. QED
    BY <1>0, <2>1, JobsKept, ClockedQuiet
<1>2. ASSUME NEW v \in sweep.todo, SweepVisit(v) PROVE Clocked' /\ TimelyConsentHonoured'
  <2>1. /\ UNCHANGED <<now, submit, deadline, consent>>
        /\ sweep'.now = sweep.now
        /\ v \in reviews /\ v.id \in Requests /\ v.expiresAt \in Nat
        /\ v.expiresAt = deadline[v.id]
    BY <1>0, <1>2 DEF SweepVisit, Review, Clocked
  <2>2. CASE ~(sweep.now > v.expiresAt)
    <3>1. UNCHANGED <<schedVars, reviews>>
      BY <1>2, <2>2 DEF SweepVisit
    <3>2. QED
      BY <1>0, <2>1, <3>1, JobsKept, ClockedQuiet
  <2>3. CASE sweep.now > v.expiresAt
    <3>1. Enqueue(v.id, ReviewClass) /\ reviews' = reviews \ {v}
      BY <1>2, <2>3 DEF SweepVisit
    <3>2. \A x : HasJob(x)' <=> HasJob(x) \/ x = v.id
      BY <1>0, <2>1, <3>1, EnqueueJobs DEF ReviewClass, Class
    <3>3. now > deadline[v.id]
      BY <1>0, <2>1, <2>3
    <3>4. \A r \in Requests : HasReview(r) => HasReview(r)' \/ r = v.id
      BY <3>1 DEF HasReview
    <3>5. \A c \in Consents :
             /\ consent'[c].at <= now'
             /\ consent'[c].st = "claimed" => consent'[c].until = deadline'[consent'[c].req]
             /\ consent'[c].st = "gone" => now' > deadline'[consent'[c].req]
             /\ consent'[c].st \in {"waiting", "replied"} => HasJob(consent[c].req)'
      BY <2>1, <3>2 DEF Clocked
    <3>6. \A r \in Requests : submit'[r] = "reviewed" =>
             \/ HasReview(r)'
             \/ \E c \in Consents : Took(c, r)'
             \/ HasJob(r)' /\ now' > deadline'[r]
      BY <2>1, <3>2, <3>3, <3>4 DEF Clocked, Took
    <3>7. TimelyConsentHonoured'
      BY <2>1 DEF TimelyConsentHonoured, Took
    <3>8. QED
      BY <1>0, <2>1, <3>1, <3>5, <3>6, <3>7 DEF Clocked
  <2>4. QED
    BY <2>2, <2>3
<1>3. QED
  BY <1>1, <1>2 DEF Sweeper, SweepScan

LEMMA NextClocked ==
    ASSUME Holding, Clocked, TimelyConsentHonoured, [Next]_vars
    PROVE  Clocked' /\ TimelyConsentHonoured'
<1>0. /\ now \in Nat /\ sweep.now \in Nat /\ sweep.now <= now
  BY TimeAssumption DEF Holding, TypeOK, Clocked
<1>1. ASSUME NEW r \in Requests, SubmitStep(r) PROVE Clocked' /\ TimelyConsentHonoured'
  BY <1>1, SubmitClocked
<1>2. ASSUME NEW c \in Consents, ConsentArrives(c) \/ ConsentProceeds(c)
      PROVE  Clocked' /\ TimelyConsentHonoured'
  BY <1>2, ConsentClocked
<1>3. CASE Sweeper
  BY <1>3, SweeperClocked
<1>4. CASE Worker \/ Tick \/ UNCHANGED vars
  <2>1. /\ UNCHANGED <<submit, sweep, reviews, deadline, consent>>
        /\ now' \in Nat /\ now <= now'
        /\ UNCHANGED schedVars \/ WorkerStep
    BY <1>0, <1>4 DEF Worker, Tick, vars, reviewVars
  <2>2. QED
    BY <1>0, <2>1, JobsKept, ClockedQuiet
<1>5. QED
  BY <1>1, <1>2, <1>3, <1>4 DEF Next

LEMMA ClockInvariance == Spec => [](Clocked /\ TimelyConsentHonoured)
<1>1. Init => Clocked /\ TimelyConsentHonoured
  BY DEF Init, NoCall, Clocked, TimelyConsentHonoured
<1>2. Holding /\ (Clocked /\ TimelyConsentHonoured) /\ [Next]_vars
         => (Clocked /\ TimelyConsentHonoured)'
  BY NextClocked
<1>3. QED
  BY <1>1, <1>2, HoldingInvariance, PTL DEF Spec

\* Whoever answers within the TTL is served, unless another of the user's calls
\* was: the sweeper's older clock reading can only make it late.
THEOREM TimelyConsent == Spec => []TimelyConsentHonoured
BY ClockInvariance, PTL

\* A suspended request is lost to a late /consent call (410) or not at all.
THEOREM OnlyLateConsentLoses == Spec => []LostOnlyToLateConsent
<1>1. Holding /\ Clocked => LostOnlyToLateConsent
  <2> SUFFICES ASSUME Holding, Clocked, NEW r \in Requests, submit[r] = "reviewed"
               PROVE  \/ HasReview(r)
                      \/ \E c \in Consents : Claims(c, r)
                      \/ HasJob(r)
                      \/ \E c \in Consents : /\ consent[c].st = "gone" /\ consent[c].req = r
                                            /\ now > deadline[r]
    BY DEF LostOnlyToLateConsent
  <2>1. ASSUME NEW c \in Consents, Took(c, r)
        PROVE  \/ Claims(c, r)
               \/ HasJob(r)
               \/ consent[c].st = "gone" /\ consent[c].req = r /\ now > deadline[r]
    BY <2>1 DEF Took, Claims, Clocked
  <2>2. QED
    BY <2>1 DEF Clocked
<1>2. QED
  BY <1>1, HoldingInvariance, ClockInvariance, PTL

-----------------------------------------------------------------------------
(* Refinement: the handlers, the sweeper and the worker implement ConsentGate *)

\* What the mapping to the gate rests on, beside custody: only class 2 requests are
\* assessed and suspended, a review is taken once, and one job runs at a time.
Gated ==
    /\ \A r \in Requests : submit[r] \in {"assessing", "reviewed"} => class[r] = 2
    /\ \A c \in Consents, r \in Requests : Took(c, r) =>
           /\ ~HasReview(r)
           /\ \A d \in Consents : Took(d, r) => d = c
    /\ Manned

\* As long as no review appears and nobody takes one, each has one taker.
LEMMA TakersKept ==
    ASSUME Gated, reviews' \subseteq reviews,
           \A c \in Consents, r \in Requests : Took(c, r)' => Took(c, r)
    PROVE  \A c \in Consents, r \in Requests : Took(c, r)' =>
               /\ ~HasReview(r)'
               /\ \A d \in Consents : Took(d, r)' => d = c
BY DEF Gated, HasReview

LEMMA SubmitGated ==
    ASSUME Holding, Gated, NEW q \in Requests, SubmitStep(q)
    PROVE  /\ \A r \in Requests : submit'[r] \in {"assessing", "reviewed"} => class'[r] = 2
           /\ \A c \in Consents, r \in Requests : Took(c, r)' =>
                  /\ ~HasReview(r)'
                  /\ \A d \in Consents : Took(d, r)' => d = c
<1>0. /\ submit \in [Requests -> SubmitState] /\ class \in [Requests -> {0} \cup Class]
      /\ consent' = consent
  BY DEF Holding, TypeOK, SubmitStep, SubmitRefuse, SubmitAccept, SubmitAssess, AssessProceed,
         AssessSuspend, SubmitEnqueue, SubmitReply
<1>1. \A r \in Requests : submit'[r] \in {"assessing", "reviewed"} => class'[r] = 2
  <2>1. ASSUME NEW k \in Class, SubmitAccept(q, k)
        PROVE  \A r \in Requests : submit'[r] \in {"assessing", "reviewed"} => class'[r] = 2
    BY <1>0, <2>1 DEF SubmitAccept, Gated
  <2>2. CASE SubmitRefuse(q) \/ SubmitAssess(q) \/ SubmitEnqueue(q) \/ SubmitReply(q)
    BY <1>0, <2>2 DEF SubmitRefuse, SubmitAssess, AssessProceed, AssessSuspend, SubmitEnqueue,
                      SubmitReply, Gated
  <2>3. QED
    BY <2>1, <2>2 DEF SubmitStep
<1>2. \A c \in Consents, r \in Requests : Took(c, r)' <=> Took(c, r)
  BY <1>0 DEF Took
<1>3. CASE reviews' = reviews
  BY <1>1, <1>2, <1>3, TakersKept
<1>4. CASE AssessSuspend(q)
  <2>1. \A c \in Consents : ~Took(c, q)
    BY <1>4 DEF AssessSuspend, Took, Holding, Tickets
  <2>2. ASSUME NEW r \in Requests, r # q, HasReview(r)' PROVE HasReview(r)
    BY <1>4, <2>2 DEF AssessSuspend, HasReview
  <2>3. QED
    BY <1>1, <1>2, <2>1, <2>2 DEF Gated
<1>5. QED
  BY <1>3, <1>4 DEF SubmitStep, SubmitRefuse, SubmitAccept, SubmitAssess, AssessProceed,
                    SubmitEnqueue, SubmitReply

LEMMA ConsentGated ==
    ASSUME Holding, Gated, NEW c \in Consents, ConsentArrives(c) \/ ConsentProceeds(c)
    PROVE  \A b \in Consents, r \in Requests : Took(b, r)' =>
               /\ ~HasReview(r)'
               /\ \A d \in Consents : Took(d, r)' => d = b
<1>0. consent \in [Consents -> Call]
  BY DEF Holding, TypeOK
<1>1. CASE ConsentProceeds(c) \/ \E r \in Requests : ConsentRefuse(c, r)
  <2>1. /\ reviews' = reviews
        /\ \A b \in Consents : b # c => consent'[b] = consent[b]
        /\ consent'[c].st # "refused" => consent'[c].req = consent[c].req
        /\ consent'[c].st = "refused" \/ consent[c].st \in {"claimed", "cleared", "waiting"}
    BY <1>0, <1>1 DEF ConsentProceeds, ConsentCheck, ConsentEnqueue, ConsentReply, ConsentRefuse,
                      Call, NoCall
  <2>2. \A b \in Consents, r \in Requests : Took(b, r)' => Took(b, r)
    BY <2>1 DEF Took
  <2>3. QED
    BY <2>1, <2>2, TakersKept
<1>2. ASSUME NEW q \in Requests, NEW answer \in Answers, ConsentClaim(c, q, answer)
      PROVE  \A b \in Consents, r \in Requests : Took(b, r)' =>
                 /\ ~HasReview(r)'
                 /\ \A d \in Consents : Took(d, r)' => d = b
  <2>1. CASE \E v \in reviews :
                /\ v.id = q
                /\ reviews' = reviews \ {v}
                /\ consent' = [consent EXCEPT ![c] = [st |-> "claimed", req |-> q,
                                  answer |-> answer, until |-> v.expiresAt, at |-> now]]
    <3>1. /\ HasReview(q) /\ ~HasReview(q)'
          /\ \A r \in Requests : HasReview(r)' => HasReview(r)
      BY <2>1 DEF HasReview, Holding, Custody
    <3>2. /\ consent'[c].st = "claimed" /\ consent'[c].req = q
          /\ \A b \in Consents : b # c => consent'[b] = consent[b]
      BY <1>0, <2>1
    <3>3. \A b \in Consents, r \in Requests :
              Took(b, r)' <=> (b = c /\ r = q) \/ (b # c /\ Took(b, r))
      BY <3>2 DEF Took
    <3>4. \A b \in Consents : ~Took(b, q)
      BY <3>1 DEF Gated
    <3>5. QED
      BY <3>1, <3>3, <3>4 DEF Gated
  <2>2. CASE /\ UNCHANGED reviews
             /\ consent' = [consent EXCEPT ![c] = [st |-> "notfound", req |-> q,
                               answer |-> answer, until |-> 0, at |-> now]]
    <3>1. /\ consent'[c].st = "notfound"
          /\ \A b \in Consents : b # c => consent'[b] = consent[b]
      BY <1>0, <2>2
    <3>2. \A b \in Consents, r \in Requests : Took(b, r)' => Took(b, r)
      BY <3>1 DEF Took
    <3>3. QED
      BY <2>2, <3>2, TakersKept
  <2>3. QED
    BY <1>2, <2>1, <2>2 DEF ConsentClaim
<1>3. QED
  BY <1>1, <1>2 DEF ConsentArrives

LEMMA NextGated ==
    ASSUME Holding, Gated, [Next]_vars
    PROVE  Gated'
<1>0. Manned'
  BY SchedSees, MannedStep DEF Holding, TypeOK, Gated
<1>1. SUFFICES /\ \A r \in Requests : submit'[r] \in {"assessing", "reviewed"} => class'[r] = 2
               /\ \A c \in Consents, r \in Requests : Took(c, r)' =>
                      /\ ~HasReview(r)'
                      /\ \A d \in Consents : Took(d, r)' => d = c
  BY <1>0 DEF Gated
<1>2. ASSUME NEW q \in Requests, SubmitStep(q)
      PROVE  /\ \A r \in Requests : submit'[r] \in {"assessing", "reviewed"} => class'[r] = 2
             /\ \A c \in Consents, r \in Requests : Took(c, r)' =>
                    /\ ~HasReview(r)'
                    /\ \A d \in Consents : Took(d, r)' => d = c
  BY <1>2, SubmitGated
<1>3. ASSUME NEW q \in Consents, ConsentArrives(q) \/ ConsentProceeds(q)
      PROVE  /\ \A r \in Requests : submit'[r] \in {"assessing", "reviewed"} => class'[r] = 2
             /\ \A c \in Consents, r \in Requests : Took(c, r)' =>
                    /\ ~HasReview(r)'
                    /\ \A d \in Consents : Took(d, r)' => d = c
  <2>1. UNCHANGED <<submit, class>>
    BY <1>3 DEF ConsentArrives, ConsentRefuse, ConsentClaim, ConsentProceeds, ConsentCheck,
                ConsentEnqueue, ConsentReply
  <2>2. QED
    BY <1>3, <2>1, ConsentGated DEF Gated
<1>4. CASE Sweeper \/ Worker \/ Tick \/ UNCHANGED vars
  <2>1. UNCHANGED <<submit, class, consent>> /\ reviews' \subseteq reviews
    BY <1>4 DEF Sweeper, SweepTick, SweepLock, SweepScan, SweepVisit, SweepUnlock, Worker, Tick,
                vars, reviewVars
  <2>2. \A c \in Consents, r \in Requests : Took(c, r)' => Took(c, r)
    BY <2>1 DEF Took
  <2>3. QED
    BY <2>1, <2>2, TakersKept DEF Gated
<1>5. QED
  BY <1>2, <1>3, <1>4 DEF Next

LEMMA GatedInvariance == Spec => [](Holding /\ Gated)
<1>1. Init => Gated
  BY MannedInit DEF Init, NoCall, Gated, Took
<1>2. Holding /\ Gated /\ [Next]_vars => Gated'
  BY NextGated
<1>3. QED
  BY <1>1, <1>2, HoldingInvariance, PTL DEF Spec

\* No result channel has two readers, so none is left blocked on a channel that
\* another has emptied.
OneReader ==
    \A g, h \in Handlers : ticket[g] # 0 /\ ticket[g] = ticket[h] => g = h

\* A /submit handler that waits has kept its request from review, and of the /consent
\* calls of a review one at most has taken it: OneReader is an invariant of the gate.
THEOREM GateOneReader == Spec => []OneReader
<1>1. ASSUME Holding, Gated, OwnAnswers PROVE OneReader
  <2>1. ASSUME NEW c \in Consents, ticket[c] # 0
        PROVE  /\ consent[c].req \in Requests /\ submit[consent[c].req] = "reviewed"
               /\ jobs[ticket[c]].req = consent[c].req /\ Took(c, consent[c].req)
    BY <1>1, <2>1 DEF Holding, Tickets, OwnAnswers, Reads, Took
  <2>2. ASSUME NEW r \in Requests, ticket[r] # 0
        PROVE  submit[r] # "reviewed" /\ jobs[ticket[r]].req = r
    BY <1>1, <2>2 DEF OwnAnswers, Reads
  <2>3. QED
    BY <1>1, <2>1, <2>2 DEF Gated, OneReader, Handlers
<1>2. QED
  BY <1>1, GatedInvariance, AnswersInvariance, PTL

\* How far a request without a job has come.
Phase(r) ==
    IF submit[r] \in {"idle", "refused"} THEN "none"
    ELSE IF submit[r] # "reviewed" THEN "asked"
    ELSE IF \E c \in Consents : consent[c].st = "gone" /\ consent[c].req = r THEN "lapsed"
    ELSE "offered"

\* A request stands where its job stands, or else where its handlers have left it.
Viewed ==
    \A r \in Requests :
        /\ \A s \in DOMAIN jobs : jobs[s].req = r =>
               Standing(r) = JobStanding(jobs[s].st) /\ Grade(r) = jobs[s].class
        /\ ~HasJob(r) => Standing(r) = Phase(r) /\ Grade(r) = class[r]

LEMMA Views == AtMostOnce => Viewed
<1> SUFFICES ASSUME AtMostOnce, NEW r \in Requests
             PROVE  /\ \A s \in DOMAIN jobs : jobs[s].req = r =>
                           Standing(r) = JobStanding(jobs[s].st) /\ Grade(r) = jobs[s].class
                    /\ ~HasJob(r) => Standing(r) = Phase(r) /\ Grade(r) = class[r]
  BY DEF Viewed
<1>1. ASSUME NEW s \in DOMAIN jobs, jobs[s].req = r
      PROVE  Standing(r) = JobStanding(jobs[s].st) /\ Grade(r) = jobs[s].class
  <2>1. JobsOf(r) = {s}
    BY <1>1 DEF AtMostOnce, JobsOf
  <2>2. (CHOOSE t \in {s} : TRUE) = s
    OBVIOUS
  <2>3. QED
    BY <2>1, <2>2 DEF Standing, Grade
<1>2. ASSUME ~HasJob(r) PROVE Standing(r) = Phase(r) /\ Grade(r) = class[r]
  <2>1. JobsOf(r) = {}
    BY <1>2 DEF JobsOf, HasJob
  <2>2. QED
    BY <2>1 DEF Standing, Grade, Phase
<1>3. QED
  BY <1>1, <1>2

LEMMA ViewsNext == AtMostOnce' => Viewed'
BY Views, PTL

\* The jobs stay, and the requests without one stay in their phase.
LEMMA StandStill ==
    ASSUME Viewed, Viewed', jobs' = jobs, NEW r \in Requests, class'[r] = class[r],
           ~HasJob(r) => Phase(r)' = Phase(r)
    PROVE  Standing(r)' = Standing(r) /\ Grade(r)' = Grade(r)
<1>1. CASE HasJob(r)
  <2>1. PICK s \in DOMAIN jobs : jobs[s].req = r
    BY <1>1 DEF HasJob
  <2>2. Standing(r) = JobStanding(jobs[s].st) /\ Grade(r) = jobs[s].class
    BY <2>1 DEF Viewed
  <2>3. Standing(r)' = JobStanding(jobs[s].st) /\ Grade(r)' = jobs[s].class
    BY <2>1 DEF Viewed, JobStanding
  <2>4. QED
    BY <2>2, <2>3
<1>2. CASE ~HasJob(r)
  <2>1. ~HasJob(r)'
    BY <1>2 DEF HasJob
  <2>2. QED
    BY <1>2, <2>1 DEF Viewed
<1>3. QED
  BY <1>1, <1>2

\* A step of one job moves its own request and no other.
LEMMA StandMoved ==
    ASSUME Viewed, Viewed', AtMostOnce, DOMAIN jobs' = DOMAIN jobs,
           NEW q \in Requests, NEW s \in DOMAIN jobs, jobs[s].req = q,
           jobs'[s].req = q, jobs'[s].class = jobs[s].class,
           \A t \in DOMAIN jobs : t # s => jobs'[t] = jobs[t],
           UNCHANGED <<submit, class, consent>>
    PROVE  /\ Standing(q) = JobStanding(jobs[s].st)
           /\ Standing(q)' = JobStanding(jobs'[s].st)
           /\ \A r \in Requests : r # q => Standing(r)' = Standing(r)
           /\ \A r \in Requests : Grade(r)' = Grade(r)
<1>1. Standing(q) = JobStanding(jobs[s].st) /\ Grade(q) = jobs[s].class
  BY DEF Viewed
<1>2. Standing(q)' = JobStanding(jobs'[s].st) /\ Grade(q)' = jobs[s].class
  BY DEF Viewed, JobStanding
<1>3. ASSUME NEW r \in Requests, r # q
      PROVE  Standing(r)' = Standing(r) /\ Grade(r)' = Grade(r)
  <2>1. CASE HasJob(r)
    <3>1. PICK t \in DOMAIN jobs : jobs[t].req = r
      BY <2>1 DEF HasJob
    <3>2. t \in DOMAIN jobs' /\ jobs'[t] = jobs[t]
      BY <1>3, <3>1
    <3>3. Standing(r)' = JobStanding(jobs[t].st) /\ Grade(r)' = jobs[t].class
      BY <3>1, <3>2 DEF Viewed, JobStanding
    <3>4. Standing(r) = JobStanding(jobs[t].st) /\ Grade(r) = jobs[t].class
      BY <3>1 DEF Viewed
    <3>5. QED
      BY <3>3, <3>4
  <2>2. CASE ~HasJob(r)
    <3>1. ~HasJob(r)' /\ Phase(r)' = Phase(r)
      BY <1>3, <2>2 DEF HasJob, Phase
    <3>2. QED
      BY <2>2, <3>1 DEF Viewed
  <2>3. QED
    BY <2>1, <2>2
<1>4. QED
  BY <1>1, <1>2, <1>3

\* An arrival gives its own request a job, of its class.
LEMMA StandEnqueued ==
    ASSUME Holding, Viewed, Viewed', NEW q \in Requests, NEW k \in Class, Enqueue(q, k),
           ~HasJob(q), class' = class,
           \A r \in Requests : r # q /\ ~HasJob(r) => Phase(r)' = Phase(r)
    PROVE  /\ Standing(q) = Phase(q) /\ Standing(q)' = "accepted"
           /\ Grade(q) = class[q] /\ Grade(q)' = k
           /\ \A r \in Requests : r # q => Standing(r)' = Standing(r) /\ Grade(r)' = Grade(r)
<1>1. /\ DOMAIN jobs = 1..Len(jobs) /\ DOMAIN jobs' = 1..(Len(jobs) + 1) /\ Len(jobs) \in Nat
      /\ \A s \in 1..Len(jobs) : jobs'[s] = jobs[s]
      /\ jobs'[Len(jobs) + 1] = [req |-> q, class |-> k, st |-> "queued", ok |-> FALSE,
                                 start |-> 0, ahead |-> starts]
  <2>1. SchedTypeOK /\ jobs \in Seq(Job)
    BY DEF Holding, TypeOK, SchedTypeOK
  <2>2. QED
    BY <2>1, JobTable, EnqueueShape
<1>2. Standing(q)' = "accepted" /\ Grade(q)' = k
  <2>1. /\ Len(jobs) + 1 \in DOMAIN jobs'
        /\ jobs'[Len(jobs) + 1].req = q /\ jobs'[Len(jobs) + 1].class = k
        /\ jobs'[Len(jobs) + 1].st = "queued"
    BY <1>1
  <2>2. QED
    BY <2>1 DEF Viewed, JobStanding
<1>3. ASSUME NEW r \in Requests, r # q
      PROVE  Standing(r)' = Standing(r) /\ Grade(r)' = Grade(r)
  <2>1. CASE HasJob(r)
    <3>1. PICK t \in DOMAIN jobs : jobs[t].req = r
      BY <2>1 DEF HasJob
    <3>2. t \in DOMAIN jobs' /\ jobs'[t] = jobs[t]
      BY <1>1, <3>1
    <3>3. Standing(r)' = JobStanding(jobs[t].st) /\ Grade(r)' = jobs[t].class
      BY <3>1, <3>2 DEF Viewed, JobStanding
    <3>4. Standing(r) = JobStanding(jobs[t].st) /\ Grade(r) = jobs[t].class
      BY <3>1 DEF Viewed
    <3>5. QED
      BY <3>3, <3>4
  <2>2. CASE ~HasJob(r)
    <3>1. ~HasJob(r)'
      BY <1>1, <1>3, <2>2 DEF HasJob
    <3>2. QED
      BY <1>3, <2>2, <3>1 DEF Viewed
  <2>3. QED
    BY <2>1, <2>2
<1>4. QED
  BY <1>2, <1>3 DEF Viewed

Approvals ==
    {r \in Requests : \E c \in Consents : Took(c, r) /\ consent[c].answer = "upgrade"}

\* One request moves in the gate, or none does.
LEMMA GateMoves ==
    ASSUME NEW q \in Requests, NEW from, NEW to, Standing(q) = from, Standing(q)' = to,
           \A r \in Requests : r # q => Standing(r)' = Standing(r)
    PROVE  Gate!Move(q, from, to)
BY DEF Gate!Move

LEMMA GateRests ==
    ASSUME \A r \in Requests : Standing(r)' = Standing(r) /\ Grade(r)' = Grade(r),
           Approvals' = Approvals
    PROVE  UNCHANGED Gate!gateVars
BY DEF Gate!gateVars, Approvals

LEMMA SubmitGate ==
    ASSUME Holding, Gated, Viewed, Viewed', NEW q \in Requests, SubmitStep(q)
    PROVE  [Gate!GateNext]_Gate!gateVars
<1>0. /\ submit \in [Requests -> SubmitState] /\ class \in [Requests -> {0} \cup Class]
      /\ consent' = consent
  BY DEF Holding, TypeOK, SubmitStep, SubmitRefuse, SubmitAccept, SubmitAssess, AssessProceed,
         AssessSuspend, SubmitEnqueue, SubmitReply
<1>1. Approvals' = Approvals
  BY <1>0 DEF Approvals, Took
<1>2. \A r \in Requests : r # q => submit'[r] = submit[r] /\ Phase(r)' = Phase(r)
  <2>1. \A r \in Requests : r # q => submit'[r] = submit[r]
    BY <1>0 DEF SubmitStep, SubmitRefuse, SubmitAccept, SubmitAssess, AssessProceed,
                AssessSuspend, SubmitEnqueue, SubmitReply
  <2>2. QED
    BY <1>0, <2>1 DEF Phase
<1>3. CASE SubmitRefuse(q) \/ AssessProceed(q) \/ SubmitReply(q)
  <2>1. class' = class /\ jobs' = jobs /\ (~HasJob(q) => Phase(q)' = Phase(q))
    <3>1. CASE SubmitRefuse(q) \/ AssessProceed(q)
      BY <1>0, <3>1 DEF SubmitRefuse, AssessProceed, schedVars, Phase
    <3>2. CASE SubmitReply(q)
      BY <1>0, <3>2 DEF SubmitReply, schedVars, Phase
    <3>3. QED
      BY <1>3, <3>1, <3>2
  <2>2. \A r \in Requests : Standing(r)' = Standing(r) /\ Grade(r)' = Grade(r)
    BY <1>2, <2>1, StandStill
  <2>3. QED
    BY <1>1, <2>2, GateRests
<1>4. ASSUME NEW k \in Class, SubmitAccept(q, k) PROVE Gate!GateNext
  <2>1. /\ submit[q] = "idle" /\ submit'[q] \in {"assessing", "admitted"} /\ jobs' = jobs
        /\ class'[q] = k /\ \A r \in Requests : r # q => class'[r] = class[r]
        /\ ~HasJob(q) /\ ~HasJob(q)'
    BY <1>0, <1>4 DEF SubmitAccept, schedVars, Holding, Custody, HasJob
  <2>2. Standing(q) = "none" /\ Standing(q)' = "asked" /\ Grade(q)' = k
    BY <2>1 DEF Viewed, Phase
  <2>3. \A r \in Requests : r # q => Standing(r)' = Standing(r) /\ Grade(r)' = Grade(r)
    BY <1>2, <2>1, StandStill
  <2>4. Gate!Move(q, "none", "asked")
    BY <2>2, <2>3, GateMoves
  <2>5. Gate!Ask(q, k)
    BY <1>1, <2>2, <2>3, <2>4 DEF Gate!Ask, Approvals
  <2>6. QED
    BY <2>5 DEF Gate!GateNext, Class
<1>5. CASE AssessSuspend(q)
  <2>1. /\ submit[q] = "assessing" /\ submit'[q] = "reviewed"
        /\ jobs' = jobs /\ class' = class /\ class[q] = 2 /\ ~HasJob(q) /\ ~HasJob(q)'
        /\ \A c \in Consents : ~(consent[c].st = "gone" /\ consent[c].req = q)
    BY <1>0, <1>5 DEF AssessSuspend, schedVars, Holding, Custody, HasJob, Tickets, Gated
  <2>2. Standing(q) = "asked" /\ Standing(q)' = "offered" /\ Grade(q) = 2 /\ Grade(q)' = 2
    BY <1>0, <2>1 DEF Viewed, Phase
  <2>3. \A r \in Requests : r # q => Standing(r)' = Standing(r) /\ Grade(r)' = Grade(r)
    BY <1>2, <2>1, StandStill
  <2>4. Gate!Move(q, "asked", "offered")
    BY <2>2, <2>3, GateMoves
  <2>5. Gate!Offer(q)
    BY <1>1, <2>2, <2>3, <2>4 DEF Gate!Offer, Approvals
  <2>6. QED
    BY <2>5 DEF Gate!GateNext
<1>6. CASE SubmitEnqueue(q)
  <2>1. /\ submit[q] = "admitted" /\ Enqueue(q, class[q]) /\ class[q] \in Class /\ class' = class
        /\ ~HasJob(q) /\ \A c \in Consents : ~Took(c, q)
    BY <1>6 DEF SubmitEnqueue, Holding, Custody, Tickets, Took
  <2>2. /\ Standing(q) = "asked" /\ Standing(q)' = "accepted"
        /\ \A r \in Requests : r # q => Standing(r)' = Standing(r)
        /\ \A r \in Requests : Grade(r)' = Grade(r)
    BY <1>2, <2>1, StandEnqueued DEF Phase
  <2>3. Gate!Move(q, "asked", "accepted") /\ q \notin Approvals
    BY <2>1, <2>2, GateMoves DEF Approvals
  <2>4. Gate!Accept(q)
    BY <1>1, <2>2, <2>3 DEF Gate!Accept, Approvals
  <2>5. QED
    BY <2>4 DEF Gate!GateNext
<1>7. QED
  BY <1>3, <1>4, <1>5, <1>6 DEF SubmitStep, SubmitAssess

LEMMA ConsentStepGate ==
    ASSUME Holding, Gated, Viewed, Viewed', NEW c \in Consents,
           ConsentArrives(c) \/ ConsentProceeds(c)
    PROVE  [Gate!GateNext]_Gate!gateVars
<1>0. /\ consent \in [Consents -> Call] /\ class' = class /\ submit' = submit
      /\ consent[c].st \notin {"idle", "refused"} =>
             consent[c].req \in Requests /\ submit[consent[c].req] = "reviewed"
  BY DEF Holding, TypeOK, Tickets, ConsentArrives, ConsentProceeds, ConsentRefuse,
         ConsentClaim, ConsentCheck, ConsentEnqueue, ConsentReply
<1>1. ASSUME jobs' = jobs, Approvals' = Approvals,
             \A r \in Requests : Phase(r)' = Phase(r)
      PROVE  UNCHANGED Gate!gateVars
  BY <1>0, <1>1, StandStill, GateRests
<1>2. ASSUME NEW q \in Requests, ConsentRefuse(c, q)
      PROVE  UNCHANGED Gate!gateVars
  <2>1. /\ consent[c].st = "idle" /\ consent'[c].st = "refused" /\ jobs' = jobs
        /\ \A d \in Consents : d # c => consent'[d] = consent[d]
    BY <1>0, <1>2 DEF ConsentRefuse, NoCall, schedVars
  <2>2. \A r \in Requests : Phase(r)' = Phase(r)
    BY <1>0, <2>1 DEF Phase
  <2>3. Approvals' = Approvals
    BY <2>1 DEF Approvals, Took
  <2>4. QED
    BY <1>1, <2>1, <2>2, <2>3
<1>3. ASSUME NEW q \in Requests, NEW answer \in Answers, ConsentClaim(c, q, answer)
      PROVE  [Gate!GateNext]_Gate!gateVars
  <2>1. /\ consent[c].st = "idle" /\ jobs' = jobs /\ submit[q] = "reviewed"
        /\ consent'[c].st \in {"claimed", "notfound"}
        /\ consent'[c].req = q /\ consent'[c].answer = answer
        /\ consent'[c].st = "claimed" => HasReview(q)
        /\ \A d \in Consents : d # c => consent'[d] = consent[d]
    BY <1>0, <1>3 DEF ConsentClaim, schedVars, HasReview
  <2>2. \A r \in Requests : Phase(r)' = Phase(r)
    BY <1>0, <2>1 DEF Phase
  <2>3. CASE consent'[c].st = "claimed" /\ answer = "upgrade"
    <3>1. Approvals' = Approvals \cup {q}
      BY <2>1, <2>3 DEF Approvals, Took
    <3>2. ~HasJob(q) /\ \A d \in Consents : ~Took(d, q)
      BY <2>1, <2>3 DEF Holding, Custody, Gated
    <3>3. Standing(q) = "offered"
      BY <2>1, <3>2 DEF Viewed, Phase, Took
    <3>4. \A r \in Requests : Standing(r)' = Standing(r) /\ Grade(r)' = Grade(r)
      BY <1>0, <2>1, <2>2, StandStill
    <3>5. Gate!Approve(q)
      BY <3>1, <3>3, <3>4 DEF Gate!Approve, Approvals
    <3>6. QED
      BY <3>5 DEF Gate!GateNext
  <2>4. CASE ~(consent'[c].st = "claimed" /\ answer = "upgrade")
    <3>1. Approvals' = Approvals
      BY <2>1, <2>4 DEF Approvals, Took
    <3>2. QED
      BY <1>1, <2>1, <2>2, <3>1
  <2>5. QED
    BY <2>3, <2>4
<1>4. CASE ConsentCheck(c)
  <2>0. PICK q \in Requests : q = consent[c].req
    BY <1>0, <1>4 DEF ConsentCheck
  <2>1. /\ consent[c].st = "claimed" /\ consent[c].req = q /\ submit[q] = "reviewed"
        /\ consent'[c].st \in {"gone", "cleared"} /\ jobs' = jobs
        /\ consent'[c].req = q /\ consent'[c].answer = consent[c].answer
        /\ \A d \in Consents : d # c => consent'[d] = consent[d]
    BY <1>0, <1>4, <2>0 DEF ConsentCheck, Call, schedVars
  <2>2. Approvals' = Approvals
    BY <2>1 DEF Approvals, Took
  <2>3. \A r \in Requests : r # q => Phase(r)' = Phase(r)
    BY <1>0, <2>1 DEF Phase
  <2>4. CASE consent'[c].st = "cleared"
    <3>1. \A r \in Requests : Phase(r)' = Phase(r)
      BY <1>0, <2>1, <2>4 DEF Phase
    <3>2. QED
      BY <1>1, <2>1, <2>2, <3>1
  <2>5. CASE consent'[c].st = "gone"
    <3>1. /\ ~HasJob(q) /\ ~HasJob(q)'
          /\ \A d \in Consents : ~(consent[d].st = "gone" /\ consent[d].req = q)
      BY <2>1 DEF Holding, Custody, Claims, Gated, Took, HasJob
    <3>2. Phase(q) = "offered" /\ Phase(q)' = "lapsed"
      BY <1>0, <2>1, <2>5, <3>1 DEF Phase
    <3>3. Standing(q) = "offered" /\ Standing(q)' = "lapsed" /\ Grade(q)' = Grade(q)
      BY <1>0, <2>1, <3>1, <3>2 DEF Viewed
    <3>4. \A r \in Requests : r # q => Standing(r)' = Standing(r) /\ Grade(r)' = Grade(r)
      BY <1>0, <2>1, <2>3, StandStill
    <3>5. Gate!Move(q, "offered", "lapsed")
      BY <2>1, <3>3, <3>4, GateMoves
    <3>6. Gate!Lapse(q)
      BY <2>2, <3>3, <3>4, <3>5 DEF Gate!Lapse, Approvals
    <3>7. QED
      BY <2>1, <3>6 DEF Gate!GateNext
  <2>6. QED
    BY <2>1, <2>4, <2>5
<1>5. CASE ConsentEnqueue(c)
  <2>0. PICK q \in Requests, k \in Class :
            q = consent[c].req /\ k = FinalClass(consent[c].answer)
    BY <1>0, <1>5 DEF ConsentEnqueue, FinalClass, ReviewClass, Class
  <2>1. /\ consent[c].st = "cleared" /\ consent[c].req = q /\ submit[q] = "reviewed"
        /\ consent'[c].st = "waiting" /\ Enqueue(q, k)
        /\ consent'[c].req = q /\ consent'[c].answer = consent[c].answer
        /\ \A d \in Consents : d # c => consent'[d] = consent[d]
    BY <1>0, <1>5, <2>0 DEF ConsentEnqueue, Call
  <2>2. /\ ~HasJob(q) /\ class[q] = 2
        /\ \A d \in Consents : Took(d, q) => d = c
    BY <2>1 DEF Holding, Custody, Claims, Gated, Took
  <2>3. Approvals' = Approvals /\ (q \in Approvals <=> consent[c].answer = "upgrade")
    BY <2>1, <2>2 DEF Approvals, Took
  <2>4. (\A r \in Requests : Phase(r)' = Phase(r)) /\ Phase(q) = "offered"
    BY <1>0, <2>1, <2>2 DEF Phase, Took
  <2>5. /\ Standing(q) = "offered" /\ Standing(q)' = "accepted"
        /\ Grade(q) = 2 /\ Grade(q)' = k
        /\ \A r \in Requests : r # q => Standing(r)' = Standing(r) /\ Grade(r)' = Grade(r)
    BY <1>0, <2>1, <2>2, <2>4, StandEnqueued
  <2>6. Gate!Move(q, "offered", "accepted")
    BY <2>1, <2>5, GateMoves
  <2>7. CASE consent[c].answer = "upgrade"
    <3>1. k = 1
      BY <2>0, <2>7 DEF FinalClass
    <3>2. Gate!Upgrade(q)
      BY <2>1, <2>3, <2>5, <2>6, <2>7, <3>1 DEF Gate!Upgrade, Approvals
    <3>3. QED
      BY <2>1, <3>2 DEF Gate!GateNext
  <2>8. CASE consent[c].answer # "upgrade"
    <3>1. k = 2
      BY <2>0, <2>8 DEF FinalClass, ReviewClass
    <3>2. \A r \in Requests : Grade(r)' = Grade(r)
      BY <2>5, <3>1
    <3>3. Gate!Accept(q)
      BY <2>3, <2>6, <2>8, <3>2 DEF Gate!Accept, Approvals
    <3>4. QED
      BY <2>1, <3>3 DEF Gate!GateNext
  <2>9. QED
    BY <2>7, <2>8
<1>6. CASE ConsentReply(c)
  <2>1. /\ consent[c].st = "waiting" /\ consent'[c].st = "replied" /\ jobs' = jobs
        /\ consent'[c].req = consent[c].req /\ consent'[c].answer = consent[c].answer
        /\ \A d \in Consents : d # c => consent'[d] = consent[d]
    BY <1>0, <1>6 DEF ConsentReply, Call, schedVars
  <2>2. Approvals' = Approvals
    BY <2>1 DEF Approvals, Took
  <2>3. \A r \in Requests : Phase(r)' = Phase(r)
    BY <1>0, <2>1 DEF Phase
  <2>4. QED
    BY <1>1, <2>1, <2>2, <2>3
<1>7. QED
  BY <1>2, <1>3, <1>4, <1>5, <1>6 DEF ConsentArrives, ConsentProceeds

\* An expired review runs as asked: nobody has taken it, so nobody approved.
LEMMA SweeperGate ==
    ASSUME Holding, Gated, Viewed, Viewed', Sweeper
    PROVE  [Gate!GateNext]_Gate!gateVars
<1>0. class' = class /\ submit' = submit /\ consent' = consent
  BY DEF Sweeper, SweepTick, SweepLock, SweepScan, SweepVisit, SweepUnlock
<1>1. Approvals' = Approvals /\ \A r \in Requests : Phase(r)' = Phase(r)
  BY <1>0 DEF Approvals, Took, Phase
<1>2. CASE jobs' = jobs
  BY <1>0, <1>1, <1>2, StandStill, GateRests
<1>3. ASSUME NEW v \in sweep.todo, Enqueue(v.id, ReviewClass)
      PROVE  Gate!GateNext
  <2>0. PICK q \in Requests : q = v.id
    BY DEF Holding, TypeOK, Review
  <2>1. /\ HasReview(q) /\ ~HasJob(q) /\ submit[q] = "reviewed"
        /\ class[q] = 2 /\ \A c \in Consents : ~Took(c, q)
    BY <2>0 DEF Holding, Custody, HasReview, Gated
  <2>2. Enqueue(q, 2) /\ 2 \in Class
    BY <1>3, <2>0 DEF ReviewClass, Class
  <2>3. Phase(q) = "offered" /\ q \notin Approvals
    BY <2>1 DEF Phase, Took, Approvals
  <2>4. /\ Standing(q) = "offered" /\ Standing(q)' = "accepted"
        /\ \A r \in Requests : r # q => Standing(r)' = Standing(r)
        /\ \A r \in Requests : Grade(r)' = Grade(r)
    BY <1>0, <1>1, <2>1, <2>2, <2>3, StandEnqueued
  <2>5. Gate!Move(q, "offered", "accepted")
    BY <2>1, <2>4, GateMoves
  <2>6. Gate!Accept(q)
    BY <1>1, <2>3, <2>4, <2>5 DEF Gate!Accept, Approvals
  <2>7. QED
    BY <2>1, <2>6 DEF Gate!GateNext
<1>4. QED
  BY <1>2, <1>3 DEF Sweeper, SweepTick, SweepLock, SweepScan, SweepVisit, SweepUnlock, schedVars

\* The worker starts the first job of the gate's order, and settles it.
LEMMA WorkerGate ==
    ASSUME Holding, Gated, Viewed, Viewed', Worker
    PROVE  [Gate!GateNext]_Gate!gateVars
<1>0. /\ SchedTypeOK /\ AtMostOnce /\ UNCHANGED <<submit, class, consent>>
      /\ \A s \in DOMAIN jobs : jobs[s].req \in Requests /\ jobs[s].class \in Nat
  <2>1. SchedTypeOK /\ AtMostOnce
    BY DEF Holding, TypeOK
  <2>2. UNCHANGED <<submit, class, consent>>
    BY DEF Worker, reviewVars
  <2>3. \A s \in DOMAIN jobs : jobs[s].req \in Requests /\ jobs[s].class \in Nat
    BY <2>1, JobTable DEF SchedTypeOK
  <2>4. QED
    BY <2>1, <2>2, <2>3
<1>1. Approvals' = Approvals /\ \A r \in Requests : Phase(r)' = Phase(r)
  BY <1>0 DEF Approvals, Took, Phase
<1>2. CASE WorkerSleep
  BY <1>0, <1>1, <1>2, StandStill, GateRests DEF WorkerSleep
<1>3. ASSUME NEW s \in Queue, WorkerPop(s) PROVE Gate!GateNext
  <2>0. PICK q \in Requests : q = jobs[s].req
    BY <1>0 DEF Queue
  <2>1. /\ s \in DOMAIN jobs /\ jobs[s].st = "queued" /\ jobs[s].req = q
        /\ DOMAIN jobs' = DOMAIN jobs /\ jobs'[s].st = "running"
        /\ jobs'[s].req = q /\ jobs'[s].class = jobs[s].class
        /\ \A t \in DOMAIN jobs : t # s => jobs'[t] = jobs[t]
    BY <1>0, <1>3, <2>0, PopShape DEF Keeps, Queue
  <2>2. /\ Standing(q) = "accepted" /\ Standing(q)' = "serving"
        /\ \A r \in Requests : r # q => Standing(r)' = Standing(r)
        /\ \A r \in Requests : Grade(r)' = Grade(r)
    BY <1>0, <2>1, StandMoved DEF JobStanding
  <2>3. ASSUME NEW r \in Requests PROVE Standing(r) # "serving"
    <3>1. ASSUME NEW t \in DOMAIN jobs, jobs[t].req = r PROVE Standing(r) # "serving"
      <4>1. jobs[t].st # "running"
        BY <1>0, <1>3, JobTable DEF WorkerPop, Gated, Manned, SchedTypeOK
      <4>2. QED
        BY <3>1, <4>1 DEF Viewed, JobStanding
    <3>2. CASE ~HasJob(r)
      BY <3>2 DEF Viewed, Phase
    <3>3. QED
      BY <3>1, <3>2 DEF HasJob
  <2>4. ASSUME NEW r \in Requests, Standing(r) = "accepted" PROVE Grade(q) <= Grade(r)
    <3>1. HasJob(r)
      BY <2>4 DEF Viewed, Phase
    <3>2. PICK t \in DOMAIN jobs : jobs[t].req = r
      BY <3>1 DEF HasJob
    <3>3. t \in Queue
      BY <1>0, <2>4, <3>2, JobTable DEF Viewed, JobStanding, Queue, SchedTypeOK, Job, JobState
    <3>4. jobs[s].class <= jobs[t].class
      BY <1>0, <1>3, <2>1, <3>2, <3>3 DEF WorkerPop, Less
    <3>5. QED
      BY <2>1, <3>2, <3>4 DEF Viewed
  <2>5. Gate!Move(q, "accepted", "serving")
    BY <2>1, <2>2, GateMoves
  <2>6. Gate!Start(q)
    BY <1>1, <2>1, <2>2, <2>3, <2>4, <2>5 DEF Gate!Start, Approvals
  <2>7. QED
    BY <2>1, <2>6 DEF Gate!GateNext
<1>4. ASSUME NEW ok \in BOOLEAN, WorkerReturn(ok) PROVE Gate!GateNext
  <2>0. PICK s \in DOMAIN jobs, q \in Requests : s = worker /\ q = jobs[s].req
    BY <1>0, <1>4, ReturnShape
  <2>1. /\ jobs[s].st = "running" /\ jobs[s].req = q
        /\ DOMAIN jobs' = DOMAIN jobs /\ jobs'[s].st = "returned"
        /\ jobs'[s].req = q /\ jobs'[s].class = jobs[s].class
        /\ \A t \in DOMAIN jobs : t # s => jobs'[t] = jobs[t]
    BY <1>0, <1>4, <2>0, ReturnShape DEF Keeps
  <2>2. /\ Standing(q) = "serving" /\ Standing(q)' = "settled"
        /\ \A r \in Requests : r # q => Standing(r)' = Standing(r)
        /\ \A r \in Requests : Grade(r)' = Grade(r)
    BY <1>0, <2>1, StandMoved DEF JobStanding
  <2>3. Gate!Move(q, "serving", "settled")
    BY <2>1, <2>2, GateMoves
  <2>4. Gate!Settle(q)
    BY <1>1, <2>2, <2>3 DEF Gate!Settle, Approvals
  <2>5. QED
    BY <2>1, <2>4 DEF Gate!GateNext
<1>5. CASE WorkerAnswer
  <2>0. PICK s \in DOMAIN jobs, q \in Requests : s = worker /\ q = jobs[s].req
    BY <1>0, <1>5, AnswerShape
  <2>1. /\ jobs[s].st = "returned" /\ jobs[s].req = q
        /\ DOMAIN jobs' = DOMAIN jobs /\ jobs'[s].st = "answered"
        /\ jobs'[s].req = q /\ jobs'[s].class = jobs[s].class
        /\ \A t \in DOMAIN jobs : t # s => jobs'[t] = jobs[t]
    BY <1>0, <1>5, <2>0, AnswerShape DEF Keeps
  <2>2. \A r \in Requests : Standing(r)' = Standing(r) /\ Grade(r)' = Grade(r)
    BY <1>0, <2>1, StandMoved DEF JobStanding
  <2>3. QED
    BY <1>1, <2>2, GateRests
<1>6. QED
  BY <1>2, <1>3, <1>4, <1>5 DEF Worker, WorkerStep

\* The handlers, the map of reviews, the sweeper and the worker implement the
\* gate: whatever interleaves, a request is reclassified only by an approved
\* upgrade, runs at most once, and class 1 starts first.
THEOREM CommonsReviewImplements == Spec => ImplementsGate
<1>1. Init => Gate!GateInit
  <2> SUFFICES ASSUME Init PROVE Gate!GateInit
    OBVIOUS
  <2>1. Viewed
    BY InitHolding, Views DEF Holding
  <2>2. \A r \in Requests : ~HasJob(r)
    BY EmptySeq DEF Init, SchedInit, HasJob
  <2>3. \A r \in Requests : Standing(r) = "none" /\ Grade(r) = 0
    BY <2>1, <2>2 DEF Viewed, Phase, Init
  <2>4. Approvals = {}
    BY DEF Init, NoCall, Approvals, Took
  <2>5. QED
    BY <2>3, <2>4 DEF Gate!GateInit, Approvals
<1>2. /\ Holding /\ Gated /\ Viewed
      /\ Viewed'
      /\ [Next]_vars
      => [Gate!GateNext]_Gate!gateVars
  <2> SUFFICES ASSUME Holding, Gated, Viewed, Viewed', [Next]_vars
               PROVE  [Gate!GateNext]_Gate!gateVars
    OBVIOUS
  <2>1. ASSUME NEW r \in Requests, SubmitStep(r) PROVE [Gate!GateNext]_Gate!gateVars
    BY <2>1, SubmitGate
  <2>2. ASSUME NEW c \in Consents, ConsentArrives(c) \/ ConsentProceeds(c)
        PROVE  [Gate!GateNext]_Gate!gateVars
    BY <2>2, ConsentStepGate
  <2>3. CASE Sweeper
    BY <2>3, SweeperGate
  <2>4. CASE Worker
    BY <2>4, WorkerGate
  <2>5. CASE Tick \/ UNCHANGED vars
    <3>1. UNCHANGED <<jobs, submit, class, consent>>
      BY <2>5 DEF Tick, vars, schedVars, reviewVars
    <3>2. Approvals' = Approvals /\ \A r \in Requests : Phase(r)' = Phase(r)
      BY <3>1 DEF Approvals, Took, Phase
    <3>3. QED
      BY <3>1, <3>2, StandStill, GateRests
  <2>6. QED
    BY <2>1, <2>2, <2>3, <2>4, <2>5 DEF Next
<1>3. Holding => Viewed
  BY Views DEF Holding
<1>4. QED
  BY <1>1, <1>2, <1>3, GatedInvariance, PTL DEF Spec, ImplementsGate, Gate!GateSpec

=============================================================================
