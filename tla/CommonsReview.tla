---------------------------- MODULE CommonsReview ----------------------------
(***************************************************************************)
(* The Commons Review gate of the daemon: the /submit and /consent         *)
(* handlers (daemon/handlers.go), the map node.reviews under reviewsMu,    *)
(* and the expiry sweeper (daemon/scheduler.go), on top of the token       *)
(* scheduler.  Each request is one POST /submit, each member of Consents   *)
(* one POST /consent; every one of them is a goroutine of its own.         *)
(*                                                                         *)
(* A review is identified with the request it suspends (review ids are 48  *)
(* random bits).  Handlers hold reviewsMu for a single step; the sweeper   *)
(* holds it over the several steps of its scan, during which the worker,   *)
(* the handlers' calls to Enqueue and the clock go on.  deadline and       *)
(* consent[c].at are history.                                              *)
(***************************************************************************)
EXTENDS TokenScheduler

CONSTANTS
    Consents,   \* the calls to /consent
    TTL,        \* commonsReviewTTL, in clock ticks
    MaxTime,    \* bound of the model: the clock stops here
    None        \* no request

ASSUME TimeAssumption == TTL \in Nat /\ MaxTime \in Nat
ASSUME NamesAssumption == None \notin Requests /\ Requests \cap Consents = {}

Answers == {"upgrade", "keep", "missing"}   \* the upgrade field of a /consent body

SubmitState == {"idle", "refused", "assessing", "admitted", "waiting", "reviewed", "replied"}
ConsentState == {"idle", "refused", "notfound", "claimed", "gone", "cleared", "waiting", "replied"}
SweepState == {"idle", "ticked", "holding"}

VARIABLES
    now,        \* time.Now()
    submit,     \* per request: the state of its /submit handler
    class,      \* per request: the class the user submitted it with, 0 before
    reviews,    \* node.reviews: the suspended requests and their expiresAt
    deadline,   \* history: the expiresAt each review was created with
    consent,    \* per /consent call: handler state, review, answer, claim
    ticket,     \* the job each waiting handler blocks on, 0 if none
    sweep       \* the sweeper: state, the now it captured, what is left to scan

reviewVars == <<now, submit, class, reviews, deadline, consent, ticket, sweep>>
vars == <<schedVars, reviewVars>>

Handlers == Requests \cup Consents

\* reviewsMu can be taken: only the sweeper holds it across steps.
ReviewsMuFree == sweep.st # "holding"

\* The class stored in every review: only class 2 requests are suspended.
ReviewClass == 2

Review == [id : Requests, expiresAt : 0..MaxTime]

\* What a /consent handler knows: the review, the answer given, the expiresAt of
\* the review it removed, and (history) when it looked the review up.
Call == [st : ConsentState, req : Requests \cup {None}, answer : Answers,
         until : 0..MaxTime, at : 0..MaxTime]

\* The review a /consent call has removed from the map and not yet acted on.
Claims(c, r) == consent[c].st \in {"claimed", "cleared"} /\ consent[c].req = r

\* The /consent call that found and removed the review of r.
Took(c, r) ==
    /\ consent[c].st \in {"claimed", "gone", "cleared", "waiting", "replied"}
    /\ consent[c].req = r

HasReview(r) == \E v \in reviews : v.id = r

HasJob(r) == \E s \in DOMAIN jobs : jobs[s].req = r

Answered(h) == ticket[h] # 0 /\ jobs[ticket[h]].st = "answered"

-----------------------------------------------------------------------------

NoCall == [st |-> "idle", req |-> None, answer |-> "missing", until |-> 0, at |-> 0]

Init ==
    /\ SchedInit
    /\ now = 0
    /\ submit = [r \in Requests |-> "idle"]
    /\ class = [r \in Requests |-> 0]
    /\ reviews = {}
    /\ deadline = [r \in Requests |-> 0]
    /\ consent = [c \in Consents |-> NoCall]
    /\ ticket = [h \in Handlers |-> 0]
    /\ sweep = [st |-> "idle", now |-> 0, todo |-> {}]

(* ------------------------------- /submit -------------------------------- *)

\* A bad signature, rate limit, body, class or prompt: the handler returns.
SubmitRefuse(r) ==
    /\ submit[r] = "idle"
    /\ submit' = [submit EXCEPT ![r] = "refused"]
    /\ UNCHANGED <<schedVars, now, class, reviews, deadline, consent, ticket, sweep>>

\* A well-formed request: class 2 goes to the assessment, class 1 does not.
SubmitAccept(r, k) ==
    /\ submit[r] = "idle"
    /\ class' = [class EXCEPT ![r] = k]
    /\ submit' = [submit EXCEPT ![r] = IF k = 2 THEN "assessing" ELSE "admitted"]
    /\ UNCHANGED <<schedVars, now, reviews, deadline, consent, ticket, sweep>>

\* The assessment fails or sees no community benefit: proceed as class 2.
AssessProceed(r) ==
    /\ submit[r] = "assessing"
    /\ submit' = [submit EXCEPT ![r] = "admitted"]
    /\ UNCHANGED <<schedVars, now, class, reviews, deadline, consent, ticket, sweep>>

\* Community benefit: store the review and tell the user; the handler is done.
AssessSuspend(r) ==
    /\ submit[r] = "assessing"
    /\ ReviewsMuFree
    /\ now + TTL < MaxTime
    /\ submit' = [submit EXCEPT ![r] = "reviewed"]
    /\ reviews' = reviews \cup {[id |-> r, expiresAt |-> now + TTL]}
    /\ deadline' = [deadline EXCEPT ![r] = now + TTL]
    /\ UNCHANGED <<schedVars, now, class, consent, ticket, sweep>>

SubmitEnqueue(r) ==
    /\ submit[r] = "admitted"
    /\ Enqueue(r, class[r])
    /\ ticket' = [ticket EXCEPT ![r] = Len(jobs')]
    /\ submit' = [submit EXCEPT ![r] = "waiting"]
    /\ UNCHANGED <<now, class, reviews, deadline, consent, sweep>>

SubmitReply(r) ==
    /\ submit[r] = "waiting" /\ Answered(r)
    /\ submit' = [submit EXCEPT ![r] = "replied"]
    /\ UNCHANGED <<schedVars, now, class, reviews, deadline, consent, ticket, sweep>>

(* ------------------------------- /consent ------------------------------- *)

\* Refused before the map is looked at: rate limit, bad body, or no explicit
\* answer ("explicit consent is mandatory").
ConsentRefuse(c, r) ==
    /\ consent[c].st = "idle" /\ submit[r] = "reviewed"
    /\ consent' = [consent EXCEPT ![c] = [NoCall EXCEPT !.st = "refused"]]
    /\ UNCHANGED <<schedVars, now, submit, class, reviews, deadline, ticket, sweep>>

\* Faulty variant of ConsentClaim: the review is read and left in the map.
ConsentClaimKeeps(c, r, answer) ==
    /\ consent[c].st = "idle" /\ submit[r] = "reviewed"
    /\ answer # "missing"
    /\ ReviewsMuFree
    /\ \E v \in reviews :
          /\ v.id = r
          /\ consent' = [consent EXCEPT ![c] = [st |-> "claimed", req |-> r,
                            answer |-> answer, until |-> v.expiresAt, at |-> now]]
    /\ UNCHANGED <<schedVars, now, submit, class, reviews, deadline, ticket, sweep>>

\* Look the review up and delete it in one critical section; 404 if absent.
ConsentClaim(c, r, answer) ==
    /\ consent[c].st = "idle" /\ submit[r] = "reviewed"
    /\ answer # "missing"
    /\ ReviewsMuFree
    /\ \/ \E v \in reviews :
            /\ v.id = r
            /\ reviews' = reviews \ {v}
            /\ consent' = [consent EXCEPT ![c] = [st |-> "claimed", req |-> r,
                              answer |-> answer, until |-> v.expiresAt, at |-> now]]
       \/ /\ \A v \in reviews : v.id # r
          /\ consent' = [consent EXCEPT ![c] = [st |-> "notfound", req |-> r,
                            answer |-> answer, until |-> 0, at |-> now]]
          /\ UNCHANGED reviews
    /\ UNCHANGED <<schedVars, now, submit, class, deadline, ticket, sweep>>

\* Faulty variant of ConsentCheck: expired at the deadline already.
ConsentCheckEarly(c) ==
    /\ consent[c].st = "claimed"
    /\ consent' = [consent EXCEPT ![c].st =
                     IF now >= consent[c].until THEN "gone" ELSE "cleared"]
    /\ UNCHANGED <<schedVars, now, submit, class, reviews, deadline, ticket, sweep>>

\* After the unlock: an expired review is answered 410, and is gone.
ConsentCheck(c) ==
    /\ consent[c].st = "claimed"
    /\ consent' = [consent EXCEPT ![c].st =
                     IF now > consent[c].until THEN "gone" ELSE "cleared"]
    /\ UNCHANGED <<schedVars, now, submit, class, reviews, deadline, ticket, sweep>>

\* Faulty variants of FinalClass: upgrade whatever the answer; no default.
FinalClassUpgrade(answer) == 1
FinalClassUnset(answer) == IF answer = "upgrade" THEN 1 ELSE 0

\* finalClass: the class of the review unless the answer is upgrade.
FinalClass(answer) == IF answer = "upgrade" THEN 1 ELSE ReviewClass

ConsentEnqueue(c) ==
    /\ consent[c].st = "cleared"
    /\ Enqueue(consent[c].req, FinalClass(consent[c].answer))
    /\ ticket' = [ticket EXCEPT ![c] = Len(jobs')]
    /\ consent' = [consent EXCEPT ![c].st = "waiting"]
    /\ UNCHANGED <<now, submit, class, reviews, deadline, sweep>>

ConsentReply(c) ==
    /\ consent[c].st = "waiting" /\ Answered(c)
    /\ consent' = [consent EXCEPT ![c].st = "replied"]
    /\ UNCHANGED <<schedVars, now, submit, class, reviews, deadline, ticket, sweep>>

(* --------------------- startCommonsReviewExpiry ------------------------- *)

\* The ticker fires and the sweeper reads the clock, before it has the lock.
SweepTick ==
    /\ sweep.st = "idle"
    /\ sweep' = [st |-> "ticked", now |-> now, todo |-> {}]
    /\ UNCHANGED <<schedVars, now, submit, class, reviews, deadline, consent, ticket>>

\* reviewsMu taken: the map cannot grow until the scan is over.
SweepLock ==
    /\ sweep.st = "ticked"
    /\ sweep' = [sweep EXCEPT !.st = "holding", !.todo = reviews]
    /\ UNCHANGED <<schedVars, now, submit, class, reviews, deadline, consent, ticket>>

\* Faulty variants of SweepVisit: the review runs and stays in the map; it is
\* deleted and not run; it runs upgraded; it expires at its deadline already.
SweepVisitKeeps(v) ==
    /\ sweep.st = "holding" /\ v \in sweep.todo
    /\ sweep' = [sweep EXCEPT !.todo = @ \ {v}]
    /\ IF sweep.now > v.expiresAt THEN Enqueue(v.id, ReviewClass) ELSE UNCHANGED schedVars
    /\ UNCHANGED <<now, submit, class, reviews, deadline, consent, ticket>>

SweepVisitDrops(v) ==
    /\ sweep.st = "holding" /\ v \in sweep.todo
    /\ sweep' = [sweep EXCEPT !.todo = @ \ {v}]
    /\ reviews' = IF sweep.now > v.expiresAt THEN reviews \ {v} ELSE reviews
    /\ UNCHANGED <<schedVars, now, submit, class, deadline, consent, ticket>>

SweepVisitUpgrades(v) ==
    /\ sweep.st = "holding" /\ v \in sweep.todo
    /\ sweep' = [sweep EXCEPT !.todo = @ \ {v}]
    /\ IF sweep.now > v.expiresAt
         THEN Enqueue(v.id, 1) /\ reviews' = reviews \ {v}
         ELSE UNCHANGED <<schedVars, reviews>>
    /\ UNCHANGED <<now, submit, class, deadline, consent, ticket>>

SweepVisitEarly(v) ==
    /\ sweep.st = "holding" /\ v \in sweep.todo
    /\ sweep' = [sweep EXCEPT !.todo = @ \ {v}]
    /\ IF sweep.now >= v.expiresAt
         THEN Enqueue(v.id, ReviewClass) /\ reviews' = reviews \ {v}
         ELSE UNCHANGED <<schedVars, reviews>>
    /\ UNCHANGED <<now, submit, class, deadline, consent, ticket>>

\* One iteration of the range over the map, in any order.
SweepVisit(v) ==
    /\ sweep.st = "holding" /\ v \in sweep.todo
    /\ sweep' = [sweep EXCEPT !.todo = @ \ {v}]
    /\ IF sweep.now > v.expiresAt
         THEN Enqueue(v.id, ReviewClass) /\ reviews' = reviews \ {v}
         ELSE UNCHANGED <<schedVars, reviews>>
    /\ UNCHANGED <<now, submit, class, deadline, consent, ticket>>

SweepUnlock ==
    /\ sweep.st = "holding" /\ sweep.todo = {}
    /\ sweep' = [st |-> "idle", now |-> 0, todo |-> {}]
    /\ UNCHANGED <<schedVars, now, submit, class, reviews, deadline, consent, ticket>>

-----------------------------------------------------------------------------

Tick ==
    /\ now < MaxTime
    /\ now' = now + 1
    /\ UNCHANGED <<schedVars, submit, class, reviews, deadline, consent, ticket, sweep>>

Worker == WorkerStep /\ UNCHANGED reviewVars

SubmitAssess(r) == AssessProceed(r) \/ AssessSuspend(r)

SubmitStep(r) ==
    \/ SubmitRefuse(r)
    \/ \E k \in Class : SubmitAccept(r, k)
    \/ SubmitAssess(r)
    \/ SubmitEnqueue(r)
    \/ SubmitReply(r)

ConsentArrives(c) ==
    \E r \in Requests :
        \/ ConsentRefuse(c, r)
        \/ \E answer \in Answers : ConsentClaim(c, r, answer)

ConsentProceeds(c) == ConsentCheck(c) \/ ConsentEnqueue(c) \/ ConsentReply(c)

SweepScan == (\E v \in sweep.todo : SweepVisit(v)) \/ SweepUnlock

Sweeper == SweepTick \/ SweepLock \/ SweepScan

Next ==
    \/ \E r \in Requests : SubmitStep(r)
    \/ \E c \in Consents : ConsentArrives(c) \/ ConsentProceeds(c)
    \/ Sweeper
    \/ Worker
    \/ Tick

Spec == Init /\ [][Next]_vars

\* Goroutines run, model calls return (their HTTP client has a timeout), the
\* ticker fires and time passes; users submit and consent only if they like.
Fairness ==
    /\ WF_vars(Worker)
    /\ WF_vars(Sweeper)
    /\ WF_vars(Tick)
    /\ \A r \in Requests : WF_vars(SubmitAssess(r) \/ SubmitEnqueue(r) \/ SubmitReply(r))
    /\ \A c \in Consents : WF_vars(ConsentProceeds(c))

FairSpec == Spec /\ Fairness

-----------------------------------------------------------------------------

\* The type of the daemon's review state (node.reviews, the handlers' locals).
TypeOK ==
    /\ SchedTypeOK
    /\ now \in 0..MaxTime
    /\ submit \in [Requests -> SubmitState]
    /\ class \in [Requests -> {0} \cup Class]
    /\ reviews \subseteq Review
    /\ deadline \in [Requests -> 0..MaxTime]
    /\ consent \in [Consents -> Call]
    /\ ticket \in [Handlers -> Nat]
    /\ sweep \in [st : SweepState, now : 0..MaxTime, todo : SUBSET Review]

\* "The system NEVER upgrades without this explicit consent call"
\* (handlers.go, /consent): a job runs as class 1 only if the user submitted the
\* request as class 1 or a /consent call of its own said upgrade for it.
ConsentRequired ==
    \A s \in DOMAIN jobs : jobs[s].class = 1 =>
        \/ class[jobs[s].req] = 1
        \/ \E c \in Consents : /\ consent[c].req = jobs[s].req
                              /\ consent[c].answer = "upgrade"
                              /\ ticket[c] = s

\* However a review's consents, the sweeper and the clock race, the request is
\* enqueued at most once: it is run and credited once.
AtMostOnce ==
    \A i, j \in DOMAIN jobs : jobs[i].req = jobs[j].req => i = j

\* A suspended request has one custodian at a time: the map, one /consent call or
\* the queue.  What the sweeper has still to visit is in the map, because it
\* holds reviewsMu.
Custody ==
    /\ \A r \in Requests :
           /\ HasJob(r) => submit[r] \in {"waiting", "replied", "reviewed"}
           /\ HasReview(r) => submit[r] = "reviewed" /\ ~HasJob(r)
    /\ \A v, w \in reviews : v.id = w.id => v = w
    /\ \A c \in Consents, r \in Requests : Claims(c, r) =>
           /\ submit[r] = "reviewed" /\ ~HasJob(r) /\ ~HasReview(r)
           /\ \A d \in Consents : Claims(d, r) => d = c
    /\ sweep.todo \subseteq reviews
    /\ sweep.todo # {} => sweep.st = "holding"

\* A suspended request is never dropped on the floor: it waits in the map, a
\* /consent call holds it, it has become a job, or a /consent call that found
\* its 60 seconds over has answered 410 (handlers.go, /consent): the one way in which
\* a user loses a request, which ARCH_SPEC.md says one never does.
LostOnlyToLateConsent ==
    \A r \in Requests : submit[r] = "reviewed" =>
        \/ HasReview(r)
        \/ \E c \in Consents : Claims(c, r)
        \/ HasJob(r)
        \/ \E c \in Consents : /\ consent[c].st = "gone" /\ consent[c].req = r
                              /\ now > deadline[r]

\* The user has the whole TTL to answer: a /consent call that looks the review
\* up before its deadline gets 404 only if another call got there first, never
\* because the sweeper, with the older clock reading it holds, took it.
TimelyConsentHonoured ==
    \A c \in Consents :
        /\ consent[c].st = "notfound"
        /\ consent[c].at <= deadline[consent[c].req]
        => \E d \in Consents :
               /\ Took(d, consent[c].req)
               /\ consent[d].at <= consent[c].at

\* A suspended request comes to an end without the user: it is answered as a
\* job, or a late consent was told 410.
EveryReviewSettles ==
    \A r \in Requests : submit[r] = "reviewed" ~>
        \/ \E s \in DOMAIN jobs : jobs[s].req = r /\ jobs[s].st = "answered"
        \/ \E c \in Consents : consent[c].st = "gone" /\ consent[c].req = r

\* No client hangs: a handler blocked on its result channel replies, also when
\* the model call failed.
EveryWaiterReplies ==
    /\ \A r \in Requests : submit[r] = "waiting" ~> submit[r] = "replied"
    /\ \A c \in Consents : consent[c].st = "waiting" ~> consent[c].st = "replied"

-----------------------------------------------------------------------------

JobsOf(r) == {s \in DOMAIN jobs : jobs[s].req = r}

JobStanding(st) ==
    CASE st = "queued" -> "accepted"
      [] st = "running" -> "serving"
      [] OTHER -> "settled"

Standing(r) ==
    IF JobsOf(r) # {} THEN JobStanding(jobs[CHOOSE s \in JobsOf(r) : TRUE].st)
    ELSE IF submit[r] \in {"idle", "refused"} THEN "none"
    ELSE IF submit[r] # "reviewed" THEN "asked"
    ELSE IF \E c \in Consents : consent[c].st = "gone" /\ consent[c].req = r THEN "lapsed"
    ELSE "offered"

Grade(r) ==
    IF JobsOf(r) # {} THEN jobs[CHOOSE s \in JobsOf(r) : TRUE].class ELSE class[r]

Gate == INSTANCE ConsentGate WITH
    standing <- [r \in Requests |-> Standing(r)],
    grade    <- [r \in Requests |-> Grade(r)],
    approved <- {r \in Requests : \E c \in Consents :
                    Took(c, r) /\ consent[c].answer = "upgrade"}

\* The handlers, the map, the sweeper and the queue implement the consent gate:
\* no interleaving of them reclassifies, runs twice or runs out of turn a
\* request the gate would not.
ImplementsGate == Gate!GateSpec

=============================================================================
