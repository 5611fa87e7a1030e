------------------------ MODULE TokenSchedulerProofs ------------------------
(***************************************************************************)
(* Facts about the operations of TokenScheduler, one lemma per operation,  *)
(* for whoever composes the scheduler with its clients; then what the      *)
(* scheduler promises under every load: any number of jobs of either       *)
(* class, enqueued at any moment.                                          *)
(***************************************************************************)
EXTENDS SchedulerLoad, SequenceTheorems, FiniteSetTheorems, TLAPS

\* How the history fields relate to a job's state: what NoOvertaking needs to
\* be inductive.
Dated ==
    \A s \in DOMAIN jobs :
        /\ jobs[s].ahead <= starts
        /\ jobs[s].start <= starts
        /\ jobs[s].st = "queued" <=> jobs[s].start = 0

SchedIInv == SchedTypeOK /\ Dated /\ NoOvertaking

\* Jobs are numbered from 1 to Len(jobs), and are well formed.
LEMMA JobTable ==
    ASSUME jobs \in Seq(Job)
    PROVE  /\ Len(jobs) \in Nat
           /\ DOMAIN jobs = 1..Len(jobs)
           /\ \A s \in DOMAIN jobs :
                  /\ jobs[s] \in Job
                  /\ jobs[s].req \in Requests /\ jobs[s].class \in {1, 2}
                  /\ jobs[s].start \in Nat /\ jobs[s].ahead \in Nat
<1>1. Len(jobs) \in Nat /\ DOMAIN jobs = 1..Len(jobs)
  BY LenProperties
<1>2. \A s \in DOMAIN jobs : jobs[s] \in Job
  BY <1>1, ElementOfSeq
<1>3. QED
  BY <1>1, <1>2 DEF Job, Class

\* Replacing one job by a well-formed one keeps the others and the numbering.
LEMMA JobReplaced ==
    ASSUME jobs \in Seq(Job), NEW s \in DOMAIN jobs, NEW e \in Job,
           jobs' = [jobs EXCEPT ![s] = e]
    PROVE  /\ jobs' \in Seq(Job)
           /\ Len(jobs') = Len(jobs)
           /\ DOMAIN jobs' = DOMAIN jobs
           /\ jobs'[s] = e
           /\ \A t \in DOMAIN jobs : t # s => jobs'[t] = jobs[t]
<1>1. s \in 1..Len(jobs) /\ DOMAIN jobs = 1..Len(jobs)
  BY JobTable
<1>2. jobs' \in Seq(Job) /\ Len(jobs') = Len(jobs)
  BY <1>1, ExceptSeq
<1>3. DOMAIN jobs' = DOMAIN jobs
  OBVIOUS
<1>4. QED
  BY <1>2, <1>3

\* Enqueue appends one well-formed job and keeps the others.
LEMMA EnqueueShape ==
    ASSUME SchedTypeOK, NEW r \in Requests, NEW k \in Class, Enqueue(r, k)
    PROVE  /\ SchedTypeOK'
           /\ Len(jobs') = Len(jobs) + 1
           /\ DOMAIN jobs' = 1..(Len(jobs) + 1)
           /\ \A s \in 1..Len(jobs) : jobs'[s] = jobs[s]
           /\ jobs'[Len(jobs) + 1] = [req |-> r, class |-> k, st |-> "queued", ok |-> FALSE,
                                      start |-> 0, ahead |-> starts]
<1> DEFINE e == [req |-> r, class |-> k, st |-> "queued", ok |-> FALSE,
                 start |-> 0, ahead |-> starts]
<1>1. e \in Job
  BY DEF SchedTypeOK, Job, JobState
<1>2. jobs \in Seq(Job) /\ Len(jobs) \in Nat
  BY JobTable DEF SchedTypeOK
<1>3. jobs' = Append(jobs, e)
  BY DEF Enqueue
<1> HIDE DEF e
<1>4. /\ jobs' \in Seq(Job) /\ Len(jobs') = Len(jobs) + 1
      /\ \A s \in 1..Len(jobs) : jobs'[s] = jobs[s]
      /\ jobs'[Len(jobs) + 1] = e
  BY <1>1, <1>2, <1>3, AppendProperties
<1>5. DOMAIN jobs' = 1..(Len(jobs) + 1)
  BY <1>4, LenProperties
<1>6. SchedTypeOK'
  <2>1. /\ worker \in 0..Len(jobs) /\ worker' = worker
        /\ stats' = stats /\ starts' = starts /\ asleep' = FALSE
    BY DEF SchedTypeOK, Enqueue
  <2>2. worker' \in 0..Len(jobs')
    BY <1>2, <1>4, <2>1
  <2>3. QED
    BY <1>4, <2>1, <2>2 DEF SchedTypeOK
<1>7. QED
  BY <1>4, <1>5, <1>6 DEF e

\* What a worker step never changes: which jobs there are, and of each job its
\* request, class and arrival, and everything once it is answered.
Keeps ==
    /\ DOMAIN jobs' = DOMAIN jobs
    /\ \A s \in DOMAIN jobs : /\ jobs'[s].req = jobs[s].req
                              /\ jobs'[s].class = jobs[s].class
                              /\ jobs'[s].ahead = jobs[s].ahead
                              /\ jobs[s].st = "answered" => jobs'[s] = jobs[s]

LEMMA PopShape ==
    ASSUME SchedTypeOK, NEW p \in Queue, WorkerPop(p)
    PROVE  /\ SchedTypeOK' /\ Keeps
           /\ jobs'[p].st = "running" /\ jobs'[p].start = starts + 1
           /\ \A s \in DOMAIN jobs : s # p => jobs'[s] = jobs[s]
<1> DEFINE e == [jobs[p] EXCEPT !.st = "running", !.start = starts + 1]
<1>1. /\ jobs \in Seq(Job) /\ DOMAIN jobs = 1..Len(jobs)
      /\ p \in DOMAIN jobs /\ jobs[p] \in Job /\ jobs[p].st = "queued"
      /\ starts + 1 \in Nat
  BY JobTable DEF SchedTypeOK, Queue
<1>2. e \in Job
  BY <1>1 DEF Job, JobState
<1>3. jobs' = [jobs EXCEPT ![p] = e]
  BY DEF WorkerPop
<1>4. /\ e.st = "running" /\ e.start = starts + 1
      /\ e.req = jobs[p].req /\ e.class = jobs[p].class /\ e.ahead = jobs[p].ahead
  BY <1>1 DEF Job
<1> HIDE DEF e
<1>5. /\ jobs' \in Seq(Job) /\ Len(jobs') = Len(jobs) /\ DOMAIN jobs' = DOMAIN jobs
      /\ jobs'[p] = e
      /\ \A t \in DOMAIN jobs : t # p => jobs'[t] = jobs[t]
  BY <1>1, <1>2, <1>3, JobReplaced
<1>6. SchedTypeOK'
  BY <1>1, <1>5 DEF SchedTypeOK, WorkerPop
<1>7. Keeps
  BY <1>1, <1>4, <1>5 DEF Keeps
<1>8. QED
  BY <1>4, <1>5, <1>6, <1>7

LEMMA ReturnShape ==
    ASSUME SchedTypeOK, NEW ok \in BOOLEAN, WorkerReturn(ok)
    PROVE  /\ SchedTypeOK' /\ Keeps
           /\ worker \in DOMAIN jobs /\ jobs[worker].st = "running"
           /\ jobs'[worker] = [jobs[worker] EXCEPT !.st = "returned", !.ok = ok]
           /\ jobs'[worker].st = "returned" /\ jobs'[worker].ok = ok
           /\ jobs'[worker].start = jobs[worker].start
           /\ \A s \in DOMAIN jobs : s # worker => jobs'[s] = jobs[s]
<1> DEFINE e == [jobs[worker] EXCEPT !.st = "returned", !.ok = ok]
<1>1. /\ jobs \in Seq(Job) /\ DOMAIN jobs = 1..Len(jobs)
      /\ worker \in DOMAIN jobs /\ jobs[worker] \in Job
      /\ jobs[worker].st = "running"
  BY JobTable DEF SchedTypeOK, WorkerReturn
<1>2. e \in Job
  BY <1>1 DEF Job, JobState
<1>3. jobs' = [jobs EXCEPT ![worker] = e]
  BY DEF WorkerReturn
<1>4. /\ e.st = "returned" /\ e.ok = ok /\ e.start = jobs[worker].start
      /\ e.req = jobs[worker].req /\ e.class = jobs[worker].class
      /\ e.ahead = jobs[worker].ahead
  BY <1>1 DEF Job
<1> HIDE DEF e
<1>5. /\ jobs' \in Seq(Job) /\ Len(jobs') = Len(jobs) /\ DOMAIN jobs' = DOMAIN jobs
      /\ jobs'[worker] = e
      /\ \A t \in DOMAIN jobs : t # worker => jobs'[t] = jobs[t]
  BY <1>1, <1>2, <1>3, JobReplaced
<1>6. stats' \in [score : Nat, connections : Nat]
  BY DEF WorkerReturn, SchedTypeOK, Delta
<1>7. SchedTypeOK'
  BY <1>1, <1>5, <1>6 DEF SchedTypeOK, WorkerReturn
<1>8. Keeps
  BY <1>1, <1>4, <1>5 DEF Keeps
<1>9. QED
  BY <1>1, <1>4, <1>5, <1>7, <1>8 DEF e

LEMMA AnswerShape ==
    ASSUME SchedTypeOK, WorkerAnswer
    PROVE  /\ SchedTypeOK' /\ Keeps
           /\ worker \in DOMAIN jobs /\ jobs[worker].st = "returned"
           /\ jobs'[worker].st = "answered" /\ jobs'[worker].ok = jobs[worker].ok
           /\ jobs'[worker].start = jobs[worker].start
           /\ \A s \in DOMAIN jobs : s # worker => jobs'[s] = jobs[s]
<1> DEFINE e == [jobs[worker] EXCEPT !.st = "answered"]
<1>1. /\ jobs \in Seq(Job) /\ DOMAIN jobs = 1..Len(jobs)
      /\ worker \in DOMAIN jobs /\ jobs[worker] \in Job
      /\ jobs[worker].st = "returned"
  BY JobTable DEF SchedTypeOK, WorkerAnswer
<1>2. e \in Job
  BY <1>1 DEF Job, JobState
<1>3. jobs' = [jobs EXCEPT ![worker] = e]
  BY DEF WorkerAnswer
<1>4. /\ e.st = "answered" /\ e.start = jobs[worker].start
      /\ e.req = jobs[worker].req /\ e.class = jobs[worker].class
      /\ e.ahead = jobs[worker].ahead /\ e.ok = jobs[worker].ok
  BY <1>1 DEF Job
<1> HIDE DEF e
<1>5. /\ jobs' \in Seq(Job) /\ Len(jobs') = Len(jobs) /\ DOMAIN jobs' = DOMAIN jobs
      /\ jobs'[worker] = e
      /\ \A t \in DOMAIN jobs : t # worker => jobs'[t] = jobs[t]
  BY <1>1, <1>2, <1>3, JobReplaced
<1>6. SchedTypeOK'
  BY <1>1, <1>5 DEF SchedTypeOK, WorkerAnswer
<1>7. Keeps
  BY <1>1, <1>4, <1>5 DEF Keeps
<1>8. QED
  BY <1>1, <1>4, <1>5, <1>6, <1>7

\* Every worker step keeps the types and the identity of every job.
LEMMA WorkerShape ==
    ASSUME SchedTypeOK, WorkerStep
    PROVE  SchedTypeOK' /\ Keeps
<1>1. CASE WorkerSleep
  BY <1>1 DEF WorkerSleep, SchedTypeOK, Keeps
<1>2. ASSUME NEW s \in Queue, WorkerPop(s) PROVE SchedTypeOK' /\ Keeps
  BY <1>2, PopShape
<1>3. ASSUME NEW ok \in BOOLEAN, WorkerReturn(ok) PROVE SchedTypeOK' /\ Keeps
  BY <1>3, ReturnShape
<1>4. CASE WorkerAnswer
  BY <1>4, AnswerShape
<1>5. QED
  BY <1>1, <1>2, <1>3, <1>4 DEF WorkerStep

\* The initial state satisfies the scheduler's invariant.
LEMMA SchedInitIInv == SchedInit => SchedIInv
<1> SUFFICES ASSUME SchedInit PROVE SchedIInv
  OBVIOUS
<1>1. jobs \in Seq(Job) /\ Len(jobs) = 0 /\ DOMAIN jobs = {}
  BY EmptySeq DEF SchedInit
<1>2. SchedTypeOK
  <2>1. worker \in 0..Len(jobs)
    BY <1>1 DEF SchedInit
  <2>2. stats \in [score : Nat, connections : Nat] /\ asleep \in BOOLEAN /\ starts \in Nat
    BY DEF SchedInit
  <2>3. QED
    BY <1>1, <2>1, <2>2 DEF SchedTypeOK
<1>3. QED
  BY <1>1, <1>2 DEF SchedIInv, Dated, NoOvertaking

\* An arrival is dated by the starts so far, so nobody has overtaken it yet, and
\* it has not started, so it has overtaken nobody.
LEMMA EnqueueIInv ==
    ASSUME SchedIInv, NEW r \in Requests, NEW k \in Class, Enqueue(r, k)
    PROVE  SchedIInv'
<1> DEFINE n == Len(jobs) + 1
<1>1. /\ SchedTypeOK' /\ SchedTypeOK /\ Dated /\ NoOvertaking
      /\ DOMAIN jobs = 1..Len(jobs) /\ DOMAIN jobs' = 1..n
      /\ jobs \in Seq(Job) /\ Len(jobs) \in Nat
      /\ \A s \in 1..Len(jobs) :
             /\ jobs'[s] = jobs[s]
             /\ jobs[s].start \in Nat /\ jobs[s].ahead \in Nat
      /\ jobs'[n].st = "queued" /\ jobs'[n].start = 0 /\ jobs'[n].ahead = starts
  <2>1. SchedTypeOK /\ Dated /\ NoOvertaking
    BY DEF SchedIInv
  <2>2. jobs \in Seq(Job)
    BY <2>1 DEF SchedTypeOK
  <2>3. /\ DOMAIN jobs = 1..Len(jobs) /\ Len(jobs) \in Nat
        /\ \A s \in 1..Len(jobs) : jobs[s].start \in Nat /\ jobs[s].ahead \in Nat
    BY <2>2, JobTable
  <2>4. /\ SchedTypeOK' /\ DOMAIN jobs' = 1..n
        /\ \A s \in 1..Len(jobs) : jobs'[s] = jobs[s]
        /\ jobs'[n] = [req |-> r, class |-> k, st |-> "queued", ok |-> FALSE,
                       start |-> 0, ahead |-> starts]
    BY <2>1, EnqueueShape
  <2>5. QED
    BY <2>1, <2>2, <2>3, <2>4
<1>2. starts' = starts /\ starts \in Nat
  BY <1>1 DEF Enqueue, SchedTypeOK
<1>3. \A s \in 1..Len(jobs) : /\ jobs[s].ahead <= starts /\ jobs[s].start <= starts
                              /\ jobs[s].st = "queued" <=> jobs[s].start = 0
  BY <1>1 DEF Dated
<1>4. Dated'
  <2> SUFFICES ASSUME NEW s \in 1..n
               PROVE  /\ jobs'[s].ahead <= starts
                      /\ jobs'[s].start <= starts
                      /\ jobs'[s].st = "queued" <=> jobs'[s].start = 0
    BY <1>1, <1>2 DEF Dated
  <2>1. CASE s = n
    BY <1>1, <1>2, <2>1
  <2>2. CASE s \in 1..Len(jobs)
    BY <1>1, <1>3, <2>2
  <2>3. QED
    BY <1>1, <2>1, <2>2
<1>5. NoOvertaking'
  <2> SUFFICES ASSUME NEW s \in 1..n, NEW t \in 1..n, Precedes(s, t)',
                      jobs'[t].start > jobs'[s].ahead
               PROVE  jobs'[s].start # 0 /\ jobs'[s].start < jobs'[t].start
    BY <1>1 DEF NoOvertaking
  <2>1. jobs'[s].ahead \in Nat
    BY <1>1, <1>2
  <2>2. t # n
    BY <1>1, <2>1
  <2>3. t \in 1..Len(jobs)
    BY <1>1, <2>2
  <2>4. jobs'[t].start \in Nat /\ jobs'[t].start <= starts
    BY <1>1, <1>3, <2>3
  <2>5. s # n
    BY <1>1, <1>2, <2>4
  <2>6. s \in 1..Len(jobs)
    BY <1>1, <2>5
  <2>7. Precedes(s, t)
    BY <1>1, <2>3, <2>6 DEF Precedes
  <2>8. QED
    BY <1>1, <2>3, <2>6, <2>7 DEF NoOvertaking
<1>6. QED
  BY <1>1, <1>4, <1>5 DEF SchedIInv

\* A pop takes the Less-least job: whatever is before it has left the queue.
LEMMA WorkerIInv ==
    ASSUME SchedIInv, WorkerStep
    PROVE  SchedIInv'
<1>1. /\ SchedTypeOK' /\ SchedTypeOK /\ Dated /\ NoOvertaking
      /\ DOMAIN jobs = 1..Len(jobs) /\ DOMAIN jobs' = DOMAIN jobs
      /\ \A s \in DOMAIN jobs : /\ jobs'[s].class = jobs[s].class
                                /\ jobs'[s].ahead = jobs[s].ahead
  BY WorkerShape, JobTable DEF SchedIInv, Keeps, SchedTypeOK
<1>2. /\ jobs \in Seq(Job) /\ starts \in Nat
      /\ \A s \in DOMAIN jobs : /\ jobs[s].class \in {1, 2}
                                /\ jobs[s].start \in Nat /\ jobs[s].ahead \in Nat
                                /\ jobs[s].ahead <= starts /\ jobs[s].start <= starts
                                /\ jobs[s].st = "queued" <=> jobs[s].start = 0
  BY <1>1, JobTable DEF SchedTypeOK, Dated
<1>3. \A s, t \in DOMAIN jobs : Precedes(s, t)' <=> Precedes(s, t)
  BY <1>1 DEF Precedes
<1>4. ASSUME NEW p \in Queue, WorkerPop(p)
      PROVE  Dated' /\ NoOvertaking'
  <2>1. /\ p \in DOMAIN jobs /\ jobs[p].st = "queued"
        /\ jobs[p].start = 0
        /\ starts' = starts + 1
        /\ jobs'[p].start = starts + 1 /\ jobs'[p].st = "running"
        /\ \A s \in DOMAIN jobs \ {p} : jobs'[s] = jobs[s]
    BY <1>1, <1>4, PopShape DEF WorkerPop, Queue, Dated
  <2>2. Dated'
    <3> SUFFICES ASSUME NEW s \in DOMAIN jobs
                 PROVE  /\ jobs'[s].ahead <= starts'
                        /\ jobs'[s].start <= starts'
                        /\ jobs'[s].st = "queued" <=> jobs'[s].start = 0
      BY <1>1 DEF Dated
    <3>1. CASE s = p
      BY <1>1, <1>2, <2>1, <3>1
    <3>2. CASE s # p
      BY <1>1, <1>2, <2>1, <3>2
    <3>3. QED
      BY <3>1, <3>2
  <2>3. NoOvertaking'
    <3> SUFFICES ASSUME NEW s \in DOMAIN jobs, NEW t \in DOMAIN jobs, Precedes(s, t),
                        jobs'[t].start > jobs'[s].ahead
                 PROVE  jobs'[s].start # 0 /\ jobs'[s].start < jobs'[t].start
      BY <1>1, <1>3 DEF NoOvertaking
    <3>1. CASE t = p
      <4>1. s # p
        BY <1>1, <1>2, <3>1 DEF Precedes
      <4>2. s \notin Queue
        <5> SUFFICES ASSUME s \in Queue PROVE FALSE
          OBVIOUS
        <5>1. Less(p, s) /\ Less(s, p)
          BY <1>4, <3>1, <4>1 DEF WorkerPop, Precedes, Less
        <5>2. /\ jobs[s].class \in {1, 2} /\ jobs[p].class \in {1, 2}
              /\ s \in Nat /\ p \in Nat
          BY <1>1, <1>2, <2>1
        <5>3. QED
          BY <5>1, <5>2 DEF Less
      <4>3. jobs[s].start # 0 /\ jobs[s].start <= starts
        BY <1>1, <4>2 DEF Queue, Dated
      <4>4. QED
        BY <1>2, <2>1, <3>1, <4>1, <4>3
    <3>2. CASE t # p
      <4>1. jobs[t].start > jobs[s].ahead
        BY <1>1, <2>1, <3>2
      <4>2. jobs[s].start # 0 /\ jobs[s].start < jobs[t].start
        BY <1>1, <4>1 DEF NoOvertaking
      <4>3. s # p
        BY <2>1, <4>2
      <4>4. QED
        BY <2>1, <3>2, <4>2, <4>3
    <3>3. QED
      BY <3>1, <3>2
  <2>4. QED
    BY <2>2, <2>3
<1>5. ASSUME \/ WorkerSleep
             \/ \E ok \in BOOLEAN : WorkerReturn(ok)
             \/ WorkerAnswer
      PROVE  Dated' /\ NoOvertaking'
  <2>1. /\ starts' = starts
        /\ \A s \in DOMAIN jobs : /\ jobs'[s].start = jobs[s].start
                                  /\ jobs'[s].st = "queued" <=> jobs[s].st = "queued"
    <3>1. CASE WorkerSleep
      BY <3>1 DEF WorkerSleep
    <3>2. ASSUME NEW ok \in BOOLEAN, WorkerReturn(ok)
          PROVE  /\ starts' = starts
                 /\ \A s \in DOMAIN jobs : /\ jobs'[s].start = jobs[s].start
                                           /\ jobs'[s].st = "queued" <=> jobs[s].st = "queued"
      BY <1>1, <3>2, ReturnShape DEF WorkerReturn
    <3>3. CASE WorkerAnswer
      BY <1>1, <3>3, AnswerShape DEF WorkerAnswer
    <3>4. QED
      BY <1>5, <3>1, <3>2, <3>3
  <2>2. QED
    BY <1>1, <1>3, <2>1 DEF Dated, NoOvertaking
<1>6. QED
  BY <1>1, <1>4, <1>5 DEF WorkerStep, SchedIInv

-----------------------------------------------------------------------------
(* Every load *)

\* The scheduler's inductive invariant holds in every reachable state.
LEMMA SchedInvariance == SchedSpec => []SchedIInv
<1>1. SchedInit => SchedIInv
  BY SchedInitIInv
<1>2. SchedIInv /\ [SchedNext]_schedVars => SchedIInv'
  <2> SUFFICES ASSUME SchedIInv, [SchedNext]_schedVars
               PROVE  SchedIInv'
    OBVIOUS
  <2>1. CASE ClientStep
    BY <2>1, EnqueueIInv DEF ClientStep
  <2>2. CASE WorkerStep
    BY <2>2, WorkerIInv
  <2>3. CASE UNCHANGED schedVars
    BY <2>3 DEF schedVars, SchedIInv, SchedTypeOK, Dated, NoOvertaking, Precedes
  <2>4. QED
    BY <2>1, <2>2, <2>3 DEF SchedNext
<1>3. QED
  BY <1>1, <1>2, PTL DEF SchedSpec

\* The queue, the worker and the ledger keep their types (struct Scheduler).
THEOREM SchedTypeCorrect == SchedSpec => []SchedTypeOK
<1>1. SchedIInv => SchedTypeOK
  BY DEF SchedIInv
<1>2. QED
  BY <1>1, SchedInvariance, PTL

\* No job is overtaken, after its arrival, by one that comes after it:
\* class 1 before class 2 and FIFO within a class (Scheduler.run).
THEOREM PriorityRespected == SchedSpec => []NoOvertaking
<1>1. SchedIInv => NoOvertaking
  BY DEF SchedIInv
<1>2. QED
  BY <1>1, SchedInvariance, PTL

\* Where the worker's job and the sleeping worker stand: a popped job is the one in
\* the worker's hands until it is answered, and cond.Wait() is entered and left
\* with the queue in view, so no Signal is lost.
Manned ==
    /\ worker # 0 => worker \in DOMAIN jobs /\ jobs[worker].st \in {"running", "returned"}
    /\ \A s \in DOMAIN jobs : jobs[s].st \in {"running", "returned"} => worker = s
    /\ asleep => worker = 0 /\ Queue = {}

LEMMA MannedInit == SchedInit => Manned
BY EmptySeq DEF SchedInit, Manned, Queue

\* Whoever drives the scheduler, no step of it loses sight of a job.
LEMMA MannedStep ==
    ASSUME SchedTypeOK, Manned,
           \/ UNCHANGED schedVars
           \/ \E r \in Requests, k \in Class : Enqueue(r, k)
           \/ WorkerStep
    PROVE  Manned'
<1>0. DOMAIN jobs = 1..Len(jobs) /\ Len(jobs) \in Nat /\ 0 \notin DOMAIN jobs
  BY JobTable DEF SchedTypeOK
<1>1. ASSUME NEW r \in Requests, NEW k \in Class, Enqueue(r, k) PROVE Manned'
  <2>1. /\ DOMAIN jobs' = 1..(Len(jobs) + 1)
        /\ \A s \in 1..Len(jobs) : jobs'[s] = jobs[s]
        /\ jobs'[Len(jobs) + 1].st = "queued"
        /\ worker' = worker /\ asleep' = FALSE
    BY <1>1, EnqueueShape DEF Enqueue
  <2>2. QED
    BY <1>0, <2>1 DEF Manned
<1>2. ASSUME NEW p \in Queue, WorkerPop(p) PROVE Manned'
  <2>1. /\ DOMAIN jobs' = DOMAIN jobs /\ p \in DOMAIN jobs
        /\ jobs'[p].st = "running"
        /\ \A s \in DOMAIN jobs : s # p => jobs'[s] = jobs[s]
    BY <1>2, PopShape DEF Keeps, Queue
  <2>2. worker = 0 /\ worker' = p /\ ~asleep /\ asleep' = asleep
    BY <1>2 DEF WorkerPop
  <2>3. QED
    BY <1>0, <2>1, <2>2 DEF Manned
<1>3. ASSUME NEW ok \in BOOLEAN, WorkerReturn(ok) PROVE Manned'
  <2>1. /\ DOMAIN jobs' = DOMAIN jobs /\ worker \in DOMAIN jobs
        /\ jobs'[worker].st = "returned"
        /\ \A s \in DOMAIN jobs : s # worker => jobs'[s] = jobs[s]
    BY <1>3, ReturnShape DEF Keeps
  <2>2. worker # 0 /\ worker' = worker /\ asleep' = asleep
    BY <1>3 DEF WorkerReturn
  <2>3. QED
    BY <2>1, <2>2 DEF Manned
<1>4. CASE WorkerAnswer
  <2>1. /\ DOMAIN jobs' = DOMAIN jobs /\ worker \in DOMAIN jobs
        /\ jobs'[worker].st = "answered"
        /\ \A s \in DOMAIN jobs : s # worker => jobs'[s] = jobs[s]
    BY <1>4, AnswerShape DEF Keeps
  <2>2. worker # 0 /\ worker' = 0 /\ asleep' = asleep
    BY <1>4 DEF WorkerAnswer
  <2>3. QED
    BY <2>1, <2>2 DEF Manned
<1>5. CASE WorkerSleep
  BY <1>5 DEF WorkerSleep, Manned, Queue
<1>6. CASE UNCHANGED schedVars
  BY <1>6 DEF schedVars, Manned, Queue
<1>7. QED
  BY <1>1, <1>2, <1>3, <1>4, <1>5, <1>6 DEF WorkerStep

\* run() sleeps only when every job there ever was has been answered: the Signal
\* of Enqueue is not lost, and a failed model call strands no job (the safety part
\* of EveryJobAnswered).
SleepsWhenDone == asleep => \A s \in DOMAIN jobs : jobs[s].st = "answered"

LEMMA MannedSleeps ==
    ASSUME SchedTypeOK, Manned
    PROVE  SleepsWhenDone
<1>1. \A s \in DOMAIN jobs : jobs[s].st \in JobState /\ s # 0
  BY JobTable DEF SchedTypeOK, Job
<1>2. QED
  BY <1>1 DEF Manned, SleepsWhenDone, Queue, JobState

\* No wake-up is lost, for any load: SleepsWhenDone is an invariant of the scheduler.
THEOREM NoLostWakeUp == SchedSpec => []SleepsWhenDone
<1>1. SchedIInv /\ Manned /\ [SchedNext]_schedVars => Manned'
  BY MannedStep DEF SchedIInv, SchedNext, ClientStep
<1>2. SchedIInv /\ Manned => SleepsWhenDone
  BY MannedSleeps DEF SchedIInv
<1>3. QED
  BY <1>1, <1>2, MannedInit, SchedInvariance, PTL DEF SchedSpec

\* The credited jobs are finitely many, since the jobs are.
LEMMA CreditedFinite ==
    ASSUME SchedTypeOK, NEW k \in Class
    PROVE  IsFiniteSet(Credited(k)) /\ Cardinality(Credited(k)) \in Nat
<1>1. Credited(k) \subseteq 1..Len(jobs) /\ Len(jobs) \in Nat
  BY JobTable DEF SchedTypeOK, Credited
<1>2. IsFiniteSet(1..Len(jobs))
  BY <1>1, FS_Interval
<1>3. QED
  BY <1>1, <1>2, FS_Subset, FS_CardinalityType

\* A step that changes neither the stats nor who has credit keeps the balance.
LEMMA LedgerKept ==
    ASSUME LedgerBalances, stats' = stats, Credited(1)' = Credited(1), Credited(2)' = Credited(2)
    PROVE  LedgerBalances'
BY DEF LedgerBalances

\* The only step that credits is the return of a successful call, and it credits
\* the class of the job that returned.
LEMMA LedgerReturn ==
    ASSUME SchedTypeOK, LedgerBalances, NEW ok \in BOOLEAN, WorkerReturn(ok)
    PROVE  LedgerBalances'
<1>1. /\ worker \in DOMAIN jobs /\ jobs[worker].st = "running" /\ Keeps
      /\ jobs'[worker].st = "returned" /\ jobs'[worker].ok = ok
      /\ \A s \in DOMAIN jobs : s # worker => jobs'[s] = jobs[s]
  BY ReturnShape
<1>2. jobs[worker].class \in Class
  BY <1>1, JobTable DEF SchedTypeOK, Class
<1>3. ASSUME NEW k \in Class, ok /\ jobs[worker].class = k
      PROVE  Credited(k)' = Credited(k) \cup {worker} /\ worker \notin Credited(k)
  BY <1>1, <1>3 DEF Credited, Keeps
<1>4. ASSUME NEW k \in Class, ~(ok /\ jobs[worker].class = k)
      PROVE  Credited(k)' = Credited(k)
  BY <1>1, <1>4 DEF Credited, Keeps
<1>5. CASE ~ok
  BY <1>4, <1>5, LedgerKept DEF WorkerReturn, Class
<1>6. CASE ok
  <2>1. PICK k \in Class : k = jobs[worker].class
    BY <1>2
  <2>2. /\ Cardinality(Credited(k)') = Cardinality(Credited(k)) + 1
        /\ \A j \in Class \ {k} : Credited(j)' = Credited(j)
    BY <1>3, <1>4, <1>6, <2>1, CreditedFinite, FS_AddElement
  <2>3. \A j \in Class : Cardinality(Credited(j)) \in Nat
    BY CreditedFinite
  <2>4. stats' = [score |-> stats.score + Delta(k), connections |-> stats.connections + 1]
    BY <1>6, <2>1 DEF WorkerReturn
  <2>5. QED
    BY <2>1, <2>2, <2>3, <2>4 DEF LedgerBalances, Delta, Class
<1>7. QED
  BY <1>5, <1>6

LEMMA LedgerInit == SchedInit => LedgerBalances
<1> SUFFICES ASSUME SchedInit PROVE LedgerBalances
  OBVIOUS
<1>1. Credited(1) = {} /\ Credited(2) = {}
  BY DEF SchedInit, Credited
<1>2. Cardinality(Credited(1)) = 0 /\ Cardinality(Credited(2)) = 0
  BY <1>1, FS_EmptySet, Zenon
<1>3. stats.score = 0 /\ stats.connections = 0
  BY DEF SchedInit
<1>4. QED
  BY <1>2, <1>3 DEF LedgerBalances

\* Whoever drives the scheduler, no step of it unbalances the ledger.
LEMMA LedgerStep ==
    ASSUME SchedTypeOK, LedgerBalances,
           \/ UNCHANGED schedVars
           \/ \E r \in Requests, k \in Class : Enqueue(r, k)
           \/ WorkerStep
    PROVE  LedgerBalances'
<1>1. ASSUME NEW r \in Requests, NEW k \in Class, Enqueue(r, k) PROVE LedgerBalances'
  <2>1. /\ DOMAIN jobs' = DOMAIN jobs \cup {Len(jobs) + 1}
        /\ \A s \in DOMAIN jobs : jobs'[s] = jobs[s]
        /\ jobs'[Len(jobs) + 1].st = "queued"
        /\ stats' = stats
    BY <1>1, EnqueueShape, JobTable DEF Enqueue, SchedTypeOK
  <2>2. QED
    BY <2>1, LedgerKept DEF Credited
<1>2. ASSUME NEW s \in Queue, WorkerPop(s) PROVE LedgerBalances'
  BY <1>2, PopShape, LedgerKept DEF WorkerPop, Credited, Keeps, Queue
<1>3. ASSUME NEW ok \in BOOLEAN, WorkerReturn(ok) PROVE LedgerBalances'
  BY <1>3, LedgerReturn
<1>4. CASE WorkerAnswer
  BY <1>4, AnswerShape, LedgerKept DEF WorkerAnswer, Credited, Keeps
<1>5. CASE WorkerSleep \/ UNCHANGED schedVars
  BY <1>5, LedgerKept DEF WorkerSleep, schedVars, Credited
<1>6. QED
  BY <1>1, <1>2, <1>3, <1>4, <1>5 DEF WorkerStep

\* Every successful job is credited once, with the delta of its class, and no
\* failed one is, for any load (Scheduler.run).
THEOREM LedgerAlwaysBalances == SchedSpec => []LedgerBalances
<1>1. SchedIInv /\ LedgerBalances /\ [SchedNext]_schedVars => LedgerBalances'
  BY LedgerStep DEF SchedIInv, SchedNext, ClientStep
<1>2. QED
  BY <1>1, LedgerInit, SchedInvariance, PTL DEF SchedSpec

-----------------------------------------------------------------------------
(* Refinement: two FIFO lanes and one server (PriorityLanes) *)

\* A listing is a sequence, as long as the set is large.
LEMMA ListingIs ==
    ASSUME NEW W \in SUBSET Nat, NEW c \in Nat, Cardinality(W) = c, NEW q \in Listings(W)
    PROVE  /\ q \in [1..c -> W] /\ q \in Seq(Nat) /\ Len(q) = c
           /\ \A s \in W : \E i \in 1..c : q[i] = s
           /\ \A i, j \in 1..c : i < j => q[i] < q[j]
<1>1. /\ q \in [1..c -> W]
      /\ \A s \in W : \E i \in 1..c : q[i] = s
      /\ \A i, j \in 1..c : i < j => q[i] < q[j]
  BY DEF Listings
<1>2. q \in Seq(Nat) /\ Len(q) = c
  <2>1. q \in [1..c -> Nat] /\ DOMAIN q = 1..c
    BY <1>1
  <2>2. q \in Seq(Nat)
    BY <2>1, SeqDef
  <2>3. DOMAIN q = 1..Len(q) /\ Len(q) \in Nat
    BY <2>2, LenProperties
  <2>4. QED
    BY <2>1, <2>2, <2>3
<1>3. QED
  BY <1>1, <1>2

\* The one listing of a set, when a number above all of it joins.
LEMMA ListingAppend ==
    ASSUME NEW W \in SUBSET Nat, IsFiniteSet(W), NEW n \in Nat, \A s \in W : s < n,
           NEW q, Listings(W) = {q}
    PROVE  Listings(W \cup {n}) = {Append(q, n)}
<1> DEFINE c == Cardinality(W)
           V == W \cup {n}
           a == Append(q, n)
<1>1. c \in Nat /\ Cardinality(V) = c + 1
  BY FS_CardinalityType, FS_AddElement
<1> HIDE DEF c
<1>2. /\ q \in [1..c -> W] /\ q \in Seq(Nat) /\ Len(q) = c
      /\ \A s \in W : \E i \in 1..c : q[i] = s
      /\ \A i, j \in 1..c : i < j => q[i] < q[j]
  BY <1>1, ListingIs DEF c
<1>3. /\ a \in Seq(Nat) /\ Len(a) = c + 1 /\ a[c + 1] = n
      /\ \A i \in 1..c : a[i] = q[i]
  BY <1>1, <1>2, AppendProperties
<1> HIDE DEF a
<1>4. a \in Listings(V)
  <2>0. a \in [1..(c + 1) -> V]
    <3>1. a \in [1..(c + 1) -> Nat]
      BY <1>3, LenProperties
    <3>2. \A i \in 1..(c + 1) : a[i] \in V
      BY <1>1, <1>2, <1>3
    <3>3. QED
      BY <3>1, <3>2
  <2>1. \A s \in V : \E i \in 1..(c + 1) : a[i] = s
    BY <1>1, <1>2, <1>3
  <2>2. \A i, j \in 1..(c + 1) : i < j => a[i] < a[j]
    <3> SUFFICES ASSUME NEW i \in 1..(c + 1), NEW j \in 1..(c + 1), i < j PROVE a[i] < a[j]
      OBVIOUS
    <3>1. i \in 1..c /\ a[i] = q[i] /\ q[i] \in W
      BY <1>1, <1>2, <1>3
    <3>2. CASE j = c + 1
      BY <1>3, <3>1, <3>2
    <3>3. CASE j \in 1..c
      BY <1>2, <1>3, <3>1, <3>3
    <3>4. QED
      BY <1>1, <3>2, <3>3
  <2>3. QED
    BY <1>1, <2>0, <2>1, <2>2 DEF Listings
<1>5. ASSUME NEW p \in Listings(V) PROVE p = a
  <2>1. /\ p \in [1..(c + 1) -> V] /\ p \in Seq(Nat) /\ Len(p) = c + 1
        /\ \A s \in V : \E i \in 1..(c + 1) : p[i] = s
        /\ \A i, j \in 1..(c + 1) : i < j => p[i] < p[j]
    BY <1>1, ListingIs
  <2>2. p[c + 1] = n
    <3>1. PICK j \in 1..(c + 1) : p[j] = n
      BY <2>1
    <3>2. p[c + 1] \in V /\ (j < c + 1 => n < p[c + 1])
      BY <1>1, <2>1, <3>1
    <3>3. p[c + 1] \in Nat /\ ~(n < p[c + 1])
      <4>1. CASE p[c + 1] \in W
        <5>1. p[c + 1] \in Nat /\ p[c + 1] < n
          BY <4>1
        <5>2. QED
          BY <5>1
      <4>2. CASE p[c + 1] = n
        BY <4>2
      <4>3. QED
        BY <3>2, <4>1, <4>2
    <3>4. ~(j < c + 1)
      BY <3>2, <3>3
    <3>5. QED
      BY <1>1, <3>1, <3>4
  <2>3. \A i \in 1..c : p[i] \in W
    BY <1>1, <2>1, <2>2
  <2> DEFINE f == [i \in 1..c |-> p[i]]
  <2>4. f \in Listings(W)
    <3>1. f \in [1..c -> W]
      BY <2>3
    <3>2. \A s \in W : \E i \in 1..c : f[i] = s
      BY <1>1, <2>1, <2>2
    <3>3. \A i, j \in 1..c : i < j => f[i] < f[j]
      BY <1>1, <2>1
    <3>4. QED
      BY <3>1, <3>2, <3>3 DEF Listings, c
  <2>5. f = q
    BY <2>4
  <2>6. \A i \in 1..(c + 1) : p[i] = a[i]
    BY <1>1, <1>3, <2>2, <2>5
  <2>7. QED
    BY <1>1, <1>3, <2>1, <2>6, SeqEqual
<1>6. QED
  BY <1>4, <1>5 DEF a

\* The one listing of a set, when its lowest number leaves.
LEMMA ListingTail ==
    ASSUME NEW W \in SUBSET Nat, IsFiniteSet(W), NEW m \in W, \A s \in W : m <= s,
           NEW q, Listings(W) = {q}
    PROVE  q # <<>> /\ Head(q) = m /\ Listings(W \ {m}) = {Tail(q)}
<1> DEFINE c == Cardinality(W)
           V == W \ {m}
           t == Tail(q)
<1>1. c \in Nat /\ c - 1 \in Nat /\ Cardinality(V) = c - 1
  <2>1. Cardinality(V) = c - 1 /\ Cardinality(V) \in Nat /\ c \in Nat
    BY FS_CardinalityType, FS_RemoveElement
  <2>2. QED
    BY <2>1
<1> HIDE DEF c
<1>2. /\ q \in [1..c -> W] /\ q \in Seq(Nat) /\ Len(q) = c
      /\ \A s \in W : \E i \in 1..c : q[i] = s
      /\ \A i, j \in 1..c : i < j => q[i] < q[j]
  BY <1>1, ListingIs DEF c
<1>3. q[1] = m
  <2>1. PICK j \in 1..c : q[j] = m
    BY <1>2
  <2>2. 1 \in 1..c /\ q[1] \in W
    BY <1>1, <1>2
  <2>3. 1 < j => q[1] < m
    BY <1>2, <2>1, <2>2
  <2>4. ~(1 < j)
    <3>1. q[1] \in Nat /\ m \in Nat /\ m <= q[1]
      BY <2>2
    <3>2. QED
      BY <2>3, <3>1
  <2>5. QED
    BY <1>1, <2>1, <2>4
<1>4. /\ q # <<>> /\ Head(q) = m
      /\ t \in Seq(Nat) /\ Len(t) = c - 1
      /\ \A i \in 1..(c - 1) : t[i] = q[i + 1]
  <2>1. q # <<>>
    BY <1>1, <1>2
  <2>2. QED
    BY <1>1, <1>2, <1>3, <2>1, HeadTailProperties
<1> HIDE DEF t
<1>5. t \in Listings(V)
  <2>1. ASSUME NEW i \in 1..(c - 1) PROVE t[i] \in V
    <3>1. /\ 1 \in 1..c /\ i + 1 \in 1..c /\ 1 < i + 1
          /\ t[i] = q[i + 1] /\ q[i + 1] \in W
      BY <1>1, <1>2, <1>4
    <3>2. m < t[i] /\ m \in Nat
      BY <1>2, <1>3, <3>1
    <3>3. QED
      BY <3>1, <3>2
  <2>2. t \in [1..(c - 1) -> V]
    <3>1. t \in [1..(c - 1) -> Nat]
      BY <1>4, LenProperties
    <3>2. QED
      BY <2>1, <3>1
  <2>3. \A s \in V : \E i \in 1..(c - 1) : t[i] = s
    <3> SUFFICES ASSUME NEW s \in V PROVE \E i \in 1..(c - 1) : t[i] = s
      OBVIOUS
    <3>1. PICK i \in 1..c : q[i] = s
      BY <1>2
    <3>2. i - 1 \in 1..(c - 1) /\ t[i - 1] = s
      BY <1>1, <1>3, <1>4, <3>1
    <3>3. QED
      BY <3>2
  <2>4. \A i, j \in 1..(c - 1) : i < j => t[i] < t[j]
    BY <1>1, <1>2, <1>4
  <2>5. QED
    BY <1>1, <2>2, <2>3, <2>4 DEF Listings
<1>6. ASSUME NEW p \in Listings(V) PROVE p = t
  <2>1. /\ p \in [1..(c - 1) -> V] /\ p \in Seq(Nat) /\ Len(p) = c - 1
        /\ \A s \in V : \E i \in 1..(c - 1) : p[i] = s
        /\ \A i, j \in 1..(c - 1) : i < j => p[i] < p[j]
    BY <1>1, ListingIs
  <2> DEFINE g == [i \in 1..c |-> IF i = 1 THEN m ELSE p[i - 1]]
  <2>2. g \in Listings(W)
    <3>1. g \in [1..c -> W]
      BY <1>1, <2>1
    <3>2. \A s \in W : \E i \in 1..c : g[i] = s
      <4> SUFFICES ASSUME NEW s \in W PROVE \E i \in 1..c : g[i] = s
        OBVIOUS
      <4>1. CASE s = m
        <5>1. 1 \in 1..c /\ g[1] = m
          BY <1>1
        <5>2. QED
          BY <4>1, <5>1
      <4>2. CASE s # m
        <5>1. PICK i \in 1..(c - 1) : p[i] = s
          BY <2>1, <4>2
        <5>2. i + 1 \in 1..c /\ g[i + 1] = s
          BY <1>1, <5>1
        <5>3. QED
          BY <5>2
      <4>3. QED
        BY <4>1, <4>2
    <3>3. \A i, j \in 1..c : i < j => g[i] < g[j]
      <4> SUFFICES ASSUME NEW i \in 1..c, NEW j \in 1..c, i < j PROVE g[i] < g[j]
        OBVIOUS
      <4>1. j - 1 \in 1..(c - 1) /\ g[j] = p[j - 1]
        BY <1>1
      <4>2. CASE i = 1
        <5>1. p[j - 1] \in V /\ p[j - 1] \in Nat /\ m \in Nat
          BY <2>1, <4>1
        <5>2. m < p[j - 1]
          BY <5>1
        <5>3. QED
          BY <4>1, <4>2, <5>2
      <4>3. CASE i # 1
        <5>1. i - 1 \in 1..(c - 1) /\ g[i] = p[i - 1] /\ i - 1 < j - 1
          BY <1>1, <4>3
        <5>2. QED
          BY <2>1, <4>1, <5>1
      <4>4. QED
        BY <4>2, <4>3
    <3>4. QED
      BY <3>1, <3>2, <3>3 DEF Listings, c
  <2>3. g = q
    BY <2>2
  <2>4. \A i \in 1..(c - 1) : p[i] = t[i]
    BY <1>1, <1>4, <2>3
  <2>5. QED
    BY <1>1, <1>4, <2>1, <2>4, SeqEqual
<1>7. QED
  BY <1>4, <1>5, <1>6 DEF t

LEMMA ListingEmpty == Listings({}) = {<<>>}
<1>1. Cardinality({}) = 0 /\ 1..0 = {}
  BY FS_EmptySet
<1>2. <<>> \in Listings({})
  BY <1>1 DEF Listings
<1>3. ASSUME NEW q \in Listings({}) PROVE q = <<>>
  <2>1. q \in Seq(Nat) /\ Len(q) = 0
    BY <1>1, ListingIs
  <2>2. QED
    BY <2>1
<1>4. QED
  BY <1>2, <1>3

LEMMA SameLength ==
    ASSUME NEW m \in Nat, NEW n \in Nat, 1..m = 1..n
    PROVE  m = n
<1>1. m < n => n \in 1..m
  OBVIOUS
<1>2. n < m => m \in 1..n
  OBVIOUS
<1>3. QED
  BY <1>1, <1>2

\* Each lane can be listed in one way.
Listed == \A k \in Class : Listings(Waiting(k)) = {Lane(k)}

LEMMA LaneIs ==
    ASSUME NEW k, NEW q, Listings(Waiting(k)) = {q}
    PROVE  Lane(k) = q
BY DEF Lane

LEMMA WaitingNumbers ==
    ASSUME SchedTypeOK, NEW k \in Class
    PROVE  Waiting(k) \in SUBSET Nat /\ IsFiniteSet(Waiting(k))
<1>1. Waiting(k) \subseteq 1..Len(jobs) /\ Len(jobs) \in Nat
  BY JobTable DEF SchedTypeOK, Waiting, Queue
<1>2. IsFiniteSet(1..Len(jobs))
  BY <1>1, FS_Interval
<1>3. QED
  BY <1>1, <1>2, FS_Subset

\* A lane whose jobs stay.
LEMMA LaneKept ==
    ASSUME NEW k \in Class, Listings(Waiting(k)) = {Lane(k)}, Waiting(k)' = Waiting(k)
    PROVE  Lane(k)' = Lane(k) /\ Listings(Waiting(k))' = {Lane(k)'}
<1>1. Listings(Waiting(k))' = Listings(Waiting(k))
  BY DEF Listings
<1>2. QED
  BY <1>1 DEF Lane

\* An arrival joins the end of its lane.
LEMMA LanesEnqueue ==
    ASSUME SchedTypeOK, Listed, NEW r \in Requests, NEW k \in Class, Enqueue(r, k)
    PROVE  Listed' /\ Lanes!Arrive
<1>1. /\ Len(jobs) \in Nat /\ DOMAIN jobs = 1..Len(jobs)
      /\ Len(jobs') = Len(jobs) + 1 /\ DOMAIN jobs' = 1..(Len(jobs) + 1)
      /\ \A s \in 1..Len(jobs) : jobs'[s] = jobs[s]
      /\ jobs'[Len(jobs) + 1].st = "queued" /\ jobs'[Len(jobs) + 1].class = k
      /\ worker' = worker
  BY EnqueueShape, JobTable DEF SchedTypeOK, Enqueue
<1>2. PICK n \in Nat : n = Len(jobs) + 1
  BY <1>1
<1>3. ASSUME NEW j \in Class, j # k
      PROVE  Lane(j)' = Lane(j) /\ Listings(Waiting(j))' = {Lane(j)'}
  <2>1. Waiting(j)' = Waiting(j)
    BY <1>1, <1>3 DEF Waiting, Queue
  <2>2. QED
    BY <2>1, LaneKept DEF Listed
<1>4. Lane(k)' = Append(Lane(k), n) /\ Listings(Waiting(k))' = {Lane(k)'}
  <2>1. Waiting(k)' = Waiting(k) \cup {n} /\ \A s \in Waiting(k) : s < n
    BY <1>1, <1>2 DEF Waiting, Queue
  <2>2. Listings(Waiting(k) \cup {n}) = {Append(Lane(k), n)}
    BY <1>2, <2>1, WaitingNumbers, ListingAppend DEF Listed
  <2>3. Listings(Waiting(k))' = {Append(Lane(k), n)}
    BY <2>1, <2>2 DEF Listings
  <2>4. QED
    BY <2>3 DEF Lane
<1>5. Listed'
  BY <1>3, <1>4 DEF Listed
<1>6. Lanes!Arrive
  BY <1>1, <1>2, <1>3, <1>4 DEF Lanes!Arrive, Class
<1>7. QED
  BY <1>5, <1>6

\* The heap pops the head of the first lane that is not empty.
LEMMA LanesPop ==
    ASSUME SchedTypeOK, Listed, NEW p \in Queue, WorkerPop(p)
    PROVE  Listed' /\ (Lanes!ServeFirstLane \/ Lanes!ServeSecondLane)
<1>1. /\ DOMAIN jobs = 1..Len(jobs) /\ Len(jobs) \in Nat /\ DOMAIN jobs' = DOMAIN jobs
      /\ Len(jobs') = Len(jobs)
      /\ \A s \in DOMAIN jobs : jobs'[s].class = jobs[s].class
      /\ jobs'[p].st = "running" /\ jobs[p].st = "queued"
      /\ \A s \in DOMAIN jobs : s # p => jobs'[s] = jobs[s]
      /\ worker = 0 /\ worker' = p /\ p \in DOMAIN jobs
      /\ \A t \in Queue \ {p} : Less(p, t)
      /\ \A s \in DOMAIN jobs : jobs[s].class \in Class
  <2>1. SchedTypeOK' /\ Len(jobs') \in Nat /\ DOMAIN jobs' = 1..Len(jobs')
    BY PopShape, JobTable DEF SchedTypeOK
  <2>2. DOMAIN jobs = 1..Len(jobs) /\ Len(jobs) \in Nat /\ DOMAIN jobs' = DOMAIN jobs
    BY PopShape, JobTable DEF SchedTypeOK, Keeps
  <2>3. Len(jobs') = Len(jobs)
    BY <2>1, <2>2, SameLength
  <2>4. \A s \in DOMAIN jobs : jobs[s].class \in Class
    BY JobTable DEF SchedTypeOK, Class
  <2>5. QED
    BY <2>2, <2>3, <2>4, PopShape DEF WorkerPop, Keeps, Queue
<1>2. PICK k \in Class : k = jobs[p].class
  BY <1>1
<1>3. ASSUME NEW j \in Class, j # k
      PROVE  Lane(j)' = Lane(j) /\ Listings(Waiting(j))' = {Lane(j)'}
  <2>1. Waiting(j)' = Waiting(j)
    BY <1>1, <1>2, <1>3 DEF Waiting, Queue
  <2>2. QED
    BY <2>1, LaneKept DEF Listed
<1>4. /\ Lane(k) # <<>> /\ Head(Lane(k)) = p /\ Lane(k)' = Tail(Lane(k))
      /\ Listings(Waiting(k))' = {Lane(k)'}
  <2>1. /\ Waiting(k)' = Waiting(k) \ {p} /\ p \in Waiting(k)
        /\ \A s \in Waiting(k) : p <= s
    <3>1. Waiting(k)' = Waiting(k) \ {p}
      BY <1>1 DEF Waiting, Queue
    <3>2. ASSUME NEW s \in Waiting(k), s # p PROVE p <= s
      <4>1. s \in Queue \ {p} /\ jobs[s].class = k /\ s \in Nat /\ p \in Nat /\ k \in Nat
        BY <1>1, <3>2 DEF Waiting, Queue, Class
      <4>2. p < s
        BY <1>1, <1>2, <4>1 DEF Less
      <4>3. QED
        BY <4>1, <4>2
    <3>3. p \in Waiting(k) /\ p <= p
      BY <1>1, <1>2 DEF Waiting
    <3>4. QED
      BY <3>1, <3>2, <3>3
  <2>2. /\ Lane(k) # <<>> /\ Head(Lane(k)) = p
        /\ Listings(Waiting(k) \ {p}) = {Tail(Lane(k))}
    BY <2>1, WaitingNumbers, ListingTail DEF Listed
  <2>3. Listings(Waiting(k))' = {Tail(Lane(k))}
    BY <2>1, <2>2 DEF Listings
  <2>4. QED
    BY <2>2, <2>3 DEF Lane
<1>5. Listed'
  BY <1>3, <1>4 DEF Listed
<1>6. CASE k = 1
  BY <1>1, <1>3, <1>4, <1>5, <1>6 DEF Lanes!ServeFirstLane, Class
<1>7. CASE k = 2
  <2>1. Waiting(1) = {}
    <3> SUFFICES ASSUME NEW s \in Waiting(1) PROVE FALSE
      OBVIOUS
    <3>1. s \in Queue /\ jobs[s].class = 1
      BY DEF Waiting
    <3>2. jobs[p].class = 2
      BY <1>2, <1>7
    <3>3. s # p
      BY <3>1, <3>2
    <3>4. Less(p, s)
      BY <1>1, <3>1, <3>3
    <3>5. QED
      BY <3>1, <3>2, <3>4 DEF Less
  <2>2. Lane(1) = <<>>
    BY <2>1, ListingEmpty, LaneIs
  <2>3. QED
    BY <1>1, <1>3, <1>4, <1>5, <1>7, <2>2 DEF Lanes!ServeSecondLane, Class
<1>8. QED
  BY <1>5, <1>6, <1>7 DEF Class

\* What leaves the queue alone leaves the lanes alone.
LEMMA LanesRest ==
    ASSUME Listed, \A k \in Class : Waiting(k)' = Waiting(k)
    PROVE  Listed' /\ Lane(1)' = Lane(1) /\ Lane(2)' = Lane(2)
BY LaneKept DEF Listed, Class

LEMMA LanesWorker ==
    ASSUME SchedTypeOK, Listed, WorkerStep
    PROVE  Listed' /\ [Lanes!LanesNext]_Lanes!laneVars
<1>0. /\ DOMAIN jobs = 1..Len(jobs) /\ Len(jobs) \in Nat
      /\ DOMAIN jobs' = 1..Len(jobs') /\ Len(jobs') \in Nat
      /\ DOMAIN jobs' = DOMAIN jobs /\ \A s \in DOMAIN jobs : jobs'[s].class = jobs[s].class
  BY WorkerShape, JobTable DEF SchedTypeOK, Keeps
<1>1. Len(jobs') = Len(jobs)
  BY <1>0, SameLength
<1>2. CASE WorkerSleep
  <2>1. \A k \in Class : Waiting(k)' = Waiting(k)
    BY <1>2 DEF WorkerSleep, Waiting, Queue
  <2>2. QED
    BY <1>1, <1>2, <2>1, LanesRest DEF WorkerSleep, Lanes!laneVars
<1>3. ASSUME NEW p \in Queue, WorkerPop(p) PROVE Listed' /\ Lanes!LanesNext
  BY <1>3, LanesPop DEF Lanes!LanesNext
<1>4. ASSUME NEW ok \in BOOLEAN, WorkerReturn(ok)
      PROVE  Listed' /\ UNCHANGED Lanes!laneVars
  <2>1. /\ worker \in DOMAIN jobs /\ jobs[worker].st = "running" /\ jobs'[worker].st = "returned"
        /\ \A s \in DOMAIN jobs : s # worker => jobs'[s] = jobs[s]
        /\ worker' = worker
    BY <1>4, ReturnShape DEF WorkerReturn
  <2>2. \A k \in Class : Waiting(k)' = Waiting(k)
    BY <1>0, <2>1 DEF Waiting, Queue
  <2>3. QED
    BY <1>1, <2>1, <2>2, LanesRest DEF Lanes!laneVars
<1>5. ASSUME WorkerAnswer PROVE Listed' /\ Lanes!LanesNext
  <2>1. /\ worker \in DOMAIN jobs /\ jobs[worker].st = "returned" /\ jobs'[worker].st = "answered"
        /\ \A s \in DOMAIN jobs : s # worker => jobs'[s] = jobs[s]
        /\ worker # 0 /\ worker' = 0
    BY <1>5, AnswerShape DEF WorkerAnswer
  <2>2. \A k \in Class : Waiting(k)' = Waiting(k)
    BY <1>0, <2>1 DEF Waiting, Queue
  <2>3. Lanes!Done
    BY <1>1, <2>1, <2>2, LanesRest DEF Lanes!Done
  <2>4. QED
    BY <2>2, <2>3, LanesRest DEF Lanes!LanesNext
<1>6. QED
  BY <1>2, <1>3, <1>4, <1>5 DEF WorkerStep

LEMMA LanesBegin ==
    ASSUME SchedInit
    PROVE  Listed /\ Lanes!LanesInit
<1>1. Len(jobs) = 0 /\ \A k \in Class : Waiting(k) = {}
  BY EmptySeq DEF SchedInit, Waiting, Queue
<1>2. \A k \in Class : Listings(Waiting(k)) = {<<>>} /\ Lane(k) = <<>>
  BY <1>1, ListingEmpty, LaneIs
<1>3. QED
  BY <1>1, <1>2 DEF SchedInit, Listed, Lanes!LanesInit, Class

\* Whoever drives the scheduler, a step of it is a step of the lanes.
LEMMA LanesStep ==
    ASSUME SchedTypeOK, Listed,
           \/ UNCHANGED schedVars
           \/ \E r \in Requests, k \in Class : Enqueue(r, k)
           \/ WorkerStep
    PROVE  Listed' /\ [Lanes!LanesNext]_Lanes!laneVars
<1>1. ASSUME NEW r \in Requests, NEW k \in Class, Enqueue(r, k)
      PROVE  Listed' /\ [Lanes!LanesNext]_Lanes!laneVars
  BY <1>1, LanesEnqueue DEF Lanes!LanesNext
<1>2. CASE WorkerStep
  BY <1>2, LanesWorker
<1>3. CASE UNCHANGED schedVars
  <2>1. \A k \in Class : Waiting(k)' = Waiting(k)
    BY <1>3 DEF schedVars, Waiting, Queue
  <2>2. QED
    BY <1>3, <2>1, LanesRest DEF schedVars, Lanes!laneVars
<1>4. QED
  BY <1>1, <1>2, <1>3

\* Whatever arrives, the heap, its order and the condition variable take the jobs
\* as two FIFO lanes with one server would (Scheduler.run, requestQueue.Less).
THEOREM SchedulerFollowsLanes == SchedSpec => Lanes!LanesSpec
<1>1. SchedTypeOK /\ Listed /\ [SchedNext]_schedVars
         => Listed' /\ [Lanes!LanesNext]_Lanes!laneVars
  BY LanesStep DEF SchedNext, ClientStep
<1>2. QED
  BY <1>1, LanesBegin, SchedTypeCorrect, PTL DEF SchedSpec, Lanes!LanesSpec

=============================================================================
