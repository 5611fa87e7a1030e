--------------------------- MODULE TokenScheduler ---------------------------
(***************************************************************************)
(* The daemon's token scheduler (daemon/scheduler.go): a mutex-protected   *)
(* priority queue filled by the HTTP handlers and the review sweeper, and  *)
(* emptied by the single worker goroutine run().                           *)
(*                                                                         *)
(* A job's sequence number (TokenRequest.seq, drawn from seqNext under the *)
(* scheduler's mutex) is its index in `jobs', so seqNext is Len(jobs) and  *)
(* the queue is the set of jobs still "queued".  container/heap is used    *)
(* only through Push, Pop and Less: popping removes the Less-least job.    *)
(* The fields start and ahead, and the counter starts, are history: they   *)
(* date a job's start and its arrival by the number of starts so far.      *)
(***************************************************************************)
EXTENDS Naturals, Sequences, FiniteSets

CONSTANT
    Requests    \* the user requests (prompts) that jobs are made of

Class == {1, 2}         \* 1 = community benefit, 2 = personal benefit

JobState == {"queued", "running", "returned", "answered"}

VARIABLES
    jobs,       \* every TokenRequest enqueued so far, indexed by its seq
    worker,     \* the seq of the job run() holds, 0 when it holds none
    asleep,     \* run() is blocked in cond.Wait()
    stats,      \* what run() has added to node.stats: score, connections
    starts      \* history: the number of jobs run() has popped

schedVars == <<jobs, worker, asleep, stats, starts>>

Job == [req : Requests, class : Class, st : JobState, ok : BOOLEAN,
        start : Nat, ahead : Nat]

\* Faulty variant of Less: newest first within a class.
LessStack(i, j) ==
    \/ jobs[i].class < jobs[j].class
    \/ jobs[i].class = jobs[j].class /\ i > j

\* requestQueue.Less: lower class first, then lower sequence number.
Less(i, j) ==
    \/ jobs[i].class < jobs[j].class
    \/ jobs[i].class = jobs[j].class /\ i < j

Queue == {s \in DOMAIN jobs : jobs[s].st = "queued"}

\* The delta run() credits for a job of class k (2.0 or 1.0).
Delta(k) == IF k = 2 THEN 1 ELSE 2

-----------------------------------------------------------------------------

SchedInit ==
    /\ jobs = <<>>
    /\ worker = 0
    /\ asleep = FALSE
    /\ stats = [score |-> 0, connections |-> 0]
    /\ starts = 0

\* Faulty variant of Enqueue: the worker is not signalled.
EnqueueSilently(r, k) ==
    /\ jobs' = Append(jobs, [req |-> r, class |-> k, st |-> "queued", ok |-> FALSE,
                             start |-> 0, ahead |-> starts])
    /\ UNCHANGED <<worker, asleep, stats, starts>>

\* Scheduler.Enqueue: take the next seq, push, signal the worker.
Enqueue(r, k) ==
    /\ jobs' = Append(jobs, [req |-> r, class |-> k, st |-> "queued", ok |-> FALSE,
                             start |-> 0, ahead |-> starts])
    /\ asleep' = FALSE
    /\ UNCHANGED <<worker, stats, starts>>

\* run() finds the queue empty and waits on the condition variable.
WorkerSleep ==
    /\ worker = 0 /\ ~asleep
    /\ Queue = {}
    /\ asleep' = TRUE
    /\ UNCHANGED <<jobs, worker, stats, starts>>

\* Faulty variant of WorkerPop: the last element of the slice, not heap.Pop.
WorkerPopLast(s) ==
    /\ worker = 0 /\ ~asleep
    /\ s \in Queue
    /\ \A t \in Queue : t <= s
    /\ worker' = s
    /\ starts' = starts + 1
    /\ jobs' = [jobs EXCEPT ![s] = [@ EXCEPT !.st = "running", !.start = starts + 1]]
    /\ UNCHANGED <<asleep, stats>>

\* run() pops the first job and hands it to the model server.
WorkerPop(s) ==
    /\ worker = 0 /\ ~asleep
    /\ s \in Queue
    /\ \A t \in Queue \ {s} : Less(s, t)
    /\ worker' = s
    /\ starts' = starts + 1
    /\ jobs' = [jobs EXCEPT ![s] = [@ EXCEPT !.st = "running", !.start = starts + 1]]
    /\ UNCHANGED <<asleep, stats>>

\* Faulty variant of WorkerReturn: failures are credited too.
WorkerReturnCredits(ok) ==
    /\ worker # 0
    /\ jobs[worker].st = "running"
    /\ jobs' = [jobs EXCEPT ![worker] = [@ EXCEPT !.st = "returned", !.ok = ok]]
    /\ stats' = [score |-> stats.score + Delta(jobs[worker].class),
                 connections |-> stats.connections + 1]
    /\ UNCHANGED <<worker, asleep, starts>>

\* The model call returns; a success is credited under node.mu.
WorkerReturn(ok) ==
    /\ worker # 0
    /\ jobs[worker].st = "running"
    /\ jobs' = [jobs EXCEPT ![worker] = [@ EXCEPT !.st = "returned", !.ok = ok]]
    /\ stats' = IF ok
                  THEN [score |-> stats.score + Delta(jobs[worker].class),
                        connections |-> stats.connections + 1]
                  ELSE stats
    /\ UNCHANGED <<worker, asleep, starts>>

\* Faulty variant of WorkerAnswer: a failed job gets no result.
WorkerAnswerSuccess ==
    /\ worker # 0
    /\ jobs[worker].st = "returned"
    /\ jobs' = IF jobs[worker].ok
                 THEN [jobs EXCEPT ![worker] = [@ EXCEPT !.st = "answered"]]
                 ELSE jobs
    /\ worker' = 0
    /\ UNCHANGED <<asleep, stats, starts>>

\* The result goes into the job's own channel, which has room for it.
WorkerAnswer ==
    /\ worker # 0
    /\ jobs[worker].st = "returned"
    /\ jobs' = [jobs EXCEPT ![worker] = [@ EXCEPT !.st = "answered"]]
    /\ worker' = 0
    /\ UNCHANGED <<asleep, stats, starts>>

WorkerStep ==
    \/ WorkerSleep
    \/ \E s \in Queue : WorkerPop(s)
    \/ \E ok \in BOOLEAN : WorkerReturn(ok)
    \/ WorkerAnswer

-----------------------------------------------------------------------------

\* The type of the scheduler's state (struct Scheduler, TokenRequest, NodeStats).
SchedTypeOK ==
    /\ jobs \in Seq(Job)
    /\ worker \in 0..Len(jobs)
    /\ asleep \in BOOLEAN
    /\ stats \in [score : Nat, connections : Nat]
    /\ starts \in Nat

\* Lower class first, then first come first served.
Precedes(s, t) ==
    \/ jobs[s].class < jobs[t].class
    \/ jobs[s].class = jobs[t].class /\ s < t

\* scripts/test-priority.sh expects class 1 to complete before class 2 unless
\* class 2 was already processing, and scheduler.go promises FIFO within a
\* class: a job that comes first in that order is never overtaken, after its
\* arrival, by one that comes second.
NoOvertaking ==
    \A s, t \in DOMAIN jobs :
        Precedes(s, t) /\ jobs[t].start > jobs[s].ahead
            => jobs[s].start # 0 /\ jobs[s].start < jobs[t].start

Credited(k) ==
    {s \in DOMAIN jobs : /\ jobs[s].class = k
                         /\ jobs[s].ok
                         /\ jobs[s].st \in {"returned", "answered"}}

\* Every successful job is credited once, with the delta of the class it ran
\* under, whatever calls fail or interleave.
LedgerBalances ==
    /\ stats.score = 2 * Cardinality(Credited(1)) + Cardinality(Credited(2))
    /\ stats.connections = Cardinality(Credited(1)) + Cardinality(Credited(2))

=============================================================================
