---------------------------- MODULE SchedulerLoad ----------------------------
(***************************************************************************)
(* TokenScheduler closed with an environment that enqueues jobs of either  *)
(* class at any moment: every load the handlers can put on the scheduler,  *)
(* up to MaxJobs jobs.                                                     *)
(***************************************************************************)
EXTENDS TokenScheduler

CONSTANT
    MaxJobs     \* bound of the model: how many jobs are ever enqueued

ASSUME MaxJobsAssumption == MaxJobs \in Nat

\* Any handler may enqueue, in any class, while the bound allows.
ClientStep ==
    /\ Len(jobs) < MaxJobs
    /\ \E r \in Requests, k \in Class : Enqueue(r, k)

SchedNext == ClientStep \/ WorkerStep

SchedSpec == SchedInit /\ [][SchedNext]_schedVars /\ WF_schedVars(WorkerStep)

-----------------------------------------------------------------------------

\* Each job enqueued is answered, the failed ones too, and run() never sleeps
\* through a Signal.  It rests on arrivals coming to an end (MaxJobs): an endless
\* stream of class 1 starves class 2 by design of Less.
EveryJobAnswered ==
    \A s \in 1..MaxJobs : s \in DOMAIN jobs ~> s \in DOMAIN jobs /\ jobs[s].st = "answered"

-----------------------------------------------------------------------------

Waiting(k) == {s \in Queue : jobs[s].class = k}

\* The sequences that list a set of numbers from the lowest to the highest.
Listings(W) ==
    {q \in [1..Cardinality(W) -> W] :
        /\ \A s \in W : \E i \in DOMAIN q : q[i] = s
        /\ \A i, j \in DOMAIN q : i < j => q[i] < q[j]}

Lane(k) == CHOOSE q \in Listings(Waiting(k)) : TRUE

\* The heap of jobs seen as the two lanes of the abstract scheduler.
Lanes == INSTANCE PriorityLanes WITH
    lane1 <- Lane(1), lane2 <- Lane(2), serving <- worker, arrived <- Len(jobs)

\* The heap ordered by (Class, seq) and the condition variable implement two
\* FIFO lanes with a work-conserving server (scheduler.go, Scheduler.run).
ImplementsLanes == Lanes!FairLanesSpec

=============================================================================
