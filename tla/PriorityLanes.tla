---------------------------- MODULE PriorityLanes ----------------------------
(***************************************************************************)
(* What the token scheduler promises ("Class 1 runs before Class 2; within *)
(* each class requests are FIFO", daemon/scheduler.go): one FIFO lane per  *)
(* class and a single server that turns to lane 2 only when lane 1 is      *)
(* empty.  Jobs are numbered by arrival.                                   *)
(***************************************************************************)
EXTENDS Naturals, Sequences

VARIABLES
    lane1, lane2,   \* the jobs waiting in each class, oldest first
    serving,        \* the job being served, 0 when there is none
    arrived         \* how many jobs have arrived

laneVars == <<lane1, lane2, serving, arrived>>

LanesInit ==
    /\ lane1 = <<>> /\ lane2 = <<>>
    /\ serving = 0
    /\ arrived = 0

Arrive ==
    /\ arrived' = arrived + 1
    /\ \/ lane1' = Append(lane1, arrived + 1) /\ UNCHANGED lane2
       \/ lane2' = Append(lane2, arrived + 1) /\ UNCHANGED lane1
    /\ UNCHANGED serving

ServeFirstLane ==
    /\ serving = 0 /\ lane1 # <<>>
    /\ serving' = Head(lane1)
    /\ lane1' = Tail(lane1)
    /\ UNCHANGED <<lane2, arrived>>

ServeSecondLane ==
    /\ serving = 0 /\ lane1 = <<>> /\ lane2 # <<>>
    /\ serving' = Head(lane2)
    /\ lane2' = Tail(lane2)
    /\ UNCHANGED <<lane1, arrived>>

Done ==
    /\ serving # 0
    /\ serving' = 0
    /\ UNCHANGED <<lane1, lane2, arrived>>

LanesNext == Arrive \/ ServeFirstLane \/ ServeSecondLane \/ Done

LanesSpec == LanesInit /\ [][LanesNext]_laneVars

\* The server never stays idle for ever while a job waits, nor busy for ever.
FairLanesSpec == LanesSpec /\ WF_laneVars(ServeFirstLane \/ ServeSecondLane \/ Done)

=============================================================================
