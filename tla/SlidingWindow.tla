--------------------------- MODULE SlidingWindow ----------------------------
(***************************************************************************)
(* What a rate limiter promises: a caller is accepted unless Limit calls   *)
(* of his have been accepted within the last Window units of time.  The    *)
(* promise refers to the whole history; a limiter forgets most of it.      *)
(***************************************************************************)
EXTENDS Naturals, FiniteSets

CONSTANTS
    Keys,       \* the callers
    Limit,      \* accepted calls per window
    Window,     \* its length
    MaxTime     \* bound of the model on the clock

VARIABLES
    now,        \* the monotonic clock
    log,        \* per caller: the calls accepted, with their number and time
    calls,      \* how many calls have been accepted
    answer      \* the last answer: to whom, and whether he is accepted

vars == <<now, log, calls, answer>>

Init ==
    /\ now = 0
    /\ log = [k \in Keys |-> {}]
    /\ calls = 0
    /\ answer \in [key : Keys, ok : {TRUE}]

Tick ==
    /\ now < MaxTime
    /\ now' = now + 1
    /\ UNCHANGED <<log, calls, answer>>

\* The calls of k accepted within the window that ends at t.
Within(k, t) == {c \in log[k] : c.at <= t /\ t < c.at + Window}

Accept(k) ==
    /\ Cardinality(Within(k, now)) < Limit
    /\ log' = [log EXCEPT ![k] = @ \cup {[n |-> calls, at |-> now]}]
    /\ calls' = calls + 1
    /\ answer' = [key |-> k, ok |-> TRUE]
    /\ UNCHANGED now

Refuse(k) ==
    /\ Cardinality(Within(k, now)) >= Limit
    /\ answer' = [key |-> k, ok |-> FALSE]
    /\ UNCHANGED <<now, log, calls>>

Next ==
    \/ Tick
    \/ \E k \in Keys : Accept(k) \/ Refuse(k)

Spec == Init /\ [][Next]_vars

=============================================================================
