---------------------------- MODULE RateLimiter -----------------------------
(***************************************************************************)
(* RateLimiter of daemon/scheduler.go: Allow and PruneEmpty, each under    *)
(* the limiter's mutex.  /submit and /consent share a limiter of 60 calls  *)
(* a minute, pruned every 5 minutes; /trust-request has one of 3 calls an  *)
(* hour that is never pruned.                                              *)
(***************************************************************************)
EXTENDS Naturals, FiniteSets

CONSTANTS
    Keys,       \* node ids and source addresses (rateLimitKey)
    Limit,      \* calls per window
    Window,     \* its length
    MaxTime     \* bound of the model on the clock

\* The limits main.go gives are positive.
ASSUME RateLimiterAssumption ==
    Limit \in Nat \ {0} /\ Window \in Nat \ {0} /\ MaxTime \in Nat

VARIABLES
    now,        \* time.Now()
    buckets,    \* per key: the calls kept; an absent bucket is an empty one
    log,        \* history: every call accepted
    calls,      \* history: their number
    answer      \* the last result of Allow, and its key

vars == <<now, buckets, log, calls, answer>>

SW == INSTANCE SlidingWindow

Init ==
    /\ SW!Init
    /\ buckets = [k \in Keys |-> {}]

Tick ==
    /\ SW!Tick
    /\ UNCHANGED buckets

\* t.After(cutoff), of a call kept in a bucket.
InWindow(c) == now < c.at + Window

Valid(k) == {c \in buckets[k] : InWindow(c)}

Call == [n |-> calls, at |-> now]

\* Faulty variant of Refuse: a refused call is kept as well.
RefuseKeeps(k) ==
    /\ Cardinality(Valid(k)) >= Limit
    /\ buckets' = [buckets EXCEPT ![k] = Valid(k) \cup {Call}]
    /\ answer' = [key |-> k, ok |-> FALSE]
    /\ UNCHANGED <<now, log, calls>>

\* The calls out of the window are forgotten.  Fewer than the limit are left ...
Accept(k) ==
    /\ Cardinality(Valid(k)) < Limit
    /\ buckets' = [buckets EXCEPT ![k] = Valid(k) \cup {Call}]
    /\ log' = [log EXCEPT ![k] = @ \cup {Call}]
    /\ calls' = calls + 1
    /\ answer' = [key |-> k, ok |-> TRUE]
    /\ UNCHANGED now

\* ... or the limit is reached.
Refuse(k) ==
    /\ Cardinality(Valid(k)) >= Limit
    /\ buckets' = [buckets EXCEPT ![k] = Valid(k)]
    /\ answer' = [key |-> k, ok |-> FALSE]
    /\ UNCHANGED <<now, log, calls>>

Allow(k) == Accept(k) \/ Refuse(k)

\* Faulty variant of PruneEmpty: a bucket is dropped over its oldest call.
PruneOldest ==
    /\ buckets' = [k \in Keys |-> IF \A c \in buckets[k] : InWindow(c) THEN buckets[k] ELSE {}]
    /\ UNCHANGED <<now, log, calls, answer>>

\* The buckets with no call in the window are dropped.
PruneEmpty ==
    /\ buckets' = [k \in Keys |-> IF \E c \in buckets[k] : InWindow(c) THEN buckets[k] ELSE {}]
    /\ UNCHANGED <<now, log, calls, answer>>

Next ==
    \/ Tick
    \/ \E k \in Keys : Allow(k)
    \/ PruneEmpty

Spec == Init /\ [][Next]_vars

-----------------------------------------------------------------------------

\* The type of the buckets and of the history; a bucket never outgrows the limit.
TypeOK ==
    /\ now \in 0..MaxTime /\ calls \in Nat
    /\ log \in [Keys -> SUBSET [n : 0..calls, at : 0..now]]
    /\ \A k \in Keys : buckets[k] \subseteq log[k] /\ Cardinality(buckets[k]) <= Limit
    /\ DOMAIN buckets = Keys
    /\ answer \in [key : Keys, ok : BOOLEAN]

\* "RateLimiter enforces a per-key sliding-window rate limit" (scheduler.go): no
\* window of time, wherever it ends, holds more than Limit accepted calls of a key,
\* although Allow and PruneEmpty forget calls.
AtMostLimit ==
    \A k \in Keys, t \in 0..MaxTime : Cardinality(SW!Within(k, t)) <= Limit

\* With the buckets alone the limiter gives the answers that the whole history of
\* calls gives: forgetting a call never lets one too many in, and a refused call
\* never counts against a later one.
ImplementsSlidingWindow == SW!Spec

=============================================================================
