------------------------- MODULE RateLimiterProofs --------------------------
(***************************************************************************)
(* For any limit, window and number of keys the limiter's buckets serve as *)
(* well as the whole history of accepted calls.                            *)
(***************************************************************************)
EXTENDS RateLimiter, FiniteSetTheorems, TLAPS

\* A bucket holds accepted calls, and all those that are in the window.
Kept ==
    \A k \in Keys :
        /\ buckets[k] \subseteq log[k]
        /\ \A c \in log[k] : InWindow(c) => c \in buckets[k]

Types ==
    /\ now \in 0..MaxTime /\ calls \in Nat
    /\ log \in [Keys -> SUBSET [n : Nat, at : Nat]]
    /\ \A k \in Keys : \A c \in log[k] : c.at <= now /\ c.n < calls
    /\ DOMAIN buckets = Keys
    /\ answer \in [key : Keys, ok : BOOLEAN]

Finite == \A k \in Keys : IsFiniteSet(log[k])

Bounded == \A k \in Keys : Cardinality(buckets[k]) <= Limit

RInv == Types /\ Kept /\ Finite /\ Bounded /\ AtMostLimit

\* The calls Allow counts are those of the history that are in the window.
LEMMA ValidIsWithin ==
    ASSUME Types, Kept, NEW k \in Keys
    PROVE  Valid(k) = SW!Within(k, now)
BY RateLimiterAssumption DEF Types, Kept, Valid, InWindow, SW!Within

LEMMA InitRInv == Init => RInv
<1> SUFFICES ASSUME Init PROVE RInv
  OBVIOUS
<1>0. /\ now = 0 /\ calls = 0 /\ \A k \in Keys : log[k] = {} /\ buckets[k] = {}
      /\ log = [k \in Keys |-> {}] /\ DOMAIN buckets = Keys
      /\ answer \in [key : Keys, ok : {TRUE}]
  BY DEF Init, SW!Init
<1>a. answer \in [key : Keys, ok : BOOLEAN]
  BY <1>0
<1>1. Types /\ Kept /\ Finite
  BY <1>0, <1>a, RateLimiterAssumption, FS_EmptySet DEF Types, Kept, Finite
<1>2. Bounded /\ AtMostLimit
  <2>1. \A k \in Keys : buckets[k] = {} /\ \A t : SW!Within(k, t) = {}
    BY DEF Init, SW!Init, SW!Within
  <2>2. QED
    BY <2>1, FS_EmptySet, RateLimiterAssumption DEF Bounded, AtMostLimit
<1>3. QED
  BY <1>1, <1>2 DEF RInv

\* The subsets of a history, and one call more.
LEMMA Sizes ==
    ASSUME NEW S, IsFiniteSet(S), NEW T \in SUBSET S, NEW c
    PROVE  /\ IsFiniteSet(T) /\ Cardinality(T) \in Nat /\ Cardinality(T) <= Cardinality(S)
           /\ Cardinality(S) \in Nat
           /\ IsFiniteSet(S \cup {c}) /\ Cardinality(S \cup {c}) <= Cardinality(S) + 1
<1>1. /\ IsFiniteSet(T) /\ Cardinality(T) \in Nat /\ Cardinality(T) <= Cardinality(S)
      /\ Cardinality(S) \in Nat
  BY FS_Subset, FS_CardinalityType
<1>2. IsFiniteSet(S \cup {c}) /\ Cardinality(S \cup {c}) <= Cardinality(S) + 1
  <2>1. CASE c \in S
    <3>1. S \cup {c} = S
      BY <2>1
    <3>2. QED
      BY <1>1, <3>1
  <2>2. CASE c \notin S
    <3>1. IsFiniteSet(S \cup {c}) /\ Cardinality(S \cup {c}) = Cardinality(S) + 1
      BY <2>2, FS_AddElement
    <3>2. QED
      BY <1>1, <3>1
  <2>3. QED
    BY <2>1, <2>2
<1>3. QED
  BY <1>1, <1>2

\* No window holds more than the one that ends now, or one that ended before.
LEMMA AllowAtMost ==
    ASSUME RInv, NEW k \in Keys, Cardinality(Valid(k)) < Limit,
           log' = [log EXCEPT ![k] = @ \cup {Call}]
    PROVE  AtMostLimit'
<1> SUFFICES ASSUME NEW j \in Keys, NEW t \in 0..MaxTime
             PROVE  Cardinality(SW!Within(j, t)') <= Limit
  BY DEF AtMostLimit
<1>1. Cardinality(SW!Within(j, t)) <= Limit
  BY DEF RInv, AtMostLimit
<1>2. CASE j # k \/ t < now
  <2>1. SW!Within(j, t)' = SW!Within(j, t)
    BY <1>2, RateLimiterAssumption DEF RInv, Types, SW!Within, Call
  <2>2. QED
    BY <1>1, <2>1
<1>3. CASE j = k /\ t >= now
  <2> DEFINE W == Valid(k)
  <2>1. SW!Within(j, t)' \subseteq W \cup {Call}
    BY <1>3, RateLimiterAssumption DEF RInv, Types, Kept, SW!Within, Call, Valid, InWindow
  <2>2. IsFiniteSet(W)
    BY FS_Subset DEF RInv, Finite, Kept, Valid
  <2>3. /\ Cardinality(W) \in Nat /\ IsFiniteSet(W \cup {Call})
        /\ Cardinality(W \cup {Call}) <= Cardinality(W) + 1
    BY <2>2, Sizes
  <2>4. /\ Cardinality(SW!Within(j, t)') <= Cardinality(W \cup {Call})
        /\ Cardinality(SW!Within(j, t)') \in Nat /\ Cardinality(W \cup {Call}) \in Nat
    BY <2>1, <2>3, Sizes
  <2>5. QED
    BY <2>3, <2>4, RateLimiterAssumption
<1>4. QED
  BY <1>2, <1>3 DEF RInv, Types

LEMMA AllowRInv ==
    ASSUME RInv, NEW k \in Keys, Allow(k)
    PROVE  RInv'
<1>1. IsFiniteSet(Valid(k)) /\ Cardinality(Valid(k)) \in Nat /\ Cardinality(Valid(k)) <= Limit
  <2>1. Valid(k) \subseteq buckets[k] /\ IsFiniteSet(buckets[k])
    BY FS_Subset DEF RInv, Finite, Kept, Valid
  <2>2. /\ IsFiniteSet(Valid(k)) /\ Cardinality(Valid(k)) \in Nat
        /\ Cardinality(Valid(k)) <= Cardinality(buckets[k]) /\ Cardinality(buckets[k]) \in Nat
    BY <2>1, FS_Subset, FS_CardinalityType
  <2>3. QED
    BY <2>2, RateLimiterAssumption DEF RInv, Bounded
<1>2. CASE Accept(k)
  <2>1. /\ buckets' = [buckets EXCEPT ![k] = Valid(k) \cup {Call}]
        /\ log' = [log EXCEPT ![k] = @ \cup {Call}]
        /\ calls' = calls + 1 /\ now' = now
        /\ answer' \in [key : Keys, ok : BOOLEAN]
    BY <1>2 DEF Accept
  <2>2. Types'
    BY <2>1 DEF RInv, Types, Call
  <2>3. Kept'
    BY <2>1 DEF RInv, Types, Kept, Valid, InWindow
  <2>4. Finite'
    BY <2>1, Sizes DEF RInv, Types, Finite
  <2>5. Bounded'
    <3>1. Cardinality(Valid(k) \cup {Call}) <= Limit
      <4>1. Cardinality(Valid(k) \cup {Call}) <= Cardinality(Valid(k)) + 1
        BY <1>1, Sizes
      <4>2. Cardinality(Valid(k) \cup {Call}) \in Nat
        BY <1>1, Sizes, FS_CardinalityType
      <4>3. QED
        BY <1>1, <1>2, <4>1, <4>2, RateLimiterAssumption DEF Accept
    <3>2. QED
      BY <2>1, <3>1 DEF RInv, Types, Bounded
  <2>6. AtMostLimit'
    BY <1>2, <2>1, AllowAtMost DEF Accept
  <2>7. QED
    BY <2>2, <2>3, <2>4, <2>5, <2>6 DEF RInv
<1>3. CASE Refuse(k)
  <2>1. /\ buckets' = [buckets EXCEPT ![k] = Valid(k)]
        /\ UNCHANGED <<log, calls, now>>
        /\ answer' \in [key : Keys, ok : BOOLEAN]
    BY <1>3 DEF Refuse
  <2>2. Types'
    BY <2>1 DEF RInv, Types
  <2>3. Kept' /\ Finite'
    BY <2>1 DEF RInv, Types, Kept, Valid, InWindow, Finite
  <2>4. Bounded'
    BY <1>1, <2>1 DEF RInv, Types, Bounded
  <2>5. AtMostLimit'
    BY <2>1 DEF RInv, AtMostLimit, SW!Within
  <2>6. QED
    BY <2>2, <2>3, <2>4, <2>5 DEF RInv
<1>4. QED
  BY <1>2, <1>3 DEF Allow

LEMMA StepRInv == RInv /\ [Next]_vars => RInv'
<1> SUFFICES ASSUME RInv, [Next]_vars PROVE RInv'
  OBVIOUS
<1>1. CASE Tick
  <2>1. now' = now + 1 /\ now' \in 0..MaxTime /\ UNCHANGED <<buckets, log, calls, answer>>
    BY <1>1, RateLimiterAssumption DEF Tick, SW!Tick, RInv, Types
  <2>2. Types' /\ Kept'
    BY <2>1, RateLimiterAssumption DEF RInv, Types, Kept, InWindow
  <2>3. Finite' /\ Bounded' /\ AtMostLimit'
    BY <2>1 DEF RInv, Finite, Bounded, AtMostLimit, SW!Within
  <2>4. QED
    BY <2>2, <2>3 DEF RInv
<1>2. CASE PruneEmpty
  <2>1. /\ UNCHANGED <<now, log, calls, answer>>
        /\ buckets' = [k \in Keys |-> IF \E c \in buckets[k] : InWindow(c) THEN buckets[k] ELSE {}]
    BY <1>2 DEF PruneEmpty
  <2>2. Types' /\ Kept' /\ Finite'
    BY <2>1 DEF RInv, Types, Kept, Finite, InWindow
  <2>3. Bounded'
    BY <2>1, FS_EmptySet, RateLimiterAssumption DEF RInv, Bounded
  <2>4. AtMostLimit'
    BY <2>1 DEF RInv, AtMostLimit, SW!Within
  <2>5. QED
    BY <2>2, <2>3, <2>4 DEF RInv
<1>3. CASE UNCHANGED vars
  BY <1>3 DEF vars, RInv, Types, Kept, Finite, Bounded, AtMostLimit, SW!Within, InWindow
<1>4. QED
  BY <1>1, <1>2, <1>3, AllowRInv DEF Next

LEMMA RInvariance == Spec => []RInv
  BY InitRInv, StepRInv, PTL DEF Spec

\* The history and the buckets keep their types, and no bucket outgrows the limit
\* (RateLimiter.Allow).
THEOREM RateLimiterTypeCorrect == Spec => []TypeOK
<1>1. RInv => TypeOK
  <2> SUFFICES ASSUME RInv PROVE TypeOK
    OBVIOUS
  <2>1. \A k \in Keys : log[k] \in SUBSET [n : 0..calls, at : 0..now]
    BY RateLimiterAssumption DEF RInv, Types
  <2>2. log \in [Keys -> SUBSET [n : 0..calls, at : 0..now]]
    BY <2>1 DEF RInv, Types
  <2>3. QED
    BY <2>2 DEF RInv, Types, Kept, Bounded, TypeOK
<1>2. QED
  BY <1>1, RInvariance, PTL

\* Whatever the limit, the window and the keys: no window of time holds more than
\* Limit accepted calls of one key.
THEOREM RateLimiterAtMostLimit == Spec => []AtMostLimit
<1>1. RInv => AtMostLimit
  BY DEF RInv
<1>2. QED
  BY <1>1, RInvariance, PTL

\* Every step of the limiter that keeps only its buckets is a step of the limiter
\* that remembers every call.
THEOREM RateLimiterImplements == Spec => ImplementsSlidingWindow
<1>1. Init => SW!Init
  BY DEF Init
<1>2. RInv /\ [Next]_vars => [SW!Next]_SW!vars
  <2> SUFFICES ASSUME RInv, [Next]_vars PROVE [SW!Next]_SW!vars
    OBVIOUS
  <2>1. CASE Tick
    BY <2>1 DEF Tick, SW!Next
  <2>2. ASSUME NEW k \in Keys, Allow(k) PROVE SW!Next
    <3>1. Valid(k) = SW!Within(k, now)
      BY ValidIsWithin DEF RInv
    <3>2. CASE Accept(k)
      <4>1. SW!Accept(k)
        BY <3>1, <3>2 DEF Accept, SW!Accept, Call, SW!Cardinality, Cardinality
      <4>2. QED
        BY <4>1 DEF SW!Next
    <3>3. CASE Refuse(k)
      <4>1. SW!Refuse(k)
        BY <3>1, <3>3 DEF Refuse, SW!Refuse, SW!Cardinality, Cardinality
      <4>2. QED
        BY <4>1 DEF SW!Next
    <3>4. QED
      BY <2>2, <3>2, <3>3 DEF Allow
  <2>3. CASE PruneEmpty \/ UNCHANGED vars
    BY <2>3 DEF PruneEmpty, vars, SW!vars
  <2>4. QED
    BY <2>1, <2>2, <2>3 DEF Next
<1>3. QED
  BY <1>1, <1>2, RInvariance, PTL DEF Spec, ImplementsSlidingWindow, SW!Spec

=============================================================================
