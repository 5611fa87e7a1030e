---------------------------- MODULE ConsentGate ----------------------------
(***************************************************************************)
(* What the Commons Review promises its users (ARCH_SPEC.md, Commons       *)
(* Review; daemon/handlers.go, /submit and /consent), without handlers,    *)
(* locks, clocks or queues.  A request keeps the class it was asked in,    *)
(* unless the user approves the upgrade that the system has offered; it is *)
(* served at most once, class 1 first.                                     *)
(***************************************************************************)
EXTENDS Naturals

CONSTANT Requests

VARIABLES
    standing,   \* how far each request has come
    grade,      \* its class: 0 before it is asked, then 1 or 2
    approved    \* the offered requests whose upgrade the user has approved

gateVars == <<standing, grade, approved>>

GateInit ==
    /\ standing = [r \in Requests |-> "none"]
    /\ grade = [r \in Requests |-> 0]
    /\ approved = {}

Move(r, from, to) ==
    /\ standing[r] = from
    /\ standing' = [standing EXCEPT ![r] = to]

Ask(r, k) ==
    /\ Move(r, "none", "asked")
    /\ grade' = [grade EXCEPT ![r] = k]
    /\ UNCHANGED approved

Offer(r) ==
    /\ Move(r, "asked", "offered")
    /\ grade[r] = 2
    /\ UNCHANGED <<grade, approved>>

Approve(r) ==
    /\ standing[r] = "offered"
    /\ approved' = approved \cup {r}
    /\ UNCHANGED <<standing, grade>>

\* Run as asked: never offered, declined by the user, or left unanswered.
Accept(r) ==
    /\ Move(r, "asked", "accepted") \/ Move(r, "offered", "accepted")
    /\ r \notin approved
    /\ UNCHANGED <<grade, approved>>

Upgrade(r) ==
    /\ r \in approved
    /\ Move(r, "offered", "accepted")
    /\ grade' = [grade EXCEPT ![r] = 1]
    /\ UNCHANGED approved

\* The user answers an offer that is no longer open, and is told so.
Lapse(r) ==
    /\ Move(r, "offered", "lapsed")
    /\ UNCHANGED <<grade, approved>>

Start(r) ==
    /\ \A q \in Requests : standing[q] # "serving"
    /\ \A q \in Requests : standing[q] = "accepted" => grade[r] <= grade[q]
    /\ Move(r, "accepted", "serving")
    /\ UNCHANGED <<grade, approved>>

Settle(r) ==
    /\ Move(r, "serving", "settled")
    /\ UNCHANGED <<grade, approved>>

GateNext ==
    \E r \in Requests :
        \/ \E k \in {1, 2} : Ask(r, k)
        \/ Offer(r) \/ Approve(r) \/ Accept(r) \/ Upgrade(r) \/ Lapse(r)
        \/ Start(r) \/ Settle(r)

GateSpec == GateInit /\ [][GateNext]_gateVars

=============================================================================
