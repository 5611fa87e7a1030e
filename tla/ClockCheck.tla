------------------------------ MODULE ClockCheck ------------------------------
(***************************************************************************)
(* CheckSystemClock (daemon/ca/clockcheck.go), run at start-up and every   *)
(* 30 minutes by daemon/main.go, and the CA operations it gates            *)
(* (daemon/handlers.go).                                                   *)
(*                                                                         *)
(* real is true time, clock the wall clock of the node; both in units of   *)
(* some minutes, so that a check, which takes seconds, sees no tick.  It   *)
(* may see the clock stepped, by an operator or a time service.  Time 0    *)
(* stands for no time: no answer, no file, or a file cut off.  A server or *)
(* bootstrap of Liars answers any time; the others true time, or nothing.  *)
(* The fields sound are history: whether a verdict rests on good sources   *)
(* and the clock has not been stepped since the check began.               *)
(***************************************************************************)
EXTENDS Integers, Sequences, FiniteSets

CONSTANTS
    Servers,     \* ntpServers
    Bootstraps,  \* bootstrapURLs, in order
    Liars,       \* servers and bootstraps with a wrong clock
    BuildTime,   \* 0: not set
    MaxDrift,    \* 5 min
    MaxBack,     \* 24 h
    MaxTime      \* bound of the model

ASSUME ClockAssumption ==
    /\ Len(Bootstraps) \in Nat /\ IsFiniteSet(Servers)
    /\ BuildTime \in Nat /\ MaxDrift \in Nat /\ MaxBack \in Nat /\ MaxTime \in Nat

VARIABLES
    real,       \* true time
    clock,      \* the wall clock
    online,     \* whether every honest source answers
    saved,      \* last_seen_time.json
    check,      \* CheckSystemClock: where it is, its now, the next bootstrap,
                \* its verdict so far, the time it is saving
    status,     \* node.clockStatus; its source is "none" during the first check
    op          \* a CA request: whether it passed the gate, and on which verdict

vars == <<real, clock, online, saved, check, status, op>>

Sources == {"none", "build", "persisted", "ntp", "bootstrap", "unverified"}

Verdict(src, block, sound) == [src |-> src, block |-> block, sound |-> sound]

NoVerdict == Verdict("none", FALSE, TRUE)

At(st, now, i, v, t) == [st |-> st, now |-> now, i |-> i, v |-> v, t |-> t]

Apart(a, b) == a > b + MaxDrift \/ b > a + MaxDrift

\* The build is as old as the tolerance.
Init ==
    /\ real = BuildTime + MaxDrift /\ clock \in 0..MaxTime
    /\ online \in BOOLEAN
    /\ saved = [t |-> 0, sound |-> TRUE]
    /\ check = At("idle", 0, 1, NoVerdict, 0)
    /\ status = NoVerdict
    /\ op = [passed |-> FALSE, v |-> NoVerdict]

(* ---------------------------- the environment ---------------------------- *)

Tick ==
    /\ check.st \in {"off", "idle"}
    /\ real < MaxTime /\ clock < MaxTime
    /\ real' = real + 1 /\ clock' = clock + 1
    /\ UNCHANGED <<online, saved, check, status, op>>

StepClock(c) ==
    /\ clock' = c
    /\ check' = [check EXCEPT !.v.sound = FALSE]
    /\ status' = [status EXCEPT !.sound = FALSE]
    /\ op' = [op EXCEPT !.v.sound = FALSE]
    /\ UNCHANGED <<real, online, saved>>

Network ==
    /\ online' = ~online
    /\ UNCHANGED <<real, clock, saved, check, status, op>>

(* --------------------------- CheckSystemClock ---------------------------- *)

\* Faulty variant of Report: only the first check counts.
ReportOnce(v) ==
    /\ status' = IF status.src = "none" THEN v ELSE status
    /\ check' = At("idle", 0, 1, NoVerdict, 0)

\* The verdict becomes node.clockStatus.
Report(v) ==
    /\ status' = v
    /\ check' = At("idle", 0, 1, NoVerdict, 0)

\* Steps A and B, which wait for nobody.
CheckLocal ==
    /\ check.st = "idle"
    /\ IF clock < BuildTime
         THEN Report(Verdict("build", TRUE, TRUE))
       ELSE IF saved.t > clock + MaxBack
         THEN Report(Verdict("persisted", TRUE, saved.sound))
       ELSE /\ check' = At("ntp", clock, 1, NoVerdict, 0)
            /\ UNCHANGED status
    /\ UNCHANGED <<real, clock, online, saved, op>>

\* Faulty variant of Judge: the clock is saved whatever the verdict.
JudgeSaves(src, t, good) ==
    LET v == Verdict(src, Apart(check.now, t), good /\ check.v.sound)
    IN  /\ check' = At("save", 0, 1, v, 0)
        /\ UNCHANGED status

\* A source says t; the clock of the check's start is compared with it.  Only a
\* clock that passes is saved, before the verdict is returned.
Judge(src, t, good) ==
    LET v == Verdict(src, Apart(check.now, t), good /\ check.v.sound)
    IN  IF v.block
          THEN Report(v)
          ELSE /\ check' = At("save", 0, 1, v, 0)
               /\ UNCHANGED status

\* What a source may answer now.
Says(s) ==
    IF s \in Liars THEN 0..MaxTime
    ELSE IF online THEN {real} ELSE {0, real}

Heard(answers) == {s \in Servers : answers[s] # 0}

\* Faulty variant of IsMedian: the earliest answer.
IsMedianFirst(answers, t) ==
    /\ \E s \in Heard(answers) : answers[s] = t
    /\ \A s \in Heard(answers) : t <= answers[s]

\* times[len(times)/2] of the sorted answers.
IsMedian(answers, t) ==
    LET k == Cardinality(Heard(answers)) \div 2
    IN  /\ Cardinality({s \in Heard(answers) : answers[s] < t}) <= k
        /\ Cardinality({s \in Heard(answers) : answers[s] <= t}) > k

HonestlyHeard(answers) == 2 * Cardinality(Heard(answers) \ Liars) > Cardinality(Heard(answers))

\* Step C.
AskNtp(answers) ==
    /\ check.st = "ntp"
    /\ \A s \in Servers : answers[s] \in Says(s)
    /\ \/ /\ Heard(answers) = {}
          /\ check' = [check EXCEPT !.st = "boot"]
          /\ UNCHANGED status
       \/ /\ Heard(answers) # {}
          /\ \E t \in 1..MaxTime : IsMedian(answers, t) /\ Judge("ntp", t, HonestlyHeard(answers))
    /\ UNCHANGED <<real, clock, online, saved, op>>

\* Faulty variant of AskBootstrap: the counter is advanced twice.
AskBootstrapSkips(t) ==
    /\ check.st = "boot" /\ check.i <= Len(Bootstraps)
    /\ t \in Says(Bootstraps[check.i])
    /\ IF t = 0
         THEN /\ check' = [check EXCEPT !.i = check.i + 2]
              /\ UNCHANGED status
         ELSE Judge("bootstrap", t, Bootstraps[check.i] \notin Liars)
    /\ UNCHANGED <<real, clock, online, saved, op>>

\* Step D: the first bootstrap with an answer, its signature not refused.
AskBootstrap(t) ==
    /\ check.st = "boot" /\ check.i <= Len(Bootstraps)
    /\ t \in Says(Bootstraps[check.i])
    /\ IF t = 0
         THEN /\ check' = [check EXCEPT !.i = check.i + 1]
              /\ UNCHANGED status
         ELSE Judge("bootstrap", t, Bootstraps[check.i] \notin Liars)
    /\ UNCHANGED <<real, clock, online, saved, op>>

Unverified ==
    /\ check.st = "boot" /\ check.i > Len(Bootstraps)
    /\ Report(Verdict("unverified", FALSE, check.v.sound))
    /\ UNCHANGED <<real, clock, online, saved, op>>

\* saveLastSeenTime reads the clock again and opens the file, which truncates
\* it, or cannot ...
SaveOpen ==
    /\ check.st = "save"
    /\ \/ /\ check' = At("write", 0, 1, check.v, clock)
          /\ saved' = [t |-> 0, sound |-> check.v.sound]
          /\ UNCHANGED status
       \/ /\ Report(check.v)
          /\ UNCHANGED saved
    /\ UNCHANGED <<real, clock, online, op>>

\* ... and writes it.
SaveWrite ==
    /\ check.st = "write"
    /\ saved' = [saved EXCEPT !.t = check.t]
    /\ Report(check.v)
    /\ UNCHANGED <<real, clock, online, op>>

(* ------------------------- around CheckSystemClock ----------------------- *)

\* Faulty variant of Gate: it forgets to look.
GateOpen ==
    /\ status.src # "none" /\ ~op.passed
    /\ op' = [passed |-> TRUE, v |-> status]
    /\ UNCHANGED <<real, clock, online, saved, check, status>>

\* /sign-intermediate, /enroll or /token-gen: the status is read under the lock.
Gate ==
    /\ status.src # "none" /\ ~op.passed
    /\ ~status.block
    /\ op' = [passed |-> TRUE, v |-> status]
    /\ UNCHANGED <<real, clock, online, saved, check, status>>

\* The certificate or token, dated by the clock of that moment.
Serve ==
    /\ op.passed
    /\ op' = [passed |-> FALSE, v |-> NoVerdict]
    /\ UNCHANGED <<real, clock, online, saved, check, status>>

Crash ==
    /\ check.st # "off"
    /\ check' = At("off", 0, 1, NoVerdict, 0)
    /\ status' = NoVerdict
    /\ op' = [passed |-> FALSE, v |-> NoVerdict]
    /\ UNCHANGED <<real, clock, online, saved>>

Boot ==
    /\ check.st = "off"
    /\ check' = At("idle", 0, 1, NoVerdict, 0)
    /\ UNCHANGED <<real, clock, online, saved, status, op>>

-----------------------------------------------------------------------------

CheckSystemClock ==
    \/ CheckLocal
    \/ \E answers \in [Servers -> 0..MaxTime] : AskNtp(answers)
    \/ \E t \in 0..MaxTime : AskBootstrap(t)
    \/ Unverified \/ SaveOpen \/ SaveWrite

Next ==
    \/ Tick \/ (\E c \in 0..MaxTime : StepClock(c)) \/ Network
    \/ CheckSystemClock
    \/ Gate \/ Serve \/ Crash \/ Boot

Spec == Init /\ [][Next]_vars

\* The ticker of main starts check after check, and each ends: its waits have
\* time-outs.
FairSpec == Spec /\ WF_vars(CheckSystemClock)

-----------------------------------------------------------------------------

VerdictType == [src : Sources, block : BOOLEAN, sound : BOOLEAN]

\* The types of the clocks, of the saved time, of the check and of the status.
TypeOK ==
    /\ real \in Nat /\ clock \in 0..MaxTime /\ online \in BOOLEAN
    /\ saved \in [t : 0..MaxTime, sound : BOOLEAN]
    /\ check \in [st : {"off", "idle", "ntp", "boot", "save", "write"}, now : 0..MaxTime,
                  i : 1..Len(Bootstraps) + 1, v : VerdictType, t : 0..MaxTime]
    /\ status \in VerdictType
    /\ op \in [passed : BOOLEAN, v : VerdictType]

\* What a verdict says of the clock of now.
Holds(v) ==
    /\ v.src \in {"ntp", "bootstrap"} => (v.block <=> Apart(clock, real))
    /\ v.src = "persisted" => v.block /\ clock + MaxBack < real + MaxDrift
    /\ v.src = "build" => v.block /\ clock < real
    /\ v.src = "unverified" => ~v.block

\* While the clock is not stepped, a status that rests on a majority of honest
\* answers, on an honest bootstrap or on a time saved after such a verdict is true
\* of the clock, until the next check and in the request that has read it: one lying
\* server of three answering can neither block CA operations nor let them through.
VerdictSound ==
    /\ status.sound => Holds(status)
    /\ op.passed /\ op.v.sound => Holds(op.v)

\* The time kept against regressions is never ahead of true time, beyond the
\* tolerance, unless dishonest sources vouched for it or the clock was stepped
\* between the check and the save: else it would block CA operations for as long as
\* it is ahead.
SavedSound == saved.sound => saved.t <= real + MaxDrift

\* A CA operation is dated by a wrong clock only if no source could be reached,
\* dishonest ones vouched for it, or the clock was stepped since the check.
ServedOnTime ==
    [][Serve /\ op.v.sound /\ op.v.src # "unverified" => ~Apart(clock, real)]_vars

HonestMajority == 2 * Cardinality(Servers \ Liars) > Cardinality(Servers)

\* Once the network is up, CA operations are blocked for good if the clock stays
\* wrong, and open for good if it stays right, however it was set before; except that
\* a time saved too far ahead keeps blocking them (step B precedes step C).
Settles ==
    HonestMajority =>
        /\ (<>[](online /\ check.st # "off" /\ Apart(clock, real))) => <>[](status.block)
        /\ (<>[](online /\ check.st # "off" /\ ~Apart(clock, real)))
              => <>[](~status.block) \/ []<>(saved.t > clock + MaxBack)

=============================================================================
