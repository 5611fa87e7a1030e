------------------------------- MODULE CaProofs -------------------------------
(***************************************************************************)
(* The two parts of package daemon/ca that need no other: what             *)
(* CheckSystemClock and its gate promise, for any number of servers and    *)
(* bootstraps, honest or not, and any thresholds; and what PullCASync and  *)
(* the TrustStore promise, for any number of peers and certificates.       *)
(***************************************************************************)
EXTENDS ClockCheck, TrustStore, FiniteSetTheorems, TLAPS

CheckType == [st : {"off", "idle", "ntp", "boot", "save", "write"}, now : 0..MaxTime,
              i : 1..Len(Bootstraps) + 1, v : VerdictType, t : 0..MaxTime]

\* A check knows the clock until it is stepped; a verdict that waits for its save
\* is right; the time being written fits what last_seen_time.json promises.
CheckSound ==
    /\ check.st \in {"ntp", "boot"} /\ check.v.sound => check.now = clock
    /\ check.st \in {"save", "write"} =>
           /\ ~check.v.block
           /\ check.v.src \in {"ntp", "bootstrap"}
           /\ check.v.sound => Holds(check.v)
    /\ check.st = "write" /\ saved.sound => check.t <= real + MaxDrift

BuiltBefore == BuildTime <= real

PassedOpen == op.passed => ~op.v.block /\ op.v.src # "none"

IInv == TypeOK /\ VerdictSound /\ SavedSound /\ CheckSound /\ BuiltBefore /\ PassedOpen

-----------------------------------------------------------------------------

\* The median of answers most of which are honest is the true time.
LEMMA MedianHonest ==
    ASSUME NEW answers \in [Servers -> Nat], NEW t \in Nat, NEW r \in Nat,
           IsMedian(answers, t), HonestlyHeard(answers),
           \A s \in Heard(answers) \ Liars : answers[s] = r
    PROVE  t = r
<1> DEFINE H == Heard(answers)
           G == H \ Liars
           Before == {s \in H : answers[s] < t}
           UpTo == {s \in H : answers[s] <= t}
<1>1. IsFiniteSet(H) /\ IsFiniteSet(G) /\ G \subseteq H /\ UpTo \subseteq H
  <2>1. H \subseteq Servers
    BY DEF Heard
  <2>2. QED
    BY <2>1, FS_Subset, ClockAssumption
<1>2. Cardinality(H) \in Nat /\ Cardinality(G) \in Nat
  BY <1>1, FS_CardinalityType
<1>3. IsFiniteSet(Before) /\ Cardinality(Before) \in Nat /\ IsFiniteSet(UpTo) /\ Cardinality(UpTo) \in Nat
  BY <1>1, FS_Subset, FS_CardinalityType
<1>4. 2 * Cardinality(G) > Cardinality(H)
  BY DEF HonestlyHeard
<1>5. Cardinality(Before) <= Cardinality(H) \div 2 /\ Cardinality(UpTo) > Cardinality(H) \div 2
  BY DEF IsMedian
<1>6. ~(r < t)
  <2>1. SUFFICES ASSUME r < t PROVE FALSE
    OBVIOUS
  <2>2. G \subseteq Before
    BY <2>1
  <2>3. Cardinality(G) <= Cardinality(Before)
    BY <1>3, <2>2, FS_Subset
  <2> HIDE DEF H, G, Before, UpTo
  <2>4. QED
    BY <1>2, <1>3, <1>4, <1>5, <2>3
<1>7. ~(t < r)
  <2>1. SUFFICES ASSUME t < r PROVE FALSE
    OBVIOUS
  <2>2. UpTo \subseteq H \ G
    BY <2>1
  <2>3. H \cap G = G
    BY <1>1
  <2>4. IsFiniteSet(H \ G) /\ Cardinality(H \ G) = Cardinality(H) - Cardinality(G)
    BY <1>1, <2>3, FS_Difference
  <2>5. Cardinality(UpTo) <= Cardinality(H \ G)
    BY <2>2, <2>4, FS_Subset
  <2> HIDE DEF H, G, Before, UpTo
  <2>6. QED
    BY <1>2, <1>3, <1>4, <1>5, <2>4, <2>5
<1>8. QED
  BY <1>6, <1>7

LEMMA VerdictFields ==
    ASSUME NEW src \in Sources, NEW block \in BOOLEAN, NEW sound \in BOOLEAN
    PROVE  /\ Verdict(src, block, sound) \in VerdictType
           /\ Verdict(src, block, sound).src = src
           /\ Verdict(src, block, sound).block = block
           /\ Verdict(src, block, sound).sound = sound
  BY DEF Verdict, VerdictType

LEMMA NoVerdictFields ==
    NoVerdict \in VerdictType /\ NoVerdict.src = "none" /\ Holds(NoVerdict)
  BY VerdictFields DEF NoVerdict, Sources, Holds, Verdict

LEMMA AtFields ==
    ASSUME NEW st \in {"off", "idle", "ntp", "boot", "save", "write"}, NEW now \in 0..MaxTime,
           NEW i \in 1..Len(Bootstraps) + 1, NEW v \in VerdictType, NEW t \in 0..MaxTime
    PROVE  /\ At(st, now, i, v, t) \in CheckType
           /\ At(st, now, i, v, t).st = st
           /\ At(st, now, i, v, t).now = now
           /\ At(st, now, i, v, t).v = v
           /\ At(st, now, i, v, t).t = t
  BY DEF At, CheckType

\* At rest: between checks, or down.
LEMMA RestFields ==
    ASSUME NEW st \in {"off", "idle"}
    PROVE  At(st, 0, 1, NoVerdict, 0) \in CheckType /\ At(st, 0, 1, NoVerdict, 0).st = st
<1>1. 0 \in 0..MaxTime /\ 1 \in 1..Len(Bootstraps) + 1
  BY ClockAssumption
<1>2. QED
  BY <1>1, NoVerdictFields, AtFields

-----------------------------------------------------------------------------

LEMMA InitIInv == Init => IInv
<1> SUFFICES ASSUME Init PROVE IInv
  OBVIOUS
<1>1. check \in CheckType /\ check.st = "idle"
  BY RestFields DEF Init
<1>2. TypeOK
  BY <1>1, NoVerdictFields, ClockAssumption DEF Init, TypeOK, CheckType
<1>3. QED
  BY <1>1, <1>2, NoVerdictFields, ClockAssumption DEF Init, IInv, VerdictSound, SavedSound, CheckSound, BuiltBefore, PassedOpen

\* The clock runs as true time does: no verdict is touched by a tick.
LEMMA TickInv == IInv /\ Tick => IInv'
<1> SUFFICES ASSUME IInv, Tick PROVE IInv'
  OBVIOUS
<1> USE DEF IInv
<1>1. real \in Nat /\ clock \in 0..MaxTime /\ real' = real + 1 /\ clock' = clock + 1 /\ clock' \in 0..MaxTime
  BY ClockAssumption DEF TypeOK, Tick
<1>2. TypeOK'
  BY <1>1 DEF TypeOK, Tick
<1>3. ASSUME NEW v, Holds(v) PROVE Holds(v)'
  BY <1>1, <1>3, ClockAssumption DEF Holds, Apart
<1>4. VerdictSound'
  BY <1>3 DEF VerdictSound, Tick
<1>5. SavedSound'
  <2>1. saved.t \in Nat
    BY DEF TypeOK
  <2>2. QED
    BY <1>1, <2>1, ClockAssumption DEF SavedSound, Tick
<1>6. CheckSound'
  BY DEF CheckSound, Tick
<1>7. BuiltBefore' /\ PassedOpen'
  BY <1>1, ClockAssumption DEF BuiltBefore, PassedOpen, Tick
<1>8. QED
  BY <1>2, <1>4, <1>5, <1>6, <1>7

LEMMA StepClockInv == ASSUME IInv, NEW c \in 0..MaxTime, StepClock(c) PROVE IInv'
<1> USE DEF IInv
<1>1. check' \in CheckType /\ check'.st = check.st /\ ~check'.v.sound
      /\ check'.v.block = check.v.block /\ check'.v.src = check.v.src /\ check'.t = check.t
  BY DEF TypeOK, StepClock, CheckType, VerdictType
<1>2. status' \in VerdictType /\ ~status'.sound
  BY DEF TypeOK, StepClock, VerdictType
<1>3. op' \in [passed : BOOLEAN, v : VerdictType] /\ ~op'.v.sound
      /\ op'.passed = op.passed /\ op'.v.block = op.v.block /\ op'.v.src = op.v.src
  BY DEF TypeOK, StepClock, VerdictType
<1>4. TypeOK'
  BY <1>1, <1>2, <1>3 DEF TypeOK, StepClock, CheckType
<1>5. VerdictSound' /\ SavedSound' /\ CheckSound' /\ BuiltBefore' /\ PassedOpen'
  BY <1>1, <1>2, <1>3 DEF VerdictSound, SavedSound, CheckSound, BuiltBefore, PassedOpen, StepClock
<1>6. QED
  BY <1>4, <1>5

\* The end of a check, with a verdict that is right if it claims to be.
LEMMA ReportInv ==
    ASSUME IInv, NEW v \in VerdictType, v.sound => Holds(v), Report(v),
           UNCHANGED <<real, clock, online, op>>,
           saved' \in [t : 0..MaxTime, sound : BOOLEAN], SavedSound'
    PROVE  IInv'
<1> USE DEF IInv
<1>1. check' \in CheckType /\ check'.st = "idle"
  BY RestFields DEF Report
<1>2. status' = v
  BY DEF Report
<1>3. TypeOK'
  BY <1>1, <1>2 DEF TypeOK, CheckType
<1>4. VerdictSound'
  BY <1>2 DEF VerdictSound, Holds, Apart
<1>5. CheckSound' /\ BuiltBefore' /\ PassedOpen'
  BY <1>1 DEF CheckSound, BuiltBefore, PassedOpen
<1>6. QED
  BY <1>3, <1>4, <1>5

LEMMA CheckLocalInv == IInv /\ CheckLocal => IInv'
<1> SUFFICES ASSUME IInv, CheckLocal PROVE IInv'
  OBVIOUS
<1> USE DEF IInv
<1>1. UNCHANGED <<real, clock, online, saved, op>>
  BY DEF CheckLocal
<1>2. saved' \in [t : 0..MaxTime, sound : BOOLEAN] /\ SavedSound'
  BY <1>1 DEF TypeOK, SavedSound
<1>3. real \in Nat /\ clock \in 0..MaxTime /\ clock \in Nat /\ saved.t \in Nat /\ saved.sound \in BOOLEAN
  BY DEF TypeOK
<1>4. CASE clock < BuildTime
  <2> DEFINE v == Verdict("build", TRUE, TRUE)
  <2>1. v \in VerdictType /\ v.src = "build" /\ v.block
    BY VerdictFields DEF Sources
  <2>2. Report(v)
    BY <1>4 DEF CheckLocal
  <2> HIDE DEF v
  <2>3. clock < real
    BY <1>3, <1>4, ClockAssumption DEF BuiltBefore
  <2>4. Holds(v)
    BY <2>1, <2>3 DEF Holds
  <2>5. QED
    BY <1>1, <1>2, <2>1, <2>2, <2>4, ReportInv
<1>5. CASE ~(clock < BuildTime) /\ saved.t > clock + MaxBack
  <2> DEFINE v == Verdict("persisted", TRUE, saved.sound)
  <2>1. v \in VerdictType /\ v.src = "persisted" /\ v.block /\ v.sound = saved.sound
    BY <1>3, VerdictFields DEF Sources
  <2>2. saved.sound => clock + MaxBack < real + MaxDrift
    BY <1>3, <1>5, ClockAssumption DEF SavedSound
  <2>3. v.sound => Holds(v)
    BY <2>1, <2>2 DEF Holds
  <2>4. Report(v)
    BY <1>5 DEF CheckLocal
  <2> HIDE DEF v
  <2>5. QED
    BY <1>1, <1>2, <2>1, <2>3, <2>4, ReportInv
<1>6. CASE ~(clock < BuildTime) /\ ~(saved.t > clock + MaxBack)
  <2>1. check' = At("ntp", clock, 1, NoVerdict, 0) /\ UNCHANGED status
    BY <1>6 DEF CheckLocal
  <2>2. 0 \in 0..MaxTime /\ 1 \in 1..Len(Bootstraps) + 1
    BY ClockAssumption
  <2>3. check' \in CheckType /\ check'.st = "ntp" /\ check'.now = clock
    BY <1>3, <2>1, <2>2, NoVerdictFields, AtFields
  <2>4. TypeOK'
    BY <1>1, <2>1, <2>3 DEF TypeOK, CheckType
  <2>5. VerdictSound' /\ CheckSound' /\ BuiltBefore' /\ PassedOpen'
    BY <1>1, <2>1, <2>3 DEF VerdictSound, CheckSound, BuiltBefore, PassedOpen, Holds, Apart
  <2>6. QED
    BY <1>2, <2>4, <2>5
<1>7. QED
  BY <1>4, <1>5, <1>6

\* A source that is true, if it is taken for good, judges the clock rightly.
LEMMA JudgeInv ==
    ASSUME IInv, check.st \in {"ntp", "boot"},
           NEW src \in {"ntp", "bootstrap"}, NEW t \in Nat, NEW good \in BOOLEAN,
           good => t = real, Judge(src, t, good),
           UNCHANGED <<real, clock, online, saved, op>>
    PROVE  IInv'
<1> USE DEF IInv
<1> DEFINE v == Verdict(src, Apart(check.now, t), good /\ check.v.sound)
<1>1. check \in CheckType /\ check.v.sound \in BOOLEAN /\ saved' = saved
  BY DEF TypeOK, CheckType, VerdictType
<1>2. /\ v \in VerdictType /\ v.src = src
      /\ v.block = Apart(check.now, t) /\ v.sound = (good /\ check.v.sound)
  <2>1. Apart(check.now, t) \in BOOLEAN /\ (good /\ check.v.sound) \in BOOLEAN /\ src \in Sources
    BY DEF Apart, Sources
  <2>2. QED
    BY <2>1, VerdictFields
<1>3. v.sound => Holds(v)
  <2>1. SUFFICES ASSUME v.sound PROVE Holds(v)
    OBVIOUS
  <2>2. check.now = clock /\ t = real
    BY <1>1, <1>2, <2>1 DEF CheckSound
  <2>3. v.block = Apart(clock, real)
    BY <1>2, <2>2
  <2> HIDE DEF v
  <2>4. QED
    BY <1>2, <2>3 DEF Holds, Apart
<1>4. SavedSound' /\ saved' \in [t : 0..MaxTime, sound : BOOLEAN]
  BY DEF TypeOK, SavedSound
<1>5. (v.block /\ Report(v)) \/ (~v.block /\ check' = At("save", 0, 1, v, 0) /\ UNCHANGED status)
  BY DEF Judge
<1> HIDE DEF v
<1>6. CASE v.block /\ Report(v)
  BY <1>2, <1>3, <1>4, <1>6, ReportInv
<1>7. CASE ~v.block /\ check' = At("save", 0, 1, v, 0) /\ UNCHANGED status
  <2>1. 0 \in 0..MaxTime /\ 1 \in 1..Len(Bootstraps) + 1
    BY <1>1, ClockAssumption DEF CheckType
  <2>2. check' \in CheckType /\ check'.st = "save" /\ check'.v = v
    BY <1>2, <1>7, <2>1, AtFields
  <2>3. TypeOK'
    BY <1>7, <2>2 DEF TypeOK, CheckType
  <2>4. VerdictSound' /\ BuiltBefore' /\ PassedOpen'
    BY <1>7 DEF VerdictSound, BuiltBefore, PassedOpen, Holds, Apart
  <2>5. CheckSound'
    BY <1>2, <1>3, <1>7, <2>2 DEF CheckSound, Holds, Apart
  <2>6. QED
    BY <1>4, <2>3, <2>4, <2>5
<1>8. QED
  BY <1>5, <1>6, <1>7

\* A check that goes on to its next source.
LEMMA GoOnInv ==
    ASSUME IInv, check.st \in {"ntp", "boot"}, check' \in CheckType,
           check'.st = "boot", check'.now = check.now, check'.v = check.v,
           UNCHANGED <<real, clock, online, saved, status, op>>
    PROVE  IInv'
<1> USE DEF IInv
<1>1. TypeOK'
  BY DEF TypeOK, CheckType
<1>2. VerdictSound' /\ SavedSound' /\ BuiltBefore' /\ PassedOpen'
  BY DEF VerdictSound, SavedSound, BuiltBefore, PassedOpen, Holds, Apart
<1>3. CheckSound'
  BY DEF CheckSound
<1>4. QED
  BY <1>1, <1>2, <1>3

LEMMA AskNtpInv == ASSUME IInv, NEW answers \in [Servers -> 0..MaxTime], AskNtp(answers) PROVE IInv'
<1> USE DEF IInv
<1>1. check \in CheckType /\ real \in Nat
  BY DEF TypeOK, CheckType
<1>2. check.st = "ntp" /\ UNCHANGED <<real, clock, online, saved, op>>
  BY DEF AskNtp
<1>3. CASE Heard(answers) = {} /\ check' = [check EXCEPT !.st = "boot"] /\ UNCHANGED status
  <2>1. check' \in CheckType /\ check'.st = "boot" /\ check'.now = check.now /\ check'.v = check.v
    BY <1>1, <1>3 DEF CheckType
  <2>2. QED
    BY <1>2, <1>3, <2>1, GoOnInv
<1>4. CASE \E t \in 1..MaxTime : IsMedian(answers, t) /\ Judge("ntp", t, HonestlyHeard(answers))
  <2>1. PICK t \in 1..MaxTime : IsMedian(answers, t) /\ Judge("ntp", t, HonestlyHeard(answers))
    BY <1>4
  <2>2. \A s \in Heard(answers) \ Liars : answers[s] = real
    BY DEF AskNtp, Heard, Says
  <2>3. HonestlyHeard(answers) => t = real
    BY <1>1, <2>1, <2>2, MedianHonest, ClockAssumption
  <2>4. t \in Nat /\ HonestlyHeard(answers) \in BOOLEAN
    BY DEF HonestlyHeard
  <2>5. QED
    BY <1>2, <2>1, <2>3, <2>4, JudgeInv
<1>5. QED
  BY <1>3, <1>4 DEF AskNtp

LEMMA AskBootstrapInv == ASSUME IInv, NEW t \in 0..MaxTime, AskBootstrap(t) PROVE IInv'
<1> USE DEF IInv
<1>1. check \in CheckType
  BY DEF TypeOK, CheckType
<1>2. check.st = "boot" /\ check.i <= Len(Bootstraps) /\ UNCHANGED <<real, clock, online, saved, op>>
  BY DEF AskBootstrap
<1>3. CASE t = 0
  <2>1. check' = [check EXCEPT !.i = check.i + 1] /\ UNCHANGED status
    BY <1>3 DEF AskBootstrap
  <2>2. check.i \in 1..Len(Bootstraps) + 1
    BY <1>1 DEF CheckType
  <2>3. check.i + 1 \in 1..Len(Bootstraps) + 1
    BY <1>2, <2>2, ClockAssumption
  <2>4. check' \in CheckType /\ check'.st = "boot" /\ check'.now = check.now /\ check'.v = check.v
    BY <1>1, <1>2, <2>1, <2>3 DEF CheckType
  <2>5. QED
    BY <1>2, <2>1, <2>4, GoOnInv
<1>4. CASE t # 0
  <2>1. Judge("bootstrap", t, Bootstraps[check.i] \notin Liars)
    BY <1>4 DEF AskBootstrap
  <2>2. Bootstraps[check.i] \notin Liars => t = real
    BY <1>4 DEF AskBootstrap, Says
  <2>3. t \in Nat
    BY ClockAssumption
  <2>4. QED
    BY <1>2, <2>1, <2>2, <2>3, JudgeInv
<1>5. QED
  BY <1>3, <1>4

LEMMA UnverifiedInv == IInv /\ Unverified => IInv'
<1> SUFFICES ASSUME IInv, Unverified PROVE IInv'
  OBVIOUS
<1> USE DEF IInv
<1> DEFINE v == Verdict("unverified", FALSE, check.v.sound)
<1>1. UNCHANGED <<real, clock, online, saved, op>> /\ Report(v)
  BY DEF Unverified
<1>2. saved' \in [t : 0..MaxTime, sound : BOOLEAN] /\ SavedSound'
  BY <1>1 DEF TypeOK, SavedSound
<1>3. v \in VerdictType /\ v.src = "unverified" /\ ~v.block
  <2>1. check.v.sound \in BOOLEAN
    BY DEF TypeOK, VerdictType
  <2>2. QED
    BY <2>1, VerdictFields DEF Sources
<1> HIDE DEF v
<1>4. Holds(v)
  BY <1>3 DEF Holds
<1>5. QED
  BY <1>1, <1>2, <1>3, <1>4, ReportInv

LEMMA SaveOpenInv == IInv /\ SaveOpen => IInv'
<1> SUFFICES ASSUME IInv, SaveOpen PROVE IInv'
  OBVIOUS
<1> USE DEF IInv
<1>1. /\ check \in CheckType /\ check.st = "save" /\ check.v \in VerdictType /\ check.v.sound \in BOOLEAN
      /\ UNCHANGED <<real, clock, online, op>>
      /\ clock \in 0..MaxTime /\ clock \in Nat /\ real \in Nat
  BY DEF TypeOK, SaveOpen, CheckType, VerdictType
<1>2. check.v.sound => clock <= real + MaxDrift
  <2>1. ~check.v.block /\ (check.v.sound => (check.v.block <=> Apart(clock, real)))
    BY <1>1 DEF CheckSound, Holds
  <2>2. QED
    BY <1>1, <2>1, ClockAssumption DEF Apart
<1>3. CASE /\ check' = At("write", 0, 1, check.v, clock)
           /\ saved' = [t |-> 0, sound |-> check.v.sound]
           /\ UNCHANGED status
  <2>1. 0 \in 0..MaxTime /\ 1 \in 1..Len(Bootstraps) + 1
    BY <1>1, ClockAssumption
  <2>2. check' \in CheckType /\ check'.st = "write" /\ check'.v = check.v /\ check'.t = clock
    BY <1>1, <1>3, <2>1, AtFields
  <2>3. TypeOK'
    BY <1>1, <1>3, <2>1, <2>2 DEF TypeOK, CheckType
  <2>4. SavedSound' /\ VerdictSound' /\ BuiltBefore' /\ PassedOpen'
    BY <1>1, <1>3, ClockAssumption DEF SavedSound, VerdictSound, BuiltBefore, PassedOpen, Holds, Apart
  <2>5. CheckSound'
    BY <1>1, <1>2, <1>3, <2>2 DEF CheckSound, Holds, Apart
  <2>6. QED
    BY <2>3, <2>4, <2>5
<1>4. CASE Report(check.v) /\ UNCHANGED saved
  <2>1. saved' \in [t : 0..MaxTime, sound : BOOLEAN] /\ SavedSound'
    BY <1>1, <1>4 DEF TypeOK, SavedSound
  <2>2. check.v.sound => Holds(check.v)
    BY <1>1 DEF CheckSound
  <2>3. QED
    BY <1>1, <1>4, <2>1, <2>2, ReportInv
<1>5. QED
  BY <1>3, <1>4 DEF SaveOpen

LEMMA SaveWriteInv == IInv /\ SaveWrite => IInv'
<1> SUFFICES ASSUME IInv, SaveWrite PROVE IInv'
  OBVIOUS
<1> USE DEF IInv
<1>1. /\ check.st = "write" /\ check.v \in VerdictType /\ check.t \in 0..MaxTime
      /\ UNCHANGED <<real, clock, online, op>> /\ Report(check.v)
      /\ saved \in [t : 0..MaxTime, sound : BOOLEAN]
      /\ saved' = [saved EXCEPT !.t = check.t]
  BY DEF TypeOK, SaveWrite
<1>2. saved' \in [t : 0..MaxTime, sound : BOOLEAN] /\ saved'.t = check.t /\ saved'.sound = saved.sound
  BY <1>1
<1>3. SavedSound'
  BY <1>1, <1>2 DEF SavedSound, CheckSound
<1>4. check.v.sound => Holds(check.v)
  BY <1>1 DEF CheckSound
<1>5. QED
  BY <1>1, <1>2, <1>3, <1>4, ReportInv

\* The steps around a check: none of them makes a verdict of its own.
LEMMA OtherInv == IInv /\ (Network \/ Gate \/ Serve \/ Crash \/ Boot \/ UNCHANGED vars) => IInv'
<1> SUFFICES ASSUME IInv, Network \/ Gate \/ Serve \/ Crash \/ Boot \/ UNCHANGED vars PROVE IInv'
  OBVIOUS
<1> USE DEF IInv
<1>1. UNCHANGED <<real, clock, saved>> /\ online' \in BOOLEAN
  BY DEF TypeOK, Network, Gate, Serve, Crash, Boot, vars
<1>2. check' = check \/ (check' \in CheckType /\ check'.st \in {"off", "idle"})
  BY RestFields DEF Network, Gate, Serve, Crash, Boot, vars
<1>3. status' \in {status, NoVerdict}
  BY DEF Network, Gate, Serve, Crash, Boot, vars
<1>4. \/ op' = op
      \/ op' = [passed |-> TRUE, v |-> status] /\ ~status.block /\ status.src # "none"
      \/ op' = [passed |-> FALSE, v |-> NoVerdict]
  BY DEF Network, Gate, Serve, Crash, Boot, vars
<1>5. TypeOK'
  <2>1. check' \in CheckType
    BY <1>2 DEF TypeOK, CheckType
  <2>2. status' \in VerdictType
    BY <1>3, NoVerdictFields DEF TypeOK
  <2>3. op' \in [passed : BOOLEAN, v : VerdictType]
    <3>1. op \in [passed : BOOLEAN, v : VerdictType] /\ status \in VerdictType /\ NoVerdict \in VerdictType
      BY NoVerdictFields DEF TypeOK
    <3>2. \A v \in VerdictType, b \in BOOLEAN : [passed |-> b, v |-> v] \in [passed : BOOLEAN, v : VerdictType]
      OBVIOUS
    <3>3. QED
      BY <1>4, <3>1, <3>2, Zenon
  <2>4. QED
    BY <1>1, <2>1, <2>2, <2>3 DEF TypeOK, CheckType
<1>6. VerdictSound'
  <2>1. \A v : Holds(v)' <=> Holds(v)
    BY <1>1 DEF Holds, Apart
  <2>2. status'.sound => Holds(status')
    BY <1>3, NoVerdictFields DEF VerdictSound
  <2>3. op'.passed /\ op'.v.sound => Holds(op'.v)
    BY <1>4 DEF VerdictSound
  <2>4. QED
    BY <1>1, <2>2, <2>3 DEF VerdictSound, Holds, Apart
<1>7. SavedSound' /\ BuiltBefore' /\ PassedOpen'
  BY <1>1, <1>4 DEF SavedSound, BuiltBefore, PassedOpen
<1>8. CheckSound'
  BY <1>1, <1>2 DEF CheckSound, Holds, Apart
<1>9. QED
  BY <1>5, <1>6, <1>7, <1>8

LEMMA NextIInv == IInv /\ [Next]_vars => IInv'
<1> SUFFICES ASSUME IInv, [Next]_vars PROVE IInv'
  OBVIOUS
<1>1. CASE Tick
  BY <1>1, TickInv
<1>2. ASSUME NEW c \in 0..MaxTime, StepClock(c) PROVE IInv'
  BY <1>2, StepClockInv
<1>3. CASE CheckLocal
  BY <1>3, CheckLocalInv
<1>4. ASSUME NEW answers \in [Servers -> 0..MaxTime], AskNtp(answers) PROVE IInv'
  BY <1>4, AskNtpInv
<1>5. ASSUME NEW t \in 0..MaxTime, AskBootstrap(t) PROVE IInv'
  BY <1>5, AskBootstrapInv
<1>6. CASE Unverified
  BY <1>6, UnverifiedInv
<1>7. CASE SaveOpen
  BY <1>7, SaveOpenInv
<1>8. CASE SaveWrite
  BY <1>8, SaveWriteInv
<1>9. CASE Network \/ Gate \/ Serve \/ Crash \/ Boot \/ UNCHANGED vars
  BY <1>9, OtherInv
<1>10. QED
  BY <1>1, <1>2, <1>3, <1>4, <1>5, <1>6, <1>7, <1>8, <1>9 DEF Next, CheckSystemClock

LEMMA SpecIInv == Spec => []IInv
  BY InitIInv, NextIInv, PTL DEF Spec

-----------------------------------------------------------------------------

\* The clocks, the file, the check and the request keep their types.
THEOREM ClockTypeCorrect == Spec => []TypeOK
<1>1. IInv => TypeOK
  BY DEF IInv
<1>2. QED
  BY SpecIInv, <1>1, PTL

\* For any number of servers and thresholds: a status that rests on a majority of
\* honest answers, an honest bootstrap or a soundly saved time is true of the clock
\* as long as the clock is not stepped.
THEOREM ClockVerdictSound == Spec => []VerdictSound
<1>1. IInv => VerdictSound
  BY DEF IInv
<1>2. QED
  BY SpecIInv, <1>1, PTL

\* The regression guard never keeps a time from the future but by a dishonest
\* source, or by a clock stepped between the check and the save.
THEOREM ClockSavedSound == Spec => []SavedSound
<1>1. IInv => SavedSound
  BY DEF IInv
<1>2. QED
  BY SpecIInv, <1>1, PTL

\* No CA operation that passed the gate on a verified verdict is dated by a wrong
\* clock, however late it is served, unless the clock was stepped.
THEOREM ClockServedOnTime == Spec => ServedOnTime
<1>1. IInv /\ [Next]_vars
        => [Serve /\ op.v.sound /\ op.v.src # "unverified" => ~Apart(clock, real)]_vars
  <2>1. SUFFICES ASSUME IInv, Serve, op.v.sound, op.v.src # "unverified" PROVE ~Apart(clock, real)
    OBVIOUS
  <2>2. op.passed /\ ~op.v.block /\ op.v.src # "none" /\ Holds(op.v)
    BY <2>1 DEF Serve, IInv, VerdictSound, PassedOpen
  <2>3. op.v.src \in Sources
    BY <2>1 DEF IInv, TypeOK, VerdictType
  <2>4. QED
    BY <2>1, <2>2, <2>3 DEF Holds, Sources
<1>2. QED
  BY SpecIInv, <1>1, PTL DEF Spec, ServedOnTime

-----------------------------------------------------------------------------
(* The trust store *)

Pullings ==
    [at : {"idle", "get", "root", "root open", "root write",
           "int", "int check", "int open", "int write"},
     root : Roots \cup {None}, int : Ints \cup {None}]

\* A store without its map of CNs has accepted nobody; a node that is down has no
\* goroutines; a pull that is past its look at intermediate.crt has one to store.
Grounded ==
    /\ store.ints # {} => store.mapped
    /\ ~up => trust = NoTrust /\ pull = [p \in Peers |-> NoPull]
    /\ \A p \in Peers :
           pull[p].at \in {"int check", "int open", "int write"} => pull[p].int \in Ints

\* As long as no file has been opened twice: a file being written is torn and has one
\* writer; an intermediate that is being stored, is stored, or has been loaded has
\* the root beside it as its signer.
Chained ==
    /\ \A p \in Peers :
           /\ pull[p].at = "root write" =>
                  rootCrt = Torn /\ \A q \in Peers : pull[q].at = "root write" => q = p
           /\ pull[p].at = "int write" =>
                  intCrt = Torn /\ \A q \in Peers : pull[q].at = "int write" => q = p
           /\ pull[p].at \in {"int open", "int write"} => rootCrt = SignedBy[pull[p].int]
    /\ intCrt \in Ints => rootCrt = SignedBy[intCrt]
    /\ \A i \in store.ints : (imported # Torn /\ i \in imported) \/ store.root = SignedBy[i]

StoreIInv == StoreTypeOK /\ Grounded /\ (~raced => Chained) /\ CnsSaved

\* What the assumption says of the contents of the files.
LEMMA Contents ==
    /\ None # Torn /\ None # Mixed /\ Torn # Mixed
    /\ None \notin Roots \cup Ints /\ Torn \notin Roots \cup Ints /\ Mixed \notin Roots \cup Ints
    /\ Torn \notin SUBSET Peers /\ Torn \notin SUBSET Ints
    /\ \A i \in Ints : SignedBy[i] \in Roots
BY StoreAssumption

\* A store that is loaded is typed, and its intermediates are imported ones or the
\* one on disk.
LEMMA Loaded ==
    ASSUME rootCrt \in Roots \cup {None, Torn, Mixed}, imported \in (SUBSET Ints) \cup {Torn},
           cnsFile \in (SUBSET Peers) \cup {Torn}
    PROVE  /\ LoadTrustStore \in [root : Roots \cup {None}, ints : SUBSET Ints,
                                  mapped : BOOLEAN, cns : SUBSET Peers]
           /\ LoadTrustStore.ints # {} => LoadTrustStore.mapped
           /\ LoadTrustStore.mapped => LoadTrustStore.cns = LoadTrustedCNs
           /\ \A i \in LoadTrustStore.ints :
                  \/ imported # Torn /\ i \in imported
                  \/ i = intCrt /\ LoadTrustStore.root = rootCrt
<1>1. CASE rootCrt \in {Torn, Mixed}
  BY <1>1 DEF LoadTrustStore, NoStore
<1>2. CASE rootCrt \notin {Torn, Mixed} /\ imported = Torn
  BY <1>2 DEF LoadTrustStore, NoStore
<1>3. CASE rootCrt \notin {Torn, Mixed} /\ imported # Torn
  <2>1. LoadTrustedCNs \in SUBSET Peers
    BY DEF LoadTrustedCNs
  <2>2. imported \cup ({intCrt} \cap Ints) \in SUBSET Ints
    BY <1>3
  <2>3. LoadTrustStore = [root |-> rootCrt, ints |-> imported \cup ({intCrt} \cap Ints),
                          mapped |-> TRUE, cns |-> LoadTrustedCNs]
    BY <1>3 DEF LoadTrustStore
  <2>4. QED
    BY <1>3, <2>1, <2>2, <2>3
<1>4. QED
  BY <1>1, <1>2, <1>3

LEMMA StoreInitIInv == StoreInit => StoreIInv
<1> SUFFICES ASSUME StoreInit PROVE StoreIInv
  OBVIOUS
<1>1. /\ rootCrt = None /\ intCrt = None /\ imported \in (SUBSET Ints) \cup {Torn}
      /\ cnsFile = {} /\ store = LoadTrustStore
  BY DEF StoreInit
<1>2. up /\ ~raced /\ ~unsaved
  BY DEF StoreInit
<1>3. /\ pull \in [Peers -> Pullings] /\ \A p \in Peers : pull[p].at = "idle"
      /\ trust \in [at : {"idle", "open", "write"}, cn : Peers \cup {None}]
      /\ trust.at = "idle"
  BY DEF StoreInit, NoPull, NoTrust, Pulling, Trusting, Pullings
<1>4. /\ store \in [root : Roots \cup {None}, ints : SUBSET Ints,
                     mapped : BOOLEAN, cns : SUBSET Peers]
      /\ store.ints # {} => store.mapped
      /\ store.mapped => store.cns = LoadTrustedCNs
      /\ \A i \in store.ints : (imported # Torn /\ i \in imported) \/ i = intCrt
  BY <1>1, Loaded
<1>5. StoreTypeOK
  BY <1>1, <1>3, <1>4 DEF StoreInit, StoreTypeOK, Pullings
<1>6. Grounded
  BY <1>2, <1>3, <1>4 DEF Grounded
<1>7. Chained
  <2>1. /\ intCrt \notin Ints
        /\ \A i \in store.ints : imported # Torn /\ i \in imported
    BY <1>1, <1>4, Contents
  <2>2. QED
    BY <1>3, <2>1 DEF Chained
<1>8. CnsSaved
  BY <1>4 DEF CnsSaved
<1>9. QED
  BY <1>5, <1>6, <1>7, <1>8 DEF StoreIInv

\* A pull that goes on is the only one that does.
LEMMA PullGoesOn ==
    ASSUME pull \in [Peers -> Pullings], NEW p \in Peers, NEW new \in Pullings,
           pull' = [pull EXCEPT ![p] = new]
    PROVE  /\ pull'[p] = new
           /\ \A q \in Peers : q # p => pull'[q] = pull[q]
           /\ pull' \in [Peers -> Pullings]
OBVIOUS

\* One that only moves keeps its payload.
Moved(p, at) == [pull[p] EXCEPT !.at = at]

LEMMA MovedAt ==
    ASSUME pull \in [Peers -> Pullings], NEW p \in Peers,
           NEW at \in {"idle", "get", "root", "root open", "root write",
                       "int", "int check", "int open", "int write"}
    PROVE  /\ Moved(p, at) \in Pullings
           /\ Moved(p, at).at = at
           /\ Moved(p, at).root = pull[p].root
           /\ Moved(p, at).int = pull[p].int
BY DEF Moved, Pullings

\* A node with a pull under way is up.
LEMMA PullsRun ==
    ASSUME StoreIInv, NEW p \in Peers, pull[p].at # "idle"
    PROVE  up
<1>1. CASE ~up
  <2>1. pull = [q \in Peers |-> NoPull]
    BY <1>1 DEF StoreIInv, Grounded
  <2>2. pull[p].at = "idle"
    BY <2>1 DEF NoPull, Pulling
  <2>3. QED
    BY <2>2
<1>2. QED
  BY <1>1

\* Steps of a pull keep everything that is about the trusted CNs.
LEMMA PullKeepsCns ==
    ASSUME CnsSaved, UNCHANGED <<up, cnsFile, store, trust, unsaved>>
    PROVE  CnsSaved'
BY DEF CnsSaved, LoadTrustedCNs

\* ... and the types and what is grounded, when an intermediate to store is there.
LEMMA PullKeepsGround ==
    ASSUME StoreIInv, NEW p \in Peers, up, NEW new \in Pullings,
           pull' = [pull EXCEPT ![p] = new],
           new.at \in {"int check", "int open", "int write"} => new.int \in Ints,
           UNCHANGED <<up, imported, cnsFile, store, trust, unsaved>>,
           rootCrt' \in Roots \cup {None, Torn, Mixed}, intCrt' \in Ints \cup {None, Torn, Mixed},
           raced' \in BOOLEAN
    PROVE  StoreTypeOK' /\ Grounded'
<1>1. /\ pull'[p] = new
      /\ \A q \in Peers : q # p => pull'[q] = pull[q]
      /\ pull' \in [Peers -> Pullings]
  BY PullGoesOn DEF StoreIInv, StoreTypeOK, Pullings
<1>2. StoreTypeOK'
  BY <1>1 DEF StoreIInv, StoreTypeOK, Pullings
<1>3. ASSUME NEW q \in Peers, pull'[q].at \in {"int check", "int open", "int write"}
      PROVE pull'[q].int \in Ints
  BY <1>1, <1>3 DEF StoreIInv, Grounded
<1>4. store'.ints # {} => store'.mapped
  BY DEF StoreIInv, Grounded
<1>5. up'
  OBVIOUS
<1>6. QED
  BY <1>2, <1>3, <1>4, <1>5 DEF Grounded

\* One pull goes on without a file being touched: it opens no file yet, and an
\* intermediate it is going to store has been checked against the root on disk.
LEMMA PullLooks ==
    ASSUME StoreIInv, NEW p \in Peers, up, NEW new \in Pullings,
           pull' = [pull EXCEPT ![p] = new],
           UNCHANGED <<up, rootCrt, intCrt, imported, cnsFile, store, trust, raced, unsaved>>,
           new.at \notin {"root write", "int write"},
           new.at \in {"int check", "int open"} => new.int \in Ints,
           new.at = "int open" => rootCrt = SignedBy[new.int]
    PROVE  StoreIInv'
<1>1. /\ pull'[p] = new
      /\ \A q \in Peers : q # p => pull'[q] = pull[q]
  BY PullGoesOn DEF StoreIInv, StoreTypeOK, Pullings
<1>2. StoreTypeOK' /\ Grounded'
  BY PullKeepsGround DEF StoreIInv, StoreTypeOK
<1>3. ASSUME ~raced' PROVE Chained'
  <2>1. Chained
    BY <1>3 DEF StoreIInv
  <2>2. ASSUME NEW q \in Peers
        PROVE  /\ pull'[q].at \in {"root write", "int write"} => q # p /\ pull'[q] = pull[q]
               /\ pull'[q].at \in {"int open", "int write"} => rootCrt' = SignedBy[pull'[q].int]
    BY <1>1, <2>1 DEF Chained
  <2>3. ASSUME NEW q \in Peers, pull'[q].at = "root write"
        PROVE  rootCrt' = Torn /\ \A t \in Peers : pull'[t].at = "root write" => t = q
    <3>1. pull[q].at = "root write"
      BY <2>2, <2>3
    <3>2. rootCrt = Torn /\ \A t \in Peers : pull[t].at = "root write" => t = q
      BY <2>1, <3>1 DEF Chained
    <3>3. ASSUME NEW t \in Peers, pull'[t].at = "root write" PROVE pull[t].at = "root write"
      BY <2>2, <3>3
    <3>4. QED
      BY <3>2, <3>3
  <2>4. ASSUME NEW q \in Peers, pull'[q].at = "int write"
        PROVE  intCrt' = Torn /\ \A t \in Peers : pull'[t].at = "int write" => t = q
    <3>1. pull[q].at = "int write"
      BY <2>2, <2>4
    <3>2. intCrt = Torn /\ \A t \in Peers : pull[t].at = "int write" => t = q
      BY <2>1, <3>1 DEF Chained
    <3>3. ASSUME NEW t \in Peers, pull'[t].at = "int write" PROVE pull[t].at = "int write"
      BY <2>2, <3>3
    <3>4. QED
      BY <3>2, <3>3
  <2>5. /\ intCrt' \in Ints => rootCrt' = SignedBy[intCrt']
        /\ \A i \in store'.ints : (imported' # Torn /\ i \in imported') \/ store'.root = SignedBy[i]
    BY <2>1 DEF Chained
  <2>6. QED
    BY <2>2, <2>3, <2>4, <2>5 DEF Chained
<1>4. QED
  BY <1>2, <1>3, PullKeepsCns DEF StoreIInv

\* Ways in which a pull goes on without a file being touched.
Look(p) ==
    \/ Spawn(p) \/ GetFails(p) \/ StatRoot(p) \/ OpenRootFails(p) \/ StatInt(p) \/ CheckInt(p)
    \/ \E r \in Roots \cup {None}, i \in Ints \cup {None} : Get(p, r, i)

\* A pull that has ended is a pull.
LEMMA Idle == NoPull \in Pullings /\ NoPull.at = "idle"
BY DEF NoPull, Pulling, Pullings

LEMMA LookIInv ==
    ASSUME StoreIInv, NEW p \in Peers, Look(p)
    PROVE  StoreIInv'
<1> USE DEF files, history
<1>1. pull \in [Peers -> Pullings]
  BY DEF StoreIInv, StoreTypeOK, Pullings
<1>2. up
  <2>1. up \/ pull[p].at # "idle"
    BY DEF Look, Spawn, GetFails, StatRoot, OpenRootFails, StatInt, CheckInt, Get
  <2>2. QED
    BY <2>1, PullsRun
<1>3. UNCHANGED <<up, rootCrt, intCrt, imported, cnsFile, store, trust, raced, unsaved>>
  BY DEF Look, Spawn, GetFails, StatRoot, OpenRootFails, StatInt, CheckInt, Get
<1>4. SUFFICES \E new \in Pullings :
                   /\ pull' = [pull EXCEPT ![p] = new]
                   /\ new.at \notin {"root write", "int write"}
                   /\ new.at \in {"int check", "int open"} => new.int \in Ints
                   /\ new.at = "int open" => rootCrt = SignedBy[new.int]
  BY <1>2, <1>3, PullLooks
<1>5. CASE Spawn(p) \/ StatRoot(p) \/ OpenRootFails(p)
  <2>1. PICK at \in {"get", "root open", "int"} : pull' = [pull EXCEPT ![p] = Moved(p, at)]
    BY <1>5 DEF Spawn, StatRoot, OpenRootFails, Moved
  <2>2. QED
    BY <1>1, <2>1, MovedAt
<1>6. CASE GetFails(p)
  BY <1>6, Idle DEF GetFails
<1>7. CASE \E r \in Roots \cup {None}, i \in Ints \cup {None} : Get(p, r, i)
  BY <1>7 DEF Get, Pulling, Pullings
<1>8. CASE StatInt(p)
  <2>1. CASE pull' = [pull EXCEPT ![p] = NoPull]
    BY <2>1, Idle
  <2>2. CASE pull[p].int # None /\ pull' = [pull EXCEPT ![p] = [pull[p] EXCEPT !.at = "int check"]]
    <3>1. [pull[p] EXCEPT !.at = "int check"] \in Pullings
      BY <1>1 DEF Pullings
    <3>2. pull[p].int \in Ints
      BY <1>1, <2>2 DEF Pullings
    <3>3. QED
      BY <1>1, <2>2, <3>1, <3>2 DEF Pullings
  <2>3. QED
    BY <1>8, <2>1, <2>2 DEF StatInt
<1>9. CASE CheckInt(p)
  <2>1. CASE pull' = [pull EXCEPT ![p] = NoPull]
    BY <2>1, Idle
  <2>2. CASE /\ rootCrt = SignedBy[pull[p].int]
             /\ pull' = [pull EXCEPT ![p] = [pull[p] EXCEPT !.at = "int open"]]
    <3>1. [pull[p] EXCEPT !.at = "int open"] \in Pullings
      BY <1>1 DEF Pullings
    <3>2. pull[p].int \in Ints
      BY <1>9 DEF CheckInt, StoreIInv, Grounded
    <3>3. QED
      BY <1>1, <2>2, <3>1, <3>2 DEF Pullings
  <2>3. QED
    BY <1>9, <2>1, <2>2 DEF CheckInt
<1>10. QED
  BY <1>5, <1>6, <1>7, <1>8, <1>9 DEF Look

\* Whoever opens root.crt, as long as no file is opened twice, finds none: nobody is
\* writing it, and no intermediate is stored or about to be.
LEMMA OpenRootIInv ==
    ASSUME StoreIInv, NEW p \in Peers, OpenRoot(p)
    PROVE  StoreIInv'
<1>1. /\ pull \in [Peers -> Pullings]
      /\ rootCrt' = Torn
      /\ UNCHANGED <<up, intCrt, imported, cnsFile, store, trust, unsaved>>
      /\ raced' \in BOOLEAN
      /\ pull[p].at # "idle"
  BY DEF OpenRoot, StoreIInv, StoreTypeOK, Pullings
<1>2. PICK new \in Pullings : pull' = [pull EXCEPT ![p] = new] /\ new.at = "root write"
  <2>1. pull' = [pull EXCEPT ![p] = Moved(p, "root write")]
    BY DEF OpenRoot, Moved
  <2>2. QED
    BY <1>1, <2>1, MovedAt
<1>3. up
  BY <1>1, PullsRun
<1>4. StoreTypeOK' /\ Grounded'
  BY <1>1, <1>2, <1>3, PullKeepsGround DEF StoreIInv, StoreTypeOK
<1>5. ASSUME ~raced' PROVE Chained'
  <2>1. ~raced /\ rootCrt = None
    BY <1>5 DEF OpenRoot
  <2>2. Chained
    BY <2>1 DEF StoreIInv
  <2>3. /\ pull'[p].at = "root write"
        /\ \A q \in Peers : q # p => pull'[q] = pull[q]
    BY <1>1, <1>2, PullGoesOn
  <2>4. ASSUME NEW q \in Peers
        PROVE  pull[q].at \notin {"root write", "int open", "int write"}
    <3>1. rootCrt # Torn /\ rootCrt \notin Roots
      BY <2>1, Contents
    <3>2. pull[q].at # "root write"
      BY <2>2, <3>1 DEF Chained
    <3>3. pull[q].at \notin {"int open", "int write"}
      <4>1. pull[q].at \in {"int open", "int write"} =>
                SignedBy[pull[q].int] \in Roots /\ rootCrt = SignedBy[pull[q].int]
        BY <2>2, Contents DEF Chained, StoreIInv, Grounded
      <4>2. QED
        BY <3>1, <4>1
    <3>4. QED
      BY <3>2, <3>3
  <2>5. intCrt' \notin Ints
    BY <1>1, <2>1, <2>2, Contents DEF Chained
  <2>6. ASSUME NEW q \in Peers
        PROVE  /\ pull'[q].at = "root write" => q = p
               /\ pull'[q].at \notin {"int open", "int write"}
    BY <2>3, <2>4
  <2>7. \A i \in store'.ints : (imported' # Torn /\ i \in imported') \/ store'.root = SignedBy[i]
    BY <1>1, <2>2 DEF Chained
  <2>8. QED
    BY <1>1, <2>5, <2>6, <2>7 DEF Chained
<1>6. QED
  BY <1>1, <1>4, <1>5, PullKeepsCns DEF StoreIInv

\* Whoever writes it finds it torn: no intermediate has been checked against it.
LEMMA WriteRootIInv ==
    ASSUME StoreIInv, NEW p \in Peers, WriteRoot(p)
    PROVE  StoreIInv'
<1>1. /\ pull \in [Peers -> Pullings]
      /\ UNCHANGED <<up, intCrt, imported, cnsFile, store, trust, raced, unsaved>>
      /\ rootCrt' \in Roots \cup {None, Mixed}
      /\ pull[p].at = "root write"
  BY DEF WriteRoot, Over, StoreIInv, StoreTypeOK, Pullings, history
<1>2. PICK new \in Pullings : pull' = [pull EXCEPT ![p] = new] /\ new.at = "int"
  <2>1. pull' = [pull EXCEPT ![p] = Moved(p, "int")]
    BY DEF WriteRoot, Moved
  <2>2. QED
    BY <1>1, <2>1, MovedAt
<1>3. up
  BY <1>1, PullsRun
<1>4. StoreTypeOK' /\ Grounded'
  BY <1>1, <1>2, <1>3, PullKeepsGround DEF StoreIInv, StoreTypeOK
<1>5. ASSUME ~raced' PROVE Chained'
  <2>1. Chained
    BY <1>1, <1>5 DEF StoreIInv
  <2>2. rootCrt = Torn /\ \A q \in Peers : pull[q].at = "root write" => q = p
    BY <1>1, <2>1 DEF Chained
  <2>3. /\ pull'[p].at = "int"
        /\ \A q \in Peers : q # p => pull'[q] = pull[q]
    BY <1>1, <1>2, PullGoesOn
  <2>4. ASSUME NEW q \in Peers
        PROVE  pull[q].at \notin {"int open", "int write"}
    <3>1. pull[q].at \in {"int open", "int write"} =>
              SignedBy[pull[q].int] \in Roots /\ rootCrt = SignedBy[pull[q].int]
      BY <2>1, Contents DEF Chained, StoreIInv, Grounded
    <3>2. QED
      BY <2>2, <3>1, Contents
  <2>5. intCrt' \notin Ints
    BY <1>1, <2>1, <2>2, Contents DEF Chained
  <2>6. ASSUME NEW q \in Peers
        PROVE  pull'[q].at \notin {"root write", "int open", "int write"}
    BY <2>2, <2>3, <2>4
  <2>7. \A i \in store'.ints : (imported' # Torn /\ i \in imported') \/ store'.root = SignedBy[i]
    BY <1>1, <2>1 DEF Chained
  <2>8. QED
    BY <2>5, <2>6, <2>7 DEF Chained
<1>6. QED
  BY <1>1, <1>4, <1>5, PullKeepsCns DEF StoreIInv

\* Whoever opens intermediate.crt has checked his intermediate against root.crt, and
\* as long as no file is opened twice he finds none.
LEMMA OpenIntIInv ==
    ASSUME StoreIInv, NEW p \in Peers, OpenInt(p)
    PROVE  StoreIInv'
<1>1. /\ pull \in [Peers -> Pullings]
      /\ UNCHANGED <<up, rootCrt, imported, cnsFile, store, trust, unsaved>>
      /\ pull[p].at = "int open"
      /\ pull[p].int \in Ints
  BY DEF OpenInt, StoreIInv, StoreTypeOK, Pullings, Grounded
<1>2. up
  BY <1>1, PullsRun
<1>3. CASE UNCHANGED <<intCrt, raced>> /\ pull' = [pull EXCEPT ![p] = NoPull]
  BY <1>1, <1>2, <1>3, Idle, PullLooks
<1>4. CASE /\ intCrt' = Torn
           /\ raced' = (raced \/ intCrt # None)
           /\ pull' = [pull EXCEPT ![p].at = "int write"]
  <2>1. PICK new \in Pullings :
            pull' = [pull EXCEPT ![p] = new] /\ new.at = "int write" /\ new.int = pull[p].int
    <3>1. pull' = [pull EXCEPT ![p] = Moved(p, "int write")]
      BY <1>4 DEF Moved
    <3>2. QED
      BY <1>1, <3>1, MovedAt
  <2>2. raced' \in BOOLEAN /\ (~raced' => ~raced /\ intCrt = None)
    BY <1>4 DEF StoreIInv, StoreTypeOK
  <2>3. StoreTypeOK' /\ Grounded'
    <3>1. /\ rootCrt' \in Roots \cup {None, Torn, Mixed} /\ intCrt' \in Ints \cup {None, Torn, Mixed}
          /\ new.int \in Ints
      BY <1>1, <1>4, <2>1 DEF StoreIInv, StoreTypeOK
    <3>2. QED
      BY <1>1, <1>2, <2>1, <2>2, <3>1, PullKeepsGround
  <2>4. ASSUME ~raced' PROVE Chained'
    <3>1. Chained
      BY <2>2, <2>4 DEF StoreIInv
    <3>2. /\ pull'[p].at = "int write" /\ pull'[p].int = pull[p].int
          /\ \A q \in Peers : q # p => pull'[q] = pull[q]
      BY <1>1, <2>1, PullGoesOn
    <3>3. ASSUME NEW q \in Peers
          PROVE  /\ pull[q].at # "int write"
                 /\ pull[q].at = "root write" =>
                        rootCrt = Torn /\ \A t \in Peers : pull[t].at = "root write" => t = q
                 /\ pull[q].at \in {"int open", "int write"} => rootCrt = SignedBy[pull[q].int]
      BY <2>2, <2>4, <3>1, Contents DEF Chained
    <3>4. ASSUME NEW q \in Peers
          PROVE  /\ pull'[q].at = "int write" => q = p
                 /\ pull'[q].at = "root write" => pull[q].at = "root write"
                 /\ pull'[q].at \in {"int open", "int write"} => rootCrt = SignedBy[pull'[q].int]
      <4>1. CASE q = p
        BY <1>1, <3>2, <3>3, <4>1
      <4>2. CASE q # p
        BY <3>2, <3>3, <4>2
      <4>3. QED
        BY <4>1, <4>2
    <3>5. intCrt' \notin Ints
      BY <1>4, Contents
    <3>6. \A i \in store'.ints : (imported' # Torn /\ i \in imported') \/ store'.root = SignedBy[i]
      BY <1>1, <3>1 DEF Chained
    <3>7. ASSUME NEW q \in Peers, pull'[q].at = "root write"
          PROVE  rootCrt' = Torn /\ \A t \in Peers : pull'[t].at = "root write" => t = q
      BY <1>1, <3>3, <3>4, <3>7
    <3>8. QED
      BY <1>1, <1>4, <3>4, <3>5, <3>6, <3>7 DEF Chained
  <2>5. QED
    BY <1>1, <2>3, <2>4, PullKeepsCns DEF StoreIInv
<1>5. QED
  BY <1>3, <1>4 DEF OpenInt

\* Whoever writes it is the only one, and root.crt is still the one he has checked.
LEMMA WriteIntIInv ==
    ASSUME StoreIInv, NEW p \in Peers, WriteInt(p)
    PROVE  StoreIInv'
<1>1. /\ pull \in [Peers -> Pullings]
      /\ UNCHANGED <<up, rootCrt, imported, cnsFile, store, trust, raced, unsaved>>
      /\ intCrt' \in {pull[p].int, Mixed} /\ pull[p].int \in Ints
      /\ pull[p].at = "int write"
      /\ pull' = [pull EXCEPT ![p] = NoPull]
  BY DEF WriteInt, Over, StoreIInv, StoreTypeOK, Pullings, Grounded, history
<1>2. up
  BY <1>1, PullsRun
<1>3. StoreTypeOK' /\ Grounded'
  BY <1>1, <1>2, Idle, PullKeepsGround DEF StoreIInv, StoreTypeOK
<1>4. ASSUME ~raced' PROVE Chained'
  <2>1. Chained
    BY <1>1, <1>4 DEF StoreIInv
  <2>2. /\ pull'[p].at = "idle"
        /\ \A q \in Peers : q # p => pull'[q] = pull[q]
    BY <1>1, Idle, PullGoesOn
  <2>3. /\ rootCrt = SignedBy[pull[p].int]
        /\ \A q \in Peers : pull[q].at = "int write" => q = p
    BY <1>1, <2>1 DEF Chained
  <2>4. ASSUME NEW q \in Peers
        PROVE  /\ pull'[q].at # "int write"
               /\ pull'[q].at \in {"root write", "int open"} => pull'[q] = pull[q]
    BY <2>2, <2>3
  <2>5. ASSUME NEW q \in Peers, pull'[q].at = "root write"
        PROVE  rootCrt' = Torn /\ \A t \in Peers : pull'[t].at = "root write" => t = q
    <3>1. rootCrt = Torn /\ \A t \in Peers : pull[t].at = "root write" => t = q
      BY <2>1, <2>4, <2>5 DEF Chained
    <3>2. QED
      BY <1>1, <2>4, <3>1
  <2>6. ASSUME NEW q \in Peers, pull'[q].at \in {"int open", "int write"}
        PROVE  rootCrt' = SignedBy[pull'[q].int]
    BY <1>1, <2>1, <2>4, <2>6 DEF Chained
  <2>7. \A i \in store'.ints : (imported' # Torn /\ i \in imported') \/ store'.root = SignedBy[i]
    BY <1>1, <2>1 DEF Chained
  <2>8. QED
    BY <1>1, <2>3, <2>4, <2>5, <2>6, <2>7, Contents DEF Chained
<1>5. QED
  BY <1>1, <1>3, <1>4, PullKeepsCns DEF StoreIInv

\* The steps of TrustPeerCN leave the certificates alone.
LEMMA CnsKeepChain ==
    ASSUME StoreIInv, UNCHANGED <<rootCrt, intCrt, imported, pull, raced>>,
           store'.ints = store.ints, store'.root = store.root
    PROVE  ~raced' => Chained'
BY DEF StoreIInv, Chained

LEMMA TrustPeerCNIInv ==
    ASSUME StoreIInv, NEW p \in Peers, NEW i \in Ints, TrustPeerCN(p, i)
    PROVE  StoreIInv'
<1>1. /\ UNCHANGED <<up, rootCrt, intCrt, imported, cnsFile, pull, raced, unsaved>>
      /\ store' = [store EXCEPT !.cns = store.cns \cup {p}]
      /\ trust' = [at |-> "open", cn |-> p]
      /\ i \in store.ints
  BY DEF TrustPeerCN, Accepts, Trusting, files, history
<1>2. up
  BY DEF TrustPeerCN, Accepts
<1>3. /\ store' \in [root : Roots \cup {None}, ints : SUBSET Ints,
                      mapped : BOOLEAN, cns : SUBSET Peers]
      /\ store'.ints = store.ints /\ store'.root = store.root /\ store'.mapped = store.mapped
  BY <1>1 DEF StoreIInv, StoreTypeOK
<1>4. store.mapped
  BY <1>1 DEF StoreIInv, Grounded
<1>5. StoreTypeOK'
  BY <1>1, <1>3, <1>4 DEF StoreIInv, StoreTypeOK
<1>6. Grounded'
  <2>1. up'
    BY <1>1, <1>2
  <2>2. store'.mapped
    BY <1>3, <1>4
  <2>3. QED
    BY <1>1, <2>1, <2>2 DEF StoreIInv, Grounded
<1>7. ~raced' => Chained'
  BY <1>1, <1>3, CnsKeepChain
<1>8. CnsSaved'
  BY <1>1 DEF CnsSaved
<1>9. QED
  BY <1>5, <1>6, <1>7, <1>8 DEF StoreIInv

\* TrustPeerCN is under way at a node that is up only.
LEMMA TrustRuns ==
    ASSUME StoreIInv, trust.at # "idle"
    PROVE  up /\ store.mapped
<1>1. up
  <2>1. CASE ~up
    <3>1. trust = NoTrust
      BY <2>1 DEF StoreIInv, Grounded
    <3>2. QED
      BY <3>1 DEF NoTrust, Trusting
  <2>2. QED
    BY <2>1
<1>2. QED
  BY <1>1 DEF StoreIInv, StoreTypeOK

LEMMA OpenCnsIInv ==
    ASSUME StoreIInv, OpenCns
    PROVE  StoreIInv'
<1>1. /\ UNCHANGED <<up, rootCrt, intCrt, imported, store, pull, raced>>
      /\ trust.at = "open"
      /\ trust' \in [at : {"idle", "open", "write"}, cn : Peers \cup {None}]
      /\ cnsFile' \in (SUBSET Peers) \cup {Torn}
      /\ unsaved' \in BOOLEAN
      /\ trust'.at = "idle" => unsaved'
  <2>1. /\ UNCHANGED <<up, rootCrt, intCrt, imported, store, pull, raced>>
        /\ trust.at = "open" /\ trust.cn \in Peers \cup {None}
    BY DEF OpenCns, StoreIInv, StoreTypeOK
  <2>2. CASE cnsFile' = Torn /\ trust' = Trusting("write", trust.cn) /\ UNCHANGED unsaved
    BY <2>1, <2>2 DEF StoreIInv, StoreTypeOK, Trusting
  <2>3. CASE unsaved' = TRUE /\ trust' = NoTrust /\ UNCHANGED cnsFile
    BY <2>1, <2>3 DEF StoreIInv, StoreTypeOK, NoTrust, Trusting
  <2>4. QED
    BY <2>1, <2>2, <2>3 DEF OpenCns
<1>2. up /\ store.mapped
  BY <1>1, TrustRuns
<1>3. StoreTypeOK'
  BY <1>1, <1>2 DEF StoreIInv, StoreTypeOK
<1>4. Grounded'
  <2>1. up'
    BY <1>1, <1>2
  <2>2. QED
    BY <1>1, <2>1 DEF StoreIInv, Grounded
<1>5. ~raced' => Chained'
  BY <1>1, CnsKeepChain
<1>6. CnsSaved'
  BY <1>1 DEF CnsSaved
<1>7. QED
  BY <1>3, <1>4, <1>5, <1>6 DEF StoreIInv

LEMMA WriteCnsIInv ==
    ASSUME StoreIInv, WriteCns
    PROVE  StoreIInv'
<1>1. /\ UNCHANGED <<up, rootCrt, intCrt, imported, store, pull, raced>>
      /\ trust.at = "write"
      /\ trust' = [at |-> "idle", cn |-> None]
      /\ cnsFile' = store.cns /\ store.cns \in SUBSET Peers
      /\ unsaved' \in BOOLEAN
  BY DEF WriteCns, StoreIInv, StoreTypeOK, NoTrust, Trusting
<1>2. up /\ store.mapped
  BY <1>1, TrustRuns
<1>3. StoreTypeOK'
  BY <1>1 DEF StoreIInv, StoreTypeOK
<1>4. Grounded'
  <2>1. up'
    BY <1>1, <1>2
  <2>2. QED
    BY <1>1, <2>1 DEF StoreIInv, Grounded
<1>5. ~raced' => Chained'
  BY <1>1, CnsKeepChain
<1>6. CnsSaved'
  <2>1. LoadTrustedCNs' = store'.cns
    BY <1>1, Contents DEF LoadTrustedCNs
  <2>2. QED
    BY <2>1 DEF CnsSaved
<1>7. QED
  BY <1>3, <1>4, <1>5, <1>6 DEF StoreIInv

\* A crash takes the goroutines and the store in memory; what is on disk stays.
LEMMA NodeCrashIInv ==
    ASSUME StoreIInv, NodeCrash
    PROVE  StoreIInv'
<1>1. /\ UNCHANGED <<rootCrt, intCrt, imported, cnsFile, raced, unsaved>>
      /\ store' = [root |-> None, ints |-> {}, mapped |-> FALSE, cns |-> {}]
      /\ pull' = [p \in Peers |-> NoPull]
      /\ trust' = NoTrust
  BY DEF NodeCrash, NoStore, files, history
<1>2. up' \in BOOLEAN /\ ~up'
  BY DEF NodeCrash
<1>3. /\ NoTrust \in [at : {"idle", "open", "write"}, cn : Peers \cup {None}]
      /\ NoTrust.at = "idle"
  BY DEF NoTrust, Trusting
<1>4. pull' \in [Peers -> Pullings] /\ \A p \in Peers : pull'[p].at = "idle"
  BY <1>1, Idle
<1>5. StoreTypeOK'
  BY <1>1, <1>2, <1>3, <1>4 DEF StoreIInv, StoreTypeOK, Pullings
<1>6. Grounded'
  BY <1>1, <1>2, <1>4 DEF Grounded
<1>7. ASSUME ~raced' PROVE Chained'
  <2>1. Chained
    BY <1>1, <1>7 DEF StoreIInv
  <2>2. QED
    BY <1>1, <1>4, <2>1 DEF Chained
<1>8. CnsSaved'
  BY <1>2 DEF CnsSaved
<1>9. QED
  BY <1>5, <1>6, <1>7, <1>8 DEF StoreIInv

\* A node that boots loads what is on disk.
LEMMA NodeBootIInv ==
    ASSUME StoreIInv, NodeBoot
    PROVE  StoreIInv'
<1>1. /\ UNCHANGED <<rootCrt, intCrt, imported, cnsFile, pull, trust, raced>>
      /\ store' = LoadTrustStore
      /\ unsaved' \in BOOLEAN
  BY DEF NodeBoot, files
<1>2. up' \in BOOLEAN /\ up'
  BY DEF NodeBoot
<1>3. trust = NoTrust /\ pull = [p \in Peers |-> NoPull]
  BY DEF NodeBoot, StoreIInv, Grounded
<1>4. pull' \in [Peers -> Pullings] /\ \A p \in Peers : pull'[p].at = "idle"
  BY <1>1, <1>3, Idle
<1>5. /\ store' \in [root : Roots \cup {None}, ints : SUBSET Ints,
                      mapped : BOOLEAN, cns : SUBSET Peers]
      /\ store'.ints # {} => store'.mapped
      /\ store'.mapped => store'.cns = LoadTrustedCNs
      /\ \A i \in store'.ints :
             \/ imported # Torn /\ i \in imported
             \/ i = intCrt /\ store'.root = rootCrt
  BY <1>1, Loaded DEF StoreIInv, StoreTypeOK
<1>6. trust'.at = "idle" /\ trust' \in [at : {"idle", "open", "write"}, cn : Peers \cup {None}]
  BY <1>1, <1>3 DEF NoTrust, Trusting
<1>7. StoreTypeOK'
  BY <1>1, <1>2, <1>4, <1>5, <1>6 DEF StoreIInv, StoreTypeOK, Pullings
<1>8. Grounded'
  BY <1>2, <1>4, <1>5 DEF Grounded
<1>9. ASSUME ~raced' PROVE Chained'
  <2>1. Chained
    BY <1>1, <1>9 DEF StoreIInv
  <2>2. ASSUME NEW i \in store'.ints
        PROVE  (imported' # Torn /\ i \in imported') \/ store'.root = SignedBy[i]
    BY <1>1, <1>5, <2>1 DEF Chained
  <2>3. QED
    BY <1>1, <1>4, <2>1, <2>2 DEF Chained
<1>10. CnsSaved'
  <2>1. LoadTrustedCNs' = LoadTrustedCNs
    BY <1>1 DEF LoadTrustedCNs
  <2>2. QED
    BY <1>5, <2>1 DEF CnsSaved
<1>11. QED
  BY <1>7, <1>8, <1>9, <1>10 DEF StoreIInv

LEMMA StoreNextIInv == StoreIInv /\ [StoreNext]_storeVars => StoreIInv'
<1> SUFFICES ASSUME StoreIInv, [StoreNext]_storeVars PROVE StoreIInv'
  OBVIOUS
<1>1. ASSUME NEW p \in Peers, Look(p) PROVE StoreIInv'
  BY <1>1, LookIInv
<1>2. ASSUME NEW p \in Peers, OpenRoot(p) \/ WriteRoot(p) \/ OpenInt(p) \/ WriteInt(p)
      PROVE  StoreIInv'
  BY <1>2, OpenRootIInv, WriteRootIInv, OpenIntIInv, WriteIntIInv
<1>3. ASSUME NEW p \in Peers, NEW i \in Ints, TrustPeerCN(p, i) PROVE StoreIInv'
  BY <1>3, TrustPeerCNIInv
<1>4. CASE OpenCns \/ WriteCns
  BY <1>4, OpenCnsIInv, WriteCnsIInv
<1>5. CASE NodeCrash \/ NodeBoot
  BY <1>5, NodeCrashIInv, NodeBootIInv
<1>6. CASE UNCHANGED storeVars
  <2>1. UNCHANGED <<up, rootCrt, intCrt, imported, cnsFile, store, pull, trust, raced, unsaved>>
    BY <1>6 DEF storeVars, files, history
  <2>2. StoreTypeOK'
    <3>1. up' \in BOOLEAN /\ raced' \in BOOLEAN /\ unsaved' \in BOOLEAN
      BY <2>1 DEF StoreIInv, StoreTypeOK
    <3>2. trust'.at # "idle" => store'.mapped
      BY <2>1 DEF StoreIInv, StoreTypeOK
    <3>3. QED
      BY <2>1, <3>1, <3>2 DEF StoreIInv, StoreTypeOK
  <2>3. Grounded'
    BY <2>1 DEF StoreIInv, Grounded
  <2>4. ~raced' => Chained'
    BY <2>1, CnsKeepChain
  <2>5. CnsSaved'
    BY <2>1, PullKeepsCns DEF StoreIInv
  <2>6. QED
    BY <2>2, <2>3, <2>4, <2>5 DEF StoreIInv
<1>7. QED
  BY <1>1, <1>2, <1>3, <1>4, <1>5, <1>6 DEF StoreNext, Store, Look

LEMMA StoreInvariant == StoreSpec => []StoreIInv
BY StoreInitIInv, StoreNextIInv, PTL DEF StoreSpec

\* StoreTypeOK: LoadTrustStore, PullCASync and TrustPeerCN keep the types of the
\* files, of the store and of the goroutines, and nobody writes to a nil map of CNs.
THEOREM StoreTypeCorrect == StoreSpec => []StoreTypeOK
<1>1. StoreIInv => StoreTypeOK
  BY DEF StoreIInv
<1>2. QED
  BY <1>1, StoreInvariant, PTL

\* OneChain: what PullCASync keeps on disk, and LoadTrustStore in memory, is of one
\* chain, unless two pulls have opened the same file.
THEOREM StoreOneChain == StoreSpec => []OneChain
<1>1. StoreIInv => OneChain
  <2> SUFFICES ASSUME StoreIInv, ~raced PROVE /\ Matching(rootCrt, intCrt)
              /\ \A i \in store.ints : (imported # Torn /\ i \in imported) \/ Matching(store.root, i)
    BY DEF OneChain
  <2>1. Chained
    BY DEF StoreIInv
  <2>2. QED
    BY <2>1 DEF Chained, Matching
<1>2. QED
  BY <1>1, StoreInvariant, PTL

\* CnsSaved: persistTrustedCNs writes what TrustPeerCN has put into memory, and a
\* restart loads it.
THEOREM StoreCnsSaved == StoreSpec => []CnsSaved
<1>1. StoreIInv => CnsSaved
  BY DEF StoreIInv
<1>2. QED
  BY <1>1, StoreInvariant, PTL

=============================================================================
