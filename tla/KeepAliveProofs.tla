--------------------------- MODULE KeepAliveProofs --------------------------
(***************************************************************************)
(* How long the keepalive can leave a held worker without a job, for every  *)
(* set of leases and requests, every interval, time to live and timeout,    *)
(* and whatever RunPod does with the jobs and checks it is sent.            *)
(***************************************************************************)
EXTENDS KeepAlive, WarmPoolProofs

\* `_last_activity` is set by whatever stops the clock, so a tick that goes without a
\* ping knows of a recent job; a check then takes no longer than its timeout, and the
\* gap that a sleep will end with is known when the task goes to sleep.
GapInv ==
  /\ idle \in Nat
  /\ GapBounded
  /\ quiet < PingInterval => idle <= quiet
  /\ loop = "pinging" => idle = 0
  /\ \A g \in checks : g.by = Loop => idle < PingInterval + g.age
  /\ loop = "asleep" => idle + timer < 2 * PingInterval + HealthTimeout

\* Steps of the pool here are steps of the pool.
LEMMA KeepSteps == [KeepNext]_keptVars => [Next]_vars
BY DEF KeepNext, keptVars, Elsewhere, JobGiven, JobOver, Next, vars

LEMMA KeepIsPool == KeepSpec => Spec
<1>1. KeepInit => Init
  BY DEF KeepInit
<1> QED
  BY <1>1, KeepSteps, PTL DEF KeepSpec, Spec

LEMMA KeptInv == KeepSpec => []IInv
BY KeepIsPool, Invariant, PTL

LEMMA InitGap == KeepInit => GapInv
BY PingAssumption, TimeoutAssumption DEF KeepInit, Init, GapInv, GapBounded

LEMMA NumbersType ==
  ASSUME IInv, GapInv
  PROVE  /\ PingInterval \in Nat \ {0} /\ HealthTimeout \in Nat \ {0}
         /\ quiet \in 0..PingInterval /\ timer \in Nat /\ idle \in Nat
         /\ loop \in Phase
         /\ \A g \in checks : g.age \in 0..HealthTimeout
BY PingAssumption, TimeoutAssumption DEF IInv, TypeOK, GapInv, Check

\* What has to do with no job leaves the clock alone, and is in order for the task.
LEMMA GapElsewhere ==
  ASSUME IInv, GapInv, Elsewhere, UNCHANGED idle
  PROVE  GapInv'
<1> USE NumbersType
<1>1. ASSUME UNCHANGED <<activity, task>>,
             \A g \in checks' : g.by = Loop =>
               \E h \in checks : h.by = Loop /\ h.age = g.age
      PROVE  GapInv'
  BY <1>1 DEF activity, task, GapInv, GapBounded
<1>2. ASSUME NEW r \in Request, LookAtHealth(r)
      PROVE  \A g \in checks' : g.by = Loop => g \in checks
  BY <1>2, NameAssumption DEF LookAtHealth
<1>3. ASSUME NEW r \in Request, NEW l \in Lease, NEW p \in Label \cup {Unlabelled},
             Acquire(r, l, p)
      PROVE  GapInv'
  <2>1. UNCHANGED activity /\ EnsureLoop /\ LookAtHealth(r)
    BY <1>3 DEF Acquire
  <2>2. CASE loop = "off"
    <3>1. loop' = "due" /\ timer' = timer
      BY <2>1, <2>2 DEF EnsureLoop
    <3> QED
      BY <1>2, <2>1, <3>1 DEF activity, GapInv, GapBounded
  <2>3. CASE loop # "off"
    BY <1>1, <1>2, <2>1, <2>3 DEF EnsureLoop
  <2> QED
    BY <2>2, <2>3
<1>4. ASSUME NEW r \in Request, Status(r) \/ \E l \in Lease : Release(r, l)
      PROVE  GapInv'
  BY <1>1, <1>2, <1>4 DEF Status, Release
<1>5. ASSUME NEW g \in checks, HealthSampled(g)
      PROVE  GapInv'
  <2> DEFINE said == [g EXCEPT !.said = worker]
  <2>1. said.by = g.by /\ said.age = g.age
    BY DEF IInv, TypeOK, Check
  <2>2. checks' = (checks \ {g}) \cup {said} /\ UNCHANGED <<activity, task>>
    BY <1>5 DEF HealthSampled
  <2> HIDE DEF said
  <2> QED
    BY <1>1, <2>1, <2>2
<1>6. ASSUME NEW g \in checks, HealthAnswered(g) \/ HealthFailed(g)
      PROVE  GapInv'
  <2>1. /\ checks' = checks \ {g} /\ UNCHANGED activity
        /\ IF g.by = Loop THEN loop' = "asleep" /\ timer' = PingInterval
                          ELSE UNCHANGED task
    BY <1>6 DEF HealthAnswered, HealthFailed, HealthEnds
  <2>2. CASE g.by = Loop
    <3>1. loop' = "asleep" /\ timer' = PingInterval
      BY <2>1, <2>2
    <3>2. idle < PingInterval + g.age /\ g.age <= HealthTimeout
      BY <2>2 DEF GapInv
    <3>3. idle + PingInterval < 2 * PingInterval + HealthTimeout
      BY <3>2
    <3> QED
      BY <2>1, <3>1, <3>3 DEF activity, GapInv, GapBounded
  <2>3. CASE g.by # Loop
    BY <1>1, <2>1, <2>3
  <2> QED
    BY <2>2, <2>3
<1>7. ASSUME LoopTick, loop' # "pinging"
      PROVE  GapInv'
  <2>1. UNCHANGED activity /\ loop = "due"
    BY <1>7 DEF LoopTick
  <2>2. CASE loop' = "off" /\ UNCHANGED checks
    BY <2>1, <2>2 DEF activity, GapInv, GapBounded
  <2>3. CASE ~PingNeeded /\ CheckNow
    <3>1. idle < PingInterval
      BY <2>3 DEF PingNeeded, GapInv
    <3>2. \A g \in checks' : g.by = Loop => idle < PingInterval + g.age
      BY <2>3, <3>1 DEF CheckNow, GapInv
    <3> QED
      BY <2>1, <2>3, <3>2 DEF CheckNow, activity, GapInv, GapBounded
  <2> QED
    BY <1>7, <2>2, <2>3 DEF LoopTick
<1>8. CASE LoopWakes
  BY <1>8 DEF LoopWakes, health, activity, GapInv, GapBounded
<1>9. ASSUME NEW w \in WorkerState, WorkerMoves(w)
      PROVE  GapInv'
  BY <1>1, <1>9 DEF WorkerMoves, health
<1>10. CASE Crash
  BY <1>10 DEF Crash, GapInv, GapBounded
<1> QED
  BY <1>3, <1>4, <1>5, <1>6, <1>7, <1>8, <1>9, <1>10 DEF Elsewhere

\* A sleep is shorter than the gap that is allowed.
LEMMA SleepFits ==
  ASSUME NEW i, i = 0, NEW t \in Nat, t <= PingInterval
  PROVE  i + t < 2 * PingInterval + HealthTimeout
BY PingAssumption, TimeoutAssumption

\* With the clock at zero everything is in order, wherever the task is.
LEMMA StoppedClock ==
  ASSUME IInv', idle' = 0
  PROVE  GapInv'
<1>1. /\ PingInterval \in Nat \ {0} /\ HealthTimeout \in Nat \ {0}
      /\ quiet' \in Nat /\ timer' \in Nat /\ idle' \in Nat
  BY PingAssumption, TimeoutAssumption DEF IInv, TypeOK
<1>2. \A g \in checks' : g.age \in Nat
  BY TimeoutAssumption DEF IInv, TypeOK, Check
<1>3. \A g \in checks' : 0 < PingInterval + g.age
  BY <1>1, <1>2
<1>4. loop' = "asleep" => timer' <= PingInterval
  BY DEF IInv, TaskInv, TimerBound
<1>5. 0 < 2 * PingInterval + HealthTimeout
  BY <1>1
<1>6. ASSUME loop' = "asleep"
      PROVE  idle' + timer' < 2 * PingInterval + HealthTimeout
  BY <1>1, <1>4, <1>6, SleepFits
<1>7. quiet' < PingInterval => idle' <= quiet'
  BY <1>1
<1>8. \A g \in checks' : g.by = Loop => idle' < PingInterval + g.age
  BY <1>3
<1> QED
  BY <1>5, <1>6, <1>7, <1>8 DEF GapInv, GapBounded

\* A job given or over stops the clock.
LEMMA GapJobs ==
  ASSUME IInv, GapInv, IInv', JobGiven \/ JobOver, idle' = 0
  PROVE  GapInv'
BY StoppedClock

\* While somebody holds a lease and no ping is under way, time passes only in a check
\* and in a sleep.
LEMMA GapTick ==
  ASSUME IInv, GapInv, IInv', Tick, idle' = IF Covered THEN 0 ELSE idle + 1
  PROVE  GapInv'
<1>1. CASE Covered
  BY <1>1, StoppedClock
<1>2. CASE ~Covered
  <2>1. /\ loop' = loop /\ timer' = Less(timer)
        /\ quiet' = Older(quiet, PingInterval)
        /\ checks' = {[g EXCEPT !.age = @ + 1] : g \in checks}
        /\ loop # "due" /\ (loop = "asleep" => timer > 0)
        /\ \A g \in checks : g.age < HealthTimeout
    BY DEF Tick, Patience
  <2>2. idle' = idle + 1 /\ loop \in {"checking", "asleep"}
    BY <1>2, <2>1, NumbersType DEF Covered, IInv, KeptAlive, Unexpired, Phase
  <2>3. \A g \in checks' : g.by = Loop => idle' < PingInterval + g.age
    <3>1. ASSUME NEW g \in checks, g.by = Loop
          PROVE  idle' < PingInterval + (g.age + 1)
      BY <2>2, <3>1, NumbersType DEF GapInv
    <3>2. ASSUME NEW g \in checks
          PROVE  /\ [g EXCEPT !.age = @ + 1].by = g.by
                 /\ [g EXCEPT !.age = @ + 1].age = g.age + 1
      BY DEF IInv, TypeOK, Check
    <3>3. ASSUME NEW h \in checks', h.by = Loop
          PROVE  idle' < PingInterval + h.age
      <4>1. PICK g \in checks : h = [g EXCEPT !.age = @ + 1]
        BY <2>1
      <4> QED
        BY <3>1, <3>2, <3>3, <4>1
    <3> QED
      BY <3>3
  <2>4. quiet' < PingInterval => idle' <= quiet'
    BY <2>1, <2>2, NumbersType DEF GapInv, Older
  <2>5. CASE loop = "checking"
    <3>1. PICK g \in checks : g.by = Loop
      BY <2>5 DEF IInv, TaskInv, OneLoopCheck
    <3>2. idle < PingInterval + g.age /\ g.age < HealthTimeout
      BY <2>1, <3>1 DEF GapInv
    <3>3. idle' < 2 * PingInterval + HealthTimeout
      BY <2>2, <3>2, NumbersType
    <3> QED
      BY <2>1, <2>2, <2>3, <2>4, <2>5, <3>3, NumbersType DEF GapInv, GapBounded
  <2>6. CASE loop = "asleep"
    <3>1. timer' = timer - 1 /\ idle' + timer' = idle + timer /\ timer' \in Nat
      BY <2>1, <2>2, <2>6, NumbersType DEF Less
    <3>2. idle + timer < 2 * PingInterval + HealthTimeout
      BY <2>6 DEF GapInv
    <3> QED
      BY <2>1, <2>2, <2>3, <2>4, <2>6, <3>1, <3>2, NumbersType DEF GapInv, GapBounded
  <2> QED
    BY <2>2, <2>5, <2>6
<1> QED
  BY <1>1, <1>2

LEMMA StepGap == IInv /\ IInv' /\ GapInv /\ [KeepNext]_keptVars => GapInv'
<1>1. CASE UNCHANGED keptVars
  BY <1>1 DEF keptVars, vars, health, activity, task, GapInv, GapBounded
<1> QED
  BY <1>1, GapElsewhere, GapJobs, GapTick DEF KeepNext

\* Whoever holds a lease, two intervals and a health check never pass without a job for
\* the worker: for a RunPod that answers late, with errors or not at all, for requests
\* that wait in its queue, and for crashes (_ping_needed, _run, _get_health).
THEOREM GapsAreBounded == KeepSpec => []GapBounded
<1>1. GapInv => GapBounded
  BY DEF GapInv
<1> QED
  BY <1>1, InitGap, StepGap, KeptInv, PTL DEF KeepSpec

=============================================================================
