--------------------------- MODULE WarmPoolProofs ---------------------------
(***************************************************************************)
(* What WarmPool guarantees for every set of leases, clients and handlers   *)
(* and for every time to live, interval and timeout.                        *)
(*                                                                         *)
(* The invariant ties the place the keepalive task is at, and the time it   *)
(* has left there, to what is left of every lease.                          *)
(***************************************************************************)
EXTENDS WarmPool, FiniteSetTheorems, TLAPS

-----------------------------------------------------------------------------
(***************************************************************************)
(* Typing                                                                  *)
(***************************************************************************)

\* Dropping leases leaves a table of leases.
LEMMA OnlyType ==
  ASSUME TypeOK, NEW S \in SUBSET DOMAIN leases
  PROVE  /\ DOMAIN Only(S) = S
         /\ \A l \in S : Only(S)[l] = leases[l]
         /\ S \subseteq Lease
         /\ Only(S) \in [S -> Entry]
BY DEF TypeOK, Only

\* A handler's look at health begins a check of its own, or none.
LEMMA LookType ==
  ASSUME TypeOK, NEW r \in Request, LookAtHealth(r)
  PROVE  checks' \subseteq Check /\ ready' = ready /\ checked' = checked
BY TimeoutAssumption DEF TypeOK, LookAtHealth, Check

LEMMA EnsureType ==
  ASSUME TypeOK, EnsureLoop
  PROVE  loop' \in Phase \ {"off"} /\ timer' = timer
BY DEF TypeOK, EnsureLoop, Phase, task

\* The empty table is one.
LEMMA NoLeasesType ==
  /\ DOMAIN NoLeases = {}
  /\ DOMAIN NoLeases \subseteq Lease
  /\ NoLeases \in [DOMAIN NoLeases -> Entry]
BY DEF NoLeases

LEMMA InitType == Init => TypeOK
<1> SUFFICES ASSUME Init
             PROVE  TypeOK
  OBVIOUS
<1>1. DOMAIN leases \subseteq Lease /\ leases \in [DOMAIN leases -> Entry]
  BY NoLeasesType DEF Init
<1>2. /\ session \in BOOLEAN /\ ready \in BOOLEAN
      /\ checks \subseteq Check /\ serving \subseteq Request
  BY DEF Init
<1>3. /\ checked \in 0..HealthCache /\ quiet \in 0..PingInterval
      /\ inflight \in Nat /\ timer \in Nat
      /\ loop \in Phase /\ worker \in WorkerState
  BY TimeoutAssumption, PingAssumption DEF Init, Phase, WorkerState
<1> QED
  BY <1>1, <1>2, <1>3 DEF TypeOK

LEMMA StepType == TypeOK /\ [Next]_vars => TypeOK'
<1> SUFFICES ASSUME TypeOK, [Next]_vars
             PROVE  TypeOK'
  OBVIOUS
<1> USE DEF TypeOK, pool, health, activity, task
<1>1. ASSUME NEW r \in Request, NEW l \in Lease, NEW p \in Label \cup {Unlabelled},
             Acquire(r, l, p)
      PROVE  TypeOK'
  <2> DEFINE known == l \in Unexpired
             entry == [left  |-> LeaseTtl,
                       label |-> IF known /\ p = Unlabelled THEN leases[l].label ELSE p,
                       met   |-> worker \in Up \/ (known /\ leases[l].met)]
  <2>1. leases' = [i \in Unexpired \cup {l} |-> IF i = l THEN entry ELSE leases[i]]
    BY <1>1 DEF Acquire
  <2>2. entry \in Entry
    <3>1. leases[l].label \in Label \cup {Unlabelled} \/ ~known
      BY DEF Unexpired, Entry
    <3>2. (worker \in Up \/ (known /\ leases[l].met)) \in BOOLEAN
      OBVIOUS
    <3> QED
      BY <3>1, <3>2, TtlAssumption DEF Entry
  <2>3. /\ DOMAIN leases' \subseteq Lease
        /\ leases' \in [DOMAIN leases' -> Entry]
    BY <2>1, <2>2 DEF Unexpired
  <2>4. session' \in BOOLEAN
    BY <1>1 DEF Acquire, SessionOf
  <2> QED
    BY <1>1, <2>3, <2>4, LookType, EnsureType DEF Acquire
<1>2. ASSUME NEW r \in Request, NEW l \in Lease, Release(r, l)
      PROVE  TypeOK'
  <2>1. Unexpired \ {l} \in SUBSET DOMAIN leases
    BY DEF Unexpired
  <2>2. DOMAIN leases' \subseteq Lease /\ leases' \in [DOMAIN leases' -> Entry]
    BY <1>2, <2>1, OnlyType DEF Release
  <2> QED
    BY <1>2, <2>2, LookType DEF Release, SessionOf
<1>3. ASSUME NEW r \in Request, Status(r)
      PROVE  TypeOK'
  <2>1. Unexpired \in SUBSET DOMAIN leases
    BY DEF Unexpired
  <2>2. DOMAIN leases' \subseteq Lease /\ leases' \in [DOMAIN leases' -> Entry]
    BY <1>3, <2>1, OnlyType DEF Status
  <2> QED
    BY <1>3, <2>2, LookType DEF Status, SessionOf
<1>4. ASSUME NEW r \in Request, RequestStarted(r)
      PROVE  TypeOK'
  BY <1>4, PingAssumption DEF RequestStarted
<1>5. ASSUME NEW r \in Request, RequestFinished(r)
      PROVE  TypeOK'
  BY <1>5, PingAssumption DEF RequestFinished
<1>6. ASSUME NEW g \in checks, HealthSampled(g)
      PROVE  TypeOK'
  <2>1. [g EXCEPT !.said = worker] \in Check
    BY DEF Check
  <2> QED
    BY <1>6, <2>1 DEF HealthSampled
<1>7. ASSUME NEW g \in checks, HealthAnswered(g) \/ HealthFailed(g)
      PROVE  TypeOK'
  <2>1. PICK found \in BOOLEAN : HealthEnds(g, found)
    <3>1. (g.said \in Counted) \in BOOLEAN /\ ready \in BOOLEAN
      OBVIOUS
    <3>2. CASE HealthAnswered(g)
      BY <3>1, <3>2 DEF HealthAnswered
    <3>3. CASE HealthFailed(g)
      BY <3>1, <3>3 DEF HealthFailed
    <3> QED
      BY <1>7, <3>2, <3>3
  <2>2. g.age \in 0..HealthTimeout
    BY DEF Check
  <2>3. checked' \in 0..HealthCache
    BY <2>1, <2>2, TimeoutAssumption DEF HealthEnds
  <2> QED
    BY <2>1, <2>3, PingAssumption DEF HealthEnds, Phase
<1>8. ASSUME CheckNow
      PROVE  checks' \subseteq Check /\ loop' \in Phase
  BY <1>8, TimeoutAssumption DEF CheckNow, Check, Phase
<1>9. CASE LoopTick
  <2>1. Unexpired \in SUBSET DOMAIN leases
    BY DEF Unexpired
  <2>2. DOMAIN leases' \subseteq Lease /\ leases' \in [DOMAIN leases' -> Entry]
    BY <1>9, <2>1, OnlyType DEF LoopTick
  <2>3. checks' \subseteq Check /\ loop' \in Phase
    BY <1>8, <1>9 DEF LoopTick, Phase
  <2>4. timer' \in Nat
    BY <1>9, TimeoutAssumption DEF LoopTick
  <2> QED
    BY <1>9, <2>2, <2>3, <2>4 DEF LoopTick, SessionOf
<1>10. CASE PingDone
  BY <1>8, <1>10 DEF PingDone
<1>11. CASE LoopWakes
  BY <1>11 DEF LoopWakes, Phase
<1>12. ASSUME NEW w \in WorkerState, WorkerMoves(w)
       PROVE  TypeOK'
  <2>1. ASSUME NEW l \in DOMAIN leases
        PROVE  [leases[l] EXCEPT !.met = @ \/ w \in Up] \in Entry
    BY DEF Entry
  <2>2. DOMAIN leases' \subseteq Lease /\ leases' \in [DOMAIN leases' -> Entry]
    BY <1>12, <2>1 DEF WorkerMoves
  <2> QED
    BY <1>12, <2>2 DEF WorkerMoves
<1>13. CASE Crash
  <2>1. DOMAIN leases' \subseteq Lease /\ leases' \in [DOMAIN leases' -> Entry]
    BY <1>13, NoLeasesType DEF Crash
  <2>2. /\ session' \in BOOLEAN /\ ready' \in BOOLEAN
        /\ checks' \subseteq Check /\ serving' \subseteq Request
    BY <1>13 DEF Crash
  <2>3. /\ checked' \in 0..HealthCache /\ quiet' \in 0..PingInterval
        /\ inflight' \in Nat /\ timer' \in Nat
        /\ loop' \in Phase /\ worker' \in WorkerState
    BY <1>13, TimeoutAssumption, PingAssumption DEF Crash, Phase
  <2> QED
    BY <2>1, <2>2, <2>3
<1>14. CASE Tick
  <2>1. ASSUME NEW l \in DOMAIN leases
        PROVE  [leases[l] EXCEPT !.left = @ - 1] \in Entry
    BY DEF Entry
  <2>2. DOMAIN leases' \subseteq Lease /\ leases' \in [DOMAIN leases' -> Entry]
    BY <1>14, <2>1 DEF Tick
  <2>3. ASSUME NEW g \in checks
        PROVE  [g EXCEPT !.age = @ + 1] \in Check
    BY <1>14, TimeoutAssumption DEF Tick, Patience, Check
  <2>4. checks' \subseteq Check
    BY <1>14, <2>3 DEF Tick
  <2>5. /\ checked' \in 0..HealthCache
        /\ quiet' \in 0..PingInterval
        /\ timer' \in Nat
    BY <1>14, TimeoutAssumption, PingAssumption DEF Tick, Older, Less
  <2> QED
    BY <1>14, <2>2, <2>4, <2>5 DEF Tick
<1>15. CASE UNCHANGED vars
  BY <1>15 DEF vars
<1> QED
  BY <1>1, <1>2, <1>3, <1>4, <1>5, <1>6, <1>7, <1>9, <1>10, <1>11, <1>12, <1>13,
     <1>14, <1>15 DEF Next

\* The pool's fields hold what they are meant to hold; no count goes below zero.
THEOREM TypeCorrect == Spec => []TypeOK
BY InitType, StepType, PTL DEF Spec

-----------------------------------------------------------------------------
(***************************************************************************)
(* The inductive invariant                                                 *)
(***************************************************************************)

\* The task waits for a check exactly when it has one in flight, and has one.
OneLoopCheck ==
  /\ \A g \in checks : g.by = Loop => loop = "checking"
  /\ \A g, h \in checks : g.by = Loop /\ h.by = Loop => g = h
  /\ loop = "checking" => \E g \in checks : g.by = Loop

TimerBound ==
  /\ loop = "pinging" => timer <= PingTimeout
  /\ loop = "asleep" => timer <= PingInterval

\* What is left of a lease, given where the task is: it was above zero when the
\* last tick pruned, and has lost what the waits since then have taken.
LeftBound ==
  \A l \in DOMAIN leases :
    /\ loop = "pinging" => leases[l].left > timer - PingTimeout
    /\ \A g \in checks : g.by = Loop => leases[l].left > -(PingTimeout + g.age)
    /\ loop = "asleep" => leases[l].left > timer - Grace
    /\ loop = "due" => leases[l].left > -Grace

TaskInv == OneLoopCheck /\ TimerBound /\ LeftBound

IInv == TypeOK /\ KeptAlive /\ SessionWhileLeased /\ TaskInv

LEMMA InitInv == Init => IInv
<1> SUFFICES ASSUME Init
             PROVE  IInv
  OBVIOUS
<1>1. DOMAIN leases = {} /\ ~session /\ checks = {} /\ loop = "off"
  BY NoLeasesType DEF Init
<1>2. KeptAlive /\ SessionWhileLeased
  BY <1>1 DEF KeptAlive, SessionWhileLeased
<1>3. TaskInv
  BY <1>1 DEF TaskInv, OneLoopCheck, TimerBound, LeftBound
<1> QED
  BY <1>2, <1>3, InitType DEF IInv

\* A step that leaves the task where it is, starts no check for it and leaves every
\* lease in the table at least the time it had.
LEMMA TaskUndisturbed ==
  ASSUME TypeOK, TypeOK', TaskInv,
         UNCHANGED <<loop, timer>>,
         \A g \in checks' : g.by = Loop =>
           \E h \in checks : h.by = Loop /\ h.age = g.age,
         \A g, h \in checks' : g.by = Loop /\ h.by = Loop => g = h,
         loop = "checking" => \E g \in checks' : g.by = Loop,
         \A l \in DOMAIN leases' :
           \/ l \in DOMAIN leases /\ leases'[l].left >= leases[l].left
           \/ leases'[l].left > 0
  PROVE  TaskInv'
<1>1. OneLoopCheck' /\ TimerBound'
  BY DEF TaskInv, OneLoopCheck, TimerBound
<1>2. ASSUME NEW l \in DOMAIN leases'
      PROVE  /\ loop' = "pinging" => leases'[l].left > timer' - PingTimeout
             /\ \A g \in checks' : g.by = Loop => leases'[l].left > -(PingTimeout + g.age)
             /\ loop' = "asleep" => leases'[l].left > timer' - Grace
             /\ loop' = "due" => leases'[l].left > -Grace
  <2>1. leases'[l].left \in Int
    BY DEF TypeOK, Entry
  <2>2. timer \in Nat /\ \A g \in checks : g.age \in Nat
    BY TimeoutAssumption DEF TypeOK, Check
  <2>3. CASE l \in DOMAIN leases /\ leases'[l].left >= leases[l].left
    <3>1. leases[l].left \in Int
      BY <2>3 DEF TypeOK, Entry
    <3> QED
      BY <2>1, <2>2, <2>3, <3>1, TimeoutAssumption, PingAssumption
         DEF TaskInv, LeftBound, Grace
  <2>4. CASE leases'[l].left > 0
    BY <2>1, <2>2, <2>4, TimeoutAssumption, PingAssumption
       DEF TaskInv, TimerBound, Grace
  <2> QED
    BY <2>3, <2>4
<1> QED
  BY <1>1, <1>2 DEF TaskInv, LeftBound

\* A handler's look at health leaves the task's check alone.
LEMMA LookUndisturbed ==
  ASSUME TypeOK, TaskInv, NEW r \in Request, LookAtHealth(r)
  PROVE  \A g : g.by = Loop => (g \in checks' <=> g \in checks)
BY NameAssumption DEF LookAtHealth

LEMMA AcquireInv ==
  ASSUME IInv, TypeOK', NEW r \in Request, NEW l \in Lease,
         NEW p \in Label \cup {Unlabelled}, Acquire(r, l, p)
  PROVE  KeptAlive' /\ SessionWhileLeased' /\ TaskInv'
<1>1. /\ DOMAIN leases' = Unexpired \cup {l}
      /\ leases'[l].left = LeaseTtl
      /\ \A i \in Unexpired : i # l => leases'[i] = leases[i]
  BY DEF Acquire
<1>2. Unexpired \subseteq DOMAIN leases
  BY DEF Unexpired
<1>3. KeptAlive'
  BY DEF Acquire, EnsureLoop, KeptAlive, task
<1>4. SessionWhileLeased'
  BY <1>1, <1>2 DEF Acquire, SessionOf, IInv, SessionWhileLeased
<1>5. TaskInv'
  <2>1. \A g : g.by = Loop => (g \in checks' <=> g \in checks)
    BY LookUndisturbed DEF IInv, Acquire
  <2>2. CASE loop = "off"
    <3>1. loop' = "due" /\ DOMAIN leases = {} /\ \A g \in checks' : g.by # Loop
      BY <2>1, <2>2
         DEF Acquire, EnsureLoop, IInv, KeptAlive, TaskInv, OneLoopCheck
    <3>2. \A i \in DOMAIN leases' : leases'[i].left > -Grace
      BY <1>1, <1>2, <3>1, TtlAssumption, TimeoutAssumption, PingAssumption DEF Grace
    <3> QED
      BY <3>1, <3>2 DEF TaskInv, OneLoopCheck, TimerBound, LeftBound
  <2>3. CASE loop # "off"
    <3>1. UNCHANGED <<loop, timer>>
      BY <2>3 DEF Acquire, EnsureLoop, task
    <3>2. ASSUME NEW i \in DOMAIN leases'
          PROVE  \/ i \in DOMAIN leases /\ leases'[i].left >= leases[i].left
                 \/ leases'[i].left > 0
      BY <1>1, <1>2, TtlAssumption DEF Unexpired
    <3> QED
      BY <2>1, <3>1, <3>2, TaskUndisturbed DEF IInv, TaskInv, OneLoopCheck
  <2> QED
    BY <2>2, <2>3
<1> QED
  BY <1>3, <1>4, <1>5

\* Pruning, and dropping one lease more, leaves the session and the task right.
LEMMA DropInv ==
  ASSUME IInv, TypeOK', NEW r \in Request, NEW S \in SUBSET Unexpired,
         leases' = Only(S), session' = SessionOf(S), LookAtHealth(r),
         UNCHANGED task
  PROVE  KeptAlive' /\ SessionWhileLeased' /\ TaskInv'
<1>1. S \subseteq DOMAIN leases
  BY DEF Unexpired
<1>2. DOMAIN leases' = S /\ \A l \in S : leases'[l] = leases[l]
  BY DEF Only
<1>3. KeptAlive'
  BY <1>1, <1>2 DEF IInv, KeptAlive, task
<1>4. SessionWhileLeased'
  BY <1>1, <1>2 DEF IInv, SessionWhileLeased, SessionOf
<1>5. \A g : g.by = Loop => (g \in checks' <=> g \in checks)
  BY LookUndisturbed DEF IInv
<1>6. \A l \in DOMAIN leases' : leases'[l].left > 0
  BY <1>2 DEF Unexpired
<1>7. TaskInv'
  BY <1>5, <1>6, TaskUndisturbed DEF IInv, task, TaskInv, OneLoopCheck
<1> QED
  BY <1>3, <1>4, <1>7

\* The end of a check: the task, if it was its own, goes to sleep.
LEMMA HealthEndsInv ==
  ASSUME IInv, TypeOK', NEW g \in checks, NEW found \in BOOLEAN, HealthEnds(g, found)
  PROVE  KeptAlive' /\ SessionWhileLeased' /\ TaskInv'
<1>1. KeptAlive' /\ SessionWhileLeased'
  BY DEF HealthEnds, pool, task, IInv, KeptAlive, SessionWhileLeased
<1>2. ASSUME g.by = Loop
      PROVE  TaskInv'
  <2>1. /\ loop' = "asleep" /\ timer' = PingInterval
        /\ \A h \in checks' : h.by # Loop
        /\ leases' = leases
    BY <1>2 DEF HealthEnds, pool, IInv, TaskInv, OneLoopCheck
  <2>2. ASSUME NEW l \in DOMAIN leases
        PROVE  leases[l].left > PingInterval - Grace
    <3>1. leases[l].left > -(PingTimeout + g.age)
      BY <1>2 DEF IInv, TaskInv, LeftBound
    <3>2. leases[l].left \in Int /\ g.age \in 0..HealthTimeout
      BY DEF IInv, TypeOK, Entry, Check
    <3> QED
      BY <3>1, <3>2, TimeoutAssumption, PingAssumption DEF Grace
  <2> QED
    BY <2>1, <2>2, PingAssumption DEF TaskInv, OneLoopCheck, TimerBound, LeftBound
<1>3. ASSUME g.by # Loop
      PROVE  TaskInv'
  <2>1. /\ UNCHANGED <<loop, timer, leases>>
        /\ \A h : h.by = Loop => (h \in checks' <=> h \in checks)
    BY <1>3 DEF HealthEnds, pool, task
  <2>2. \A l \in DOMAIN leases' : leases'[l].left >= leases[l].left
    BY <2>1 DEF IInv, TypeOK, Entry
  <2>3. TypeOK /\ TaskInv /\ OneLoopCheck
    BY DEF IInv, TaskInv
  <2>4. /\ \A i \in checks' : i.by = Loop => \E h \in checks : h.by = Loop /\ h.age = i.age
        /\ \A i, h \in checks' : i.by = Loop /\ h.by = Loop => i = h
        /\ loop = "checking" => \E i \in checks' : i.by = Loop
    BY <2>1, <2>3 DEF OneLoopCheck
  <2> QED
    BY <2>1, <2>2, <2>3, <2>4, TaskUndisturbed
<1> QED
  BY <1>1, <1>2, <1>3

\* The task begins a check, when its leases have lost no more than a ping's time.
LEMMA CheckNowInv ==
  ASSUME IInv, TypeOK', CheckNow, loop # "checking",
         \A l \in DOMAIN leases' : leases'[l].left > -PingTimeout
  PROVE  TaskInv'
<1> DEFINE new == [by |-> Loop, age |-> 0, said |-> "nothing"]
<1>1. /\ loop' = "checking"
      /\ checks' = checks \cup {new}
      /\ \A g \in checks : g.by # Loop
  BY DEF CheckNow, IInv, TaskInv, OneLoopCheck
<1>2. new.by = Loop /\ new.age = 0
  OBVIOUS
<1> HIDE DEF new
<1>3. ASSUME NEW l \in DOMAIN leases', NEW g \in checks', g.by = Loop
      PROVE  leases'[l].left > -(PingTimeout + g.age)
  BY <1>1, <1>2, <1>3, TimeoutAssumption
<1> QED
  BY <1>1, <1>2, <1>3 DEF TaskInv, OneLoopCheck, TimerBound, LeftBound

\* Time takes as much from every lease as from what the task is waiting for.
LEMMA TickInv ==
  ASSUME IInv, TypeOK', Tick
  PROVE  KeptAlive' /\ SessionWhileLeased' /\ TaskInv'
<1>1. /\ DOMAIN leases' = DOMAIN leases
      /\ \A l \in DOMAIN leases : leases'[l].left = leases[l].left - 1
  BY DEF Tick, IInv, TypeOK, Entry
<1>2. KeptAlive' /\ SessionWhileLeased'
  BY <1>1 DEF Tick, IInv, KeptAlive, SessionWhileLeased
<1>3. /\ loop' = loop /\ loop # "due"
      /\ loop \in {"pinging", "asleep"} => timer' = timer - 1
  BY DEF Tick, Patience, Less
<1>4. \A g \in checks' : \E h \in checks : g.by = h.by /\ g.age = h.age + 1
  BY DEF Tick, IInv, TypeOK, Check
<1>5. OneLoopCheck'
  <2> DEFINE older(g) == [g EXCEPT !.age = @ + 1]
  <2>1. \A g \in checks : older(g).by = g.by
    BY DEF IInv, TypeOK, Check
  <2>2. checks' = {older(g) : g \in checks}
    BY DEF Tick
  <2>3. OneLoopCheck
    BY DEF IInv, TaskInv
  <2> HIDE DEF older
  <2>4. (\E g \in checks' : g.by = Loop) <=> (\E g \in checks : g.by = Loop)
    BY <2>1, <2>2
  <2>5. \A g, h \in checks' : g.by = Loop /\ h.by = Loop => g = h
    BY <2>1, <2>2, <2>3 DEF OneLoopCheck
  <2> QED
    BY <1>3, <2>3, <2>4, <2>5 DEF OneLoopCheck
<1>6. TimerBound'
  BY <1>3, TimeoutAssumption, PingAssumption DEF IInv, TypeOK, TaskInv, TimerBound
<1>7. ASSUME NEW l \in DOMAIN leases
      PROVE  /\ loop = "pinging" => leases'[l].left > timer' - PingTimeout
             /\ loop = "asleep" => leases'[l].left > timer' - Grace
             /\ \A g \in checks' : g.by = Loop => leases'[l].left > -(PingTimeout + g.age)
  <2>1. leases[l].left \in Int /\ timer \in Nat
    BY DEF IInv, TypeOK, Entry
  <2>2. /\ loop = "pinging" => leases[l].left > timer - PingTimeout
        /\ loop = "asleep" => leases[l].left > timer - Grace
        /\ \A g \in checks : g.by = Loop => leases[l].left > -(PingTimeout + g.age)
    BY DEF IInv, TaskInv, LeftBound
  <2>3. \A g \in checks : g.age \in Nat
    BY TimeoutAssumption DEF IInv, TypeOK, Check
  <2> QED
    BY <1>1, <1>3, <1>4, <2>1, <2>2, <2>3, TimeoutAssumption, PingAssumption DEF Grace
<1> QED
  BY <1>1, <1>2, <1>3, <1>5, <1>6, <1>7 DEF TaskInv, LeftBound

LEMMA LoopTickInv ==
  ASSUME IInv, TypeOK', LoopTick
  PROVE  KeptAlive' /\ SessionWhileLeased' /\ TaskInv'
<1>1. /\ loop = "due"
      /\ DOMAIN leases' = Unexpired
      /\ \A l \in Unexpired : leases'[l].left > 0
      /\ \A g \in checks : g.by # Loop
  BY DEF LoopTick, Only, Unexpired, IInv, TaskInv, OneLoopCheck
<1>2. SessionWhileLeased'
  BY <1>1 DEF LoopTick, SessionOf, IInv, SessionWhileLeased, Unexpired
<1>3. KeptAlive'
  BY <1>1 DEF LoopTick, KeptAlive, Alive, CheckNow
<1>4. CASE Alive /\ ~PingNeeded /\ CheckNow
  <2>1. \A l \in DOMAIN leases' : leases'[l].left \in Int
    BY DEF TypeOK, Entry
  <2>2. \A l \in DOMAIN leases' : leases'[l].left > -PingTimeout
    BY <1>1, <2>1, TimeoutAssumption
  <2>3. TaskInv'
    BY <1>1, <1>4, <2>2, CheckNowInv
  <2> QED
    BY <1>2, <1>3, <2>3
<1>5. CASE ~Alive /\ loop' = "off" /\ UNCHANGED checks
  <2>1. TaskInv'
    BY <1>1, <1>5 DEF TaskInv, OneLoopCheck, TimerBound, LeftBound
  <2> QED
    BY <1>2, <1>3, <2>1
<1>6. CASE Alive /\ PingNeeded /\ loop' = "pinging" /\ UNCHANGED checks
  <2>1. timer' = PingTimeout
    BY <1>6 DEF LoopTick
  <2>2. TaskInv'
    BY <1>1, <1>6, <2>1, TimeoutAssumption DEF TaskInv, OneLoopCheck, TimerBound, LeftBound
  <2> QED
    BY <1>2, <1>3, <2>2
<1> QED
  BY <1>4, <1>5, <1>6 DEF LoopTick

LEMMA PingDoneInv ==
  ASSUME IInv, TypeOK', PingDone
  PROVE  KeptAlive' /\ SessionWhileLeased' /\ TaskInv'
<1>1. KeptAlive' /\ SessionWhileLeased'
  BY DEF PingDone, CheckNow, pool, IInv, KeptAlive, SessionWhileLeased
<1>2. ASSUME NEW l \in DOMAIN leases'
      PROVE  leases'[l].left > -PingTimeout
  <2>1. leases' = leases /\ loop = "pinging"
    BY DEF PingDone, pool
  <2>2. leases[l].left > timer - PingTimeout
    BY <2>1 DEF IInv, TaskInv, LeftBound
  <2>3. leases[l].left \in Int /\ timer \in Nat
    BY <2>1 DEF IInv, TypeOK, Entry
  <2> QED
    BY <2>1, <2>2, <2>3, TimeoutAssumption
<1>3. TaskInv'
  BY <1>2, CheckNowInv DEF PingDone
<1> QED
  BY <1>1, <1>3

LEMMA LoopWakesInv ==
  ASSUME IInv, TypeOK', LoopWakes
  PROVE  KeptAlive' /\ SessionWhileLeased' /\ TaskInv'
<1>1. /\ loop = "asleep" /\ loop' = "due" /\ timer = 0
      /\ UNCHANGED <<leases, session, checks, timer>>
  BY DEF LoopWakes, pool, health
<1>2. KeptAlive' /\ SessionWhileLeased'
  BY <1>1 DEF IInv, KeptAlive, SessionWhileLeased
<1>3. \A l \in DOMAIN leases : leases[l].left > 0 - Grace /\ leases[l].left \in Int
  BY <1>1 DEF IInv, TypeOK, Entry, TaskInv, LeftBound
<1>4. Grace \in Int
  BY TimeoutAssumption, PingAssumption DEF Grace
<1>5. \A l \in DOMAIN leases : leases[l].left > -Grace
  BY <1>3, <1>4
<1>6. \A g \in checks : g.by # Loop
  BY <1>1 DEF IInv, TaskInv, OneLoopCheck
<1>7. TaskInv'
  BY <1>1, <1>5, <1>6 DEF TaskInv, OneLoopCheck, TimerBound, LeftBound
<1> QED
  BY <1>2, <1>7

LEMMA HealthSampledInv ==
  ASSUME IInv, TypeOK', NEW g \in checks, HealthSampled(g)
  PROVE  KeptAlive' /\ SessionWhileLeased' /\ TaskInv'
<1> DEFINE said == [g EXCEPT !.said = worker]
<1>1. /\ checks' = (checks \ {g}) \cup {said}
      /\ UNCHANGED <<leases, session, loop, timer>>
  BY DEF HealthSampled, pool, task
<1>2. said.by = g.by /\ said.age = g.age
  BY DEF IInv, TypeOK, Check
<1>3. KeptAlive' /\ SessionWhileLeased'
  BY <1>1 DEF IInv, KeptAlive, SessionWhileLeased
<1> HIDE DEF said
<1>4. TypeOK /\ TaskInv /\ OneLoopCheck
  BY DEF IInv, TaskInv
<1>5. /\ \A i \in checks' : i.by = Loop => \E h \in checks : h.by = Loop /\ h.age = i.age
      /\ \A i, h \in checks' : i.by = Loop /\ h.by = Loop => i = h
      /\ loop = "checking" => \E i \in checks' : i.by = Loop
  BY <1>1, <1>2, <1>4 DEF OneLoopCheck
<1>6. \A l \in DOMAIN leases' : leases'[l].left >= leases[l].left
  BY <1>1, <1>4 DEF TypeOK, Entry
<1>7. TaskInv'
  BY <1>1, <1>4, <1>5, <1>6, TaskUndisturbed
<1> QED
  BY <1>3, <1>7

\* Steps that are no business of the leases' or the task's.
LEMMA ElsewhereInv ==
  ASSUME IInv, TypeOK', DOMAIN leases' = DOMAIN leases,
         \A l \in DOMAIN leases : leases'[l].left = leases[l].left,
         UNCHANGED <<session, checks, loop, timer>>
  PROVE  KeptAlive' /\ SessionWhileLeased' /\ TaskInv'
<1>1. KeptAlive' /\ SessionWhileLeased'
  BY DEF IInv, KeptAlive, SessionWhileLeased
<1>2. \A l \in DOMAIN leases' : leases'[l].left >= leases[l].left
  BY DEF IInv, TypeOK, Entry
<1>3. TaskInv'
  BY <1>2, TaskUndisturbed DEF IInv, TaskInv, OneLoopCheck
<1> QED
  BY <1>1, <1>3

LEMMA CrashInv ==
  ASSUME Crash
  PROVE  KeptAlive' /\ SessionWhileLeased' /\ TaskInv'
<1>1. DOMAIN leases' = {} /\ ~session' /\ checks' = {} /\ loop' = "off"
  BY NoLeasesType DEF Crash
<1> QED
  BY <1>1
     DEF KeptAlive, SessionWhileLeased, TaskInv, OneLoopCheck, TimerBound, LeftBound

LEMMA StepInv == IInv /\ [Next]_vars => IInv'
<1> SUFFICES ASSUME IInv, [Next]_vars
             PROVE  IInv'
  OBVIOUS
<1>1. TypeOK'
  BY StepType DEF IInv
<1> DEFINE Goal == KeptAlive' /\ SessionWhileLeased' /\ TaskInv'
<1>2. ASSUME NEW r \in Request, NEW l \in Lease, NEW p \in Label \cup {Unlabelled},
             Acquire(r, l, p)
      PROVE  Goal
  BY <1>1, <1>2, AcquireInv
<1>3. ASSUME NEW r \in Request, NEW l \in Lease, Release(r, l)
      PROVE  Goal
  <2>1. Unexpired \ {l} \in SUBSET Unexpired
    OBVIOUS
  <2>2. /\ leases' = Only(Unexpired \ {l}) /\ session' = SessionOf(Unexpired \ {l})
        /\ LookAtHealth(r) /\ UNCHANGED task
    BY <1>3 DEF Release
  <2> QED
    BY <1>1, <2>1, <2>2, DropInv
<1>4. ASSUME NEW r \in Request, Status(r)
      PROVE  Goal
  <2>1. /\ leases' = Only(Unexpired) /\ session' = SessionOf(Unexpired)
        /\ LookAtHealth(r) /\ UNCHANGED task
    BY <1>4 DEF Status
  <2> QED
    BY <1>1, <2>1, DropInv
<1>5. ASSUME NEW r \in Request, RequestStarted(r) \/ RequestFinished(r)
      PROVE  Goal
  <2>1. UNCHANGED <<leases, session, checks, loop, timer>>
    BY <1>5 DEF RequestStarted, RequestFinished, pool, health, task
  <2> QED
    BY <1>1, <2>1, ElsewhereInv
<1>6. ASSUME NEW g \in checks, HealthSampled(g)
      PROVE  Goal
  BY <1>1, <1>6, HealthSampledInv
<1>7. ASSUME NEW g \in checks, HealthAnswered(g)
      PROVE  Goal
  <2>1. (g.said \in Counted) \in BOOLEAN
    OBVIOUS
  <2>2. HealthEnds(g, g.said \in Counted)
    BY <1>7 DEF HealthAnswered
  <2> QED
    BY <1>1, <2>1, <2>2, HealthEndsInv
<1>8. ASSUME NEW g \in checks, HealthFailed(g)
      PROVE  Goal
  <2>1. ready \in BOOLEAN /\ HealthEnds(g, ready)
    BY <1>8 DEF HealthFailed, IInv, TypeOK
  <2> QED
    BY <1>1, <2>1, HealthEndsInv
<1>9. ASSUME LoopTick
      PROVE  Goal
  BY <1>1, <1>9, LoopTickInv
<1>10. ASSUME PingDone
       PROVE  Goal
  BY <1>1, <1>10, PingDoneInv
<1>11. ASSUME LoopWakes
       PROVE  Goal
  BY <1>1, <1>11, LoopWakesInv
<1>12. ASSUME NEW w \in WorkerState, WorkerMoves(w)
       PROVE  Goal
  <2>1. UNCHANGED <<session, checks, loop, timer>>
    BY <1>12 DEF WorkerMoves, health, task
  <2>2. leases' = [l \in DOMAIN leases |-> [leases[l] EXCEPT !.met = @ \/ w \in Up]]
    BY <1>12 DEF WorkerMoves
  <2>3. \A l \in DOMAIN leases : leases'[l].left = leases[l].left
    BY <2>2 DEF IInv, TypeOK, Entry
  <2> QED
    BY <1>1, <2>1, <2>2, <2>3, ElsewhereInv
<1>13. ASSUME Crash
       PROVE  Goal
  BY <1>13, CrashInv
<1>14. ASSUME Tick
       PROVE  Goal
  BY <1>1, <1>14, TickInv
<1>15. ASSUME UNCHANGED vars
       PROVE  Goal
  BY <1>1, <1>15, ElsewhereInv DEF vars, pool, health, task
<1>16. Goal
  BY <1>2, <1>3, <1>4, <1>5, <1>6, <1>7, <1>8, <1>9, <1>10, <1>11, <1>12, <1>13, <1>14,
     <1>15 DEF Next
<1> QED
  BY <1>1, <1>16 DEF IInv

LEMMA Invariant == Spec => []IInv
BY InitInv, StepInv, PTL DEF Spec

-----------------------------------------------------------------------------
(***************************************************************************)
(* What follows                                                            *)
(***************************************************************************)

\* No lease is left without the task that keeps its worker up: whatever the
\* interleaving of acquires, releases, prunes and the task's own end.
THEOREM LeasesAreKeptAlive == Spec => []KeptAlive
<1>1. IInv => KeptAlive
  BY DEF IInv
<1> QED
  BY <1>1, Invariant, PTL

\* The session's clock runs while, and only while, somebody holds a lease.
THEOREM SessionsAreLeases == Spec => []SessionWhileLeased
<1>1. IInv => SessionWhileLeased
  BY DEF IInv
<1> QED
  BY <1>1, Invariant, PTL

\* A lapsed lease is gone within a ping's timeout, a check's and a sleep, though
\* nobody asks: the task's place says how long ago it pruned.
THEOREM LapsesAreShort == Spec => []LapseBounded
<1>1. ASSUME IInv
      PROVE  LapseBounded
  <2> SUFFICES ASSUME NEW l \in DOMAIN leases
               PROVE  leases[l].left > -Grace
    BY DEF LapseBounded
  <2>1. leases[l].left \in Int /\ timer \in Nat
    BY <1>1 DEF IInv, TypeOK, Entry
  <2>2. loop \in {"due", "pinging", "checking", "asleep"}
    BY <1>1 DEF IInv, TypeOK, KeptAlive, Phase
  <2>3. CASE loop = "checking"
    <3>1. PICK g \in checks : g.by = Loop
      BY <1>1, <2>3 DEF IInv, TaskInv, OneLoopCheck
    <3>2. g.age \in 0..HealthTimeout /\ leases[l].left > -(PingTimeout + g.age)
      BY <1>1, <3>1 DEF IInv, TypeOK, Check, TaskInv, LeftBound
    <3> QED
      BY <2>1, <3>2, TimeoutAssumption, PingAssumption DEF Grace
  <2>4. CASE loop # "checking"
    <3>1. \/ leases[l].left > timer - PingTimeout
          \/ leases[l].left > timer - Grace
          \/ leases[l].left > -Grace
      BY <1>1, <2>2, <2>4 DEF IInv, TaskInv, LeftBound
    <3> QED
      BY <2>1, <3>1, TimeoutAssumption, PingAssumption DEF Grace
  <2> QED
    BY <2>3, <2>4
<1> QED
  BY <1>1, Invariant, PTL

\* The requests at work are finitely many, and counted.
InflightInv == IsFiniteSet(serving) /\ inflight = Cardinality(serving)

\* A request that starts or ends is one more or one less, and is counted as one.
LEMMA InflightStep == TypeOK /\ InflightInv /\ [Next]_vars => InflightInv'
<1> SUFFICES ASSUME TypeOK, InflightInv, [Next]_vars
             PROVE  InflightInv'
  OBVIOUS
<1>1. ASSUME NEW r \in Request, RequestStarted(r)
      PROVE  InflightInv'
  <2>1. r \notin serving /\ serving' = serving \cup {r} /\ inflight' = inflight + 1
    BY <1>1 DEF RequestStarted, Busy
  <2> QED
    BY <2>1, FS_AddElement DEF InflightInv
<1>2. ASSUME NEW r \in Request, RequestFinished(r)
      PROVE  InflightInv'
  <2>1. r \in serving /\ serving' = serving \ {r}
    BY <1>2 DEF RequestFinished
  <2>2. IsFiniteSet(serving \ {r}) /\ Cardinality(serving \ {r}) = Cardinality(serving) - 1
    BY <2>1, FS_RemoveElement DEF InflightInv
  <2>3. Cardinality(serving \ {r}) \in Nat /\ inflight \in Nat /\ inflight = Cardinality(serving)
    BY <2>2, FS_CardinalityType DEF InflightInv, TypeOK
  <2>4. inflight' = inflight - 1
    BY <1>2, <2>2, <2>3 DEF RequestFinished
  <2> QED
    BY <2>1, <2>2, <2>3, <2>4 DEF InflightInv
<1>3. CASE Crash
  BY <1>3, FS_EmptySet DEF Crash, InflightInv
<1>4. CASE UNCHANGED <<serving, inflight>>
  BY <1>4 DEF InflightInv
<1>5. ASSUME NEW r \in Request, NEW l \in Lease,
             \/ \E p \in Label \cup {Unlabelled} : Acquire(r, l, p)
             \/ Release(r, l)
             \/ Status(r)
      PROVE  UNCHANGED <<serving, inflight>>
  BY <1>5 DEF Acquire, Release, Status, activity
<1>6. ASSUME NEW g \in checks, HealthSampled(g) \/ HealthAnswered(g) \/ HealthFailed(g)
      PROVE  UNCHANGED <<serving, inflight>>
  BY <1>6 DEF HealthSampled, HealthAnswered, HealthFailed, HealthEnds, activity
<1>7. ASSUME \/ LoopTick \/ PingDone \/ LoopWakes \/ Tick
             \/ \E w \in WorkerState : WorkerMoves(w)
             \/ \E r \in Request : Status(r)
             \/ UNCHANGED vars
      PROVE  UNCHANGED <<serving, inflight>>
  BY <1>7 DEF LoopTick, PingDone, LoopWakes, Tick, WorkerMoves, Status, vars, activity
<1> QED
  BY <1>1, <1>2, <1>3, <1>4, <1>5, <1>6, <1>7 DEF Next

\* The count of requests in flight is the number of requests in flight, so it never
\* drifts; and the task never has two checks in flight.
THEOREM AccountsAreRight == Spec => []AccountsMatch
<1>1. Init => InflightInv
  BY FS_EmptySet DEF Init, InflightInv
<1>2. ASSUME IInv, InflightInv
      PROVE  AccountsMatch
  <2> DEFINE own == {g \in checks : g.by = Loop}
  <2>1. CASE loop = "checking"
    <3>1. PICK g \in checks : g.by = Loop
      BY <1>2, <2>1 DEF IInv, TaskInv, OneLoopCheck
    <3>2. own = {g}
      BY <1>2, <3>1 DEF IInv, TaskInv, OneLoopCheck
    <3> QED
      BY <1>2, <2>1, <3>2, FS_Singleton DEF InflightInv, AccountsMatch
  <2>2. CASE loop # "checking"
    <3>1. own = {}
      BY <1>2, <2>2 DEF IInv, TaskInv, OneLoopCheck
    <3> QED
      BY <1>2, <2>2, <3>1, FS_EmptySet DEF InflightInv, AccountsMatch
  <2> QED
    BY <2>1, <2>2
<1>3. IInv => TypeOK
  BY DEF IInv
<1> QED
  BY <1>1, <1>2, <1>3, InflightStep, Invariant, PTL DEF Spec

=============================================================================
