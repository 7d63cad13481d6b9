------------------------------ MODULE WarmPool ------------------------------
(***************************************************************************)
(* `WarmPool` of warm.py: leases on a warm worker, and the keepalive task   *)
(* that honours them.                                                      *)
(*                                                                         *)
(* Everything runs on one event loop, and `_lock` is never held over an     *)
(* await, so an action is what runs between two awaits: of RunPod's health, *)
(* of a keepalive ping, of the task's sleep.  The code reads its clock only *)
(* to take differences; here a lease carries the time it has left, and the  *)
(* other moments their age, up to the point where more makes no difference. *)
(* What can run runs before time passes, and no call to RunPod outlasts the *)
(* timeout it was given.                                                    *)
(***************************************************************************)
EXTENDS Integers, FiniteSets

CONSTANTS Lease,         \* lease ids: uuids, or whatever clients send
          Label,         \* whom leases are metered to: pubkeys, once signed
          Unlabelled,    \* the empty label
          Request,       \* bound: the handlers at work at a time
          Loop,          \* the keepalive task, where a handler is named
          LeaseTtl,      \* lease_ttl_s
          PingInterval,  \* ping_interval_s
          HealthCache,   \* HEALTH_CACHE_S
          PingTimeout,   \* PING_TIMEOUT_S
          HealthTimeout  \* the timeout of a health check

ASSUME TtlAssumption == LeaseTtl \in Nat \ {0}
ASSUME PingAssumption == PingInterval \in Nat \ {0}
ASSUME TimeoutAssumption ==
  /\ HealthCache \in Nat
  /\ PingTimeout \in Nat \ {0}
  /\ HealthTimeout \in Nat \ {0}
  /\ HealthCache <= HealthTimeout
ASSUME NameAssumption == Loop \notin Request /\ Unlabelled \notin Label

VARIABLES leases,    \* `_leases`
          session,   \* `_session_started` is set
          ready,     \* `_workers_ready` > 0
          checked,   \* age of `_health_checked_at`, HealthCache at most
          quiet,     \* age of `_last_activity`, PingInterval at most
          inflight,  \* `_inflight`
          loop,      \* where the keepalive task is
          timer,     \* what is left of its sleep, or of its ping's timeout
          checks,    \* GETs of RunPod's /health in flight
          serving,   \* tool requests between request_started and _finished
          worker     \* what the worker is at (RunPod's state, not ours)

pool == <<leases, session>>
health == <<ready, checked, checks>>
activity == <<quiet, inflight, serving>>
task == <<loop, timer>>
vars == <<pool, health, activity, task, worker>>

WorkerState == {"asleep", "initializing", "idle", "running"}

\* The states in which a worker takes a request without a wait.
Up == {"idle", "running"}

\* The longest a lapsed lease can wait for the task to prune it: a ping, a health
\* check and a sleep.
Grace == PingTimeout + HealthTimeout + PingInterval

\* A lease in the table.  It has lapsed when nothing is left; below zero, by how
\* much.  `met` is a history of ours: has the worker been up at some moment since
\* the lease was acquired?
Entry == [left : Int, label : Label \cup {Unlabelled}, met : BOOLEAN]

\* What the keepalive task is at.  "off": there is none, or it is done.  "due": a
\* tick is about to run.
Phase == {"off", "due", "pinging", "checking", "asleep"}

\* A GET: whose, how long ago it was begun, and what it found, once it has.
Check == [by : Request \cup {Loop}, age : 0..HealthTimeout,
          said : WorkerState \cup {"nothing"}]

TypeOK ==
  /\ DOMAIN leases \subseteq Lease
  /\ leases \in [DOMAIN leases -> Entry]
  /\ session \in BOOLEAN
  /\ ready \in BOOLEAN
  /\ checked \in 0..HealthCache
  /\ checks \subseteq Check
  /\ quiet \in 0..PingInterval
  /\ inflight \in Nat
  /\ serving \subseteq Request
  /\ loop \in Phase
  /\ timer \in Nat
  /\ worker \in WorkerState

NoLeases == [l \in {} |-> l]

Init ==
  /\ leases = NoLeases
  /\ session = FALSE
  /\ ready = FALSE
  /\ checked = HealthCache
  /\ checks = {}
  /\ quiet = PingInterval
  /\ inflight = 0
  /\ serving = {}
  /\ loop = "off"
  /\ timer = 0
  /\ worker = "asleep"

Busy(r) == r \in serving \/ \E g \in checks : g.by = r

-----------------------------------------------------------------------------
(***************************************************************************)
(* Leases                                                                  *)
(***************************************************************************)
Only(S) == [l \in S |-> leases[l]]

\* Mutant: a lease lapses one moment after its last.
UnexpiredLate == {l \in DOMAIN leases : leases[l].left >= 0}

\* `_prune` keeps these.
Unexpired == {l \in DOMAIN leases : leases[l].left > 0}

\* Mutant: emptying the table does not end the session.
SessionKept(S) == session

\* `_prune` ends the session when it leaves no lease.
SessionOf(S) == session /\ S # {}

\* `_ensure_loop`.
EnsureLoop ==
  IF loop = "off" THEN loop' = "due" /\ UNCHANGED timer ELSE UNCHANGED task

\* `_get_health` of a handler: the cached count will do if it is fresh enough.
LookAtHealth(r) ==
  /\ IF checked < HealthCache
       THEN UNCHANGED checks
       ELSE checks' = checks \cup {[by |-> r, age |-> 0, said |-> "nothing"]}
  /\ UNCHANGED <<ready, checked>>

\* `acquire`: a lease of this id is renewed, or made.
Acquire(r, l, p) ==
  /\ ~Busy(r)
  /\ LET known == l \in Unexpired
         entry == [left  |-> LeaseTtl,
                   label |-> IF known /\ p = Unlabelled THEN leases[l].label ELSE p,
                   met   |-> worker \in Up \/ (known /\ leases[l].met)]
     IN  /\ leases' = [i \in Unexpired \cup {l} |-> IF i = l THEN entry ELSE leases[i]]
         /\ session' = (SessionOf(Unexpired) \/ ~known)
  /\ EnsureLoop
  /\ LookAtHealth(r)
  /\ UNCHANGED <<activity, worker>>

\* `release`, which ends as `status` does.
Release(r, l) ==
  /\ ~Busy(r)
  /\ leases' = Only(Unexpired \ {l})
  /\ session' = SessionOf(Unexpired \ {l})
  /\ LookAtHealth(r)
  /\ UNCHANGED <<activity, task, worker>>

\* `status`.
Status(r) ==
  /\ ~Busy(r)
  /\ leases' = Only(Unexpired)
  /\ session' = SessionOf(Unexpired)
  /\ LookAtHealth(r)
  /\ UNCHANGED <<activity, task, worker>>

-----------------------------------------------------------------------------
(***************************************************************************)
(* Health                                                                  *)
(***************************************************************************)

\* RunPod looks at its worker.
HealthSampled(g) ==
  /\ g \in checks
  /\ g.said = "nothing"
  /\ checks' = (checks \ {g}) \cup {[g EXCEPT !.said = worker]}
  /\ UNCHANGED <<pool, ready, checked, activity, task, worker>>

\* Mutant: a worker busy with our own keepalive does not count.
CountedIdle == {"idle"}

\* `_get_health` adds up the workers in these states.
Counted == {"idle", "running"}

\* `_get_health` resumes, with the count it believes in from now on.  What it
\* cached dates from when the GET was begun.  The task goes to sleep.
HealthEnds(g, found) ==
  /\ g \in checks
  /\ checks' = checks \ {g}
  /\ ready' = found
  /\ checked' = IF g.age < HealthCache THEN g.age ELSE HealthCache
  /\ IF g.by = Loop THEN loop' = "asleep" /\ timer' = PingInterval ELSE UNCHANGED task
  /\ UNCHANGED <<pool, activity, worker>>

HealthAnswered(g) == g.said # "nothing" /\ HealthEnds(g, g.said \in Counted)

\* It timed out, or RunPod answered with an error: the old count stays.
HealthFailed(g) == HealthEnds(g, ready)

\* The leases `_notify_warm` passes to on_warm at the end of a check, if any.
Notified ==
  IF ready' /\ \E g \in checks : HealthAnswered(g) \/ HealthFailed(g)
    THEN {l \in DOMAIN leases : leases[l].label # Unlabelled}
    ELSE {}

-----------------------------------------------------------------------------
(***************************************************************************)
(* The keepalive task                                                      *)
(***************************************************************************)
CheckNow ==
  /\ loop' = "checking"
  /\ checks' = checks \cup {[by |-> Loop, age |-> 0, said |-> "nothing"]}

\* Mutant: a tool request in flight is taken for a worker at work, though its job may
\* be waiting in RunPod's queue.
PingNeededAtRest == inflight = 0 /\ quiet >= PingInterval

\* `_ping_needed`.
PingNeeded == quiet >= PingInterval

\* Mutants: a tick that has nothing to ping for ends the loop; the loop is a
\* `while True`.
AliveIfPinging == Unexpired # {} /\ PingNeeded
AlwaysAlive == TRUE

\* `_tick` found leases to keep alive.
Alive == Unexpired # {}

\* `_tick` up to its first await.
LoopTick ==
  /\ loop = "due"
  /\ leases' = Only(Unexpired)
  /\ session' = SessionOf(Unexpired)
  /\ \/ ~Alive /\ loop' = "off" /\ UNCHANGED checks
     \/ Alive /\ PingNeeded /\ loop' = "pinging" /\ UNCHANGED checks
     \/ Alive /\ ~PingNeeded /\ CheckNow
  /\ timer' = IF loop' = "pinging" THEN PingTimeout ELSE 0
  /\ UNCHANGED <<ready, checked, activity, worker>>

\* The ping has been answered, or has failed or timed out: all the same.
PingDone ==
  /\ loop = "pinging"
  /\ CheckNow
  /\ timer' = 0
  /\ UNCHANGED <<pool, ready, checked, activity, worker>>

LoopWakes ==
  /\ loop = "asleep"
  /\ timer = 0
  /\ loop' = "due"
  /\ UNCHANGED <<pool, health, activity, timer, worker>>

-----------------------------------------------------------------------------
(***************************************************************************)
(* Requests, the worker, the process and the clock                         *)
(***************************************************************************)
RequestStarted(r) ==
  /\ ~Busy(r)
  /\ serving' = serving \cup {r}
  /\ inflight' = inflight + 1
  /\ quiet' = 0
  /\ UNCHANGED <<pool, health, task, worker>>

\* Mutants: an error skips request_finished; it runs for a request that never
\* started, and counts below zero.
RequestLeaks(r) ==
  /\ r \in serving
  /\ serving' = serving \ {r}
  /\ quiet' = 0
  /\ UNCHANGED <<pool, health, inflight, task, worker>>

RequestUnpaired(r) ==
  /\ serving' = serving \ {r}
  /\ inflight' = inflight - 1
  /\ quiet' = 0
  /\ UNCHANGED <<pool, health, task, worker>>

RequestFinished(r) ==
  /\ r \in serving
  /\ serving' = serving \ {r}
  /\ inflight' = IF inflight > 0 THEN inflight - 1 ELSE 0
  /\ quiet' = 0
  /\ UNCHANGED <<pool, health, task, worker>>

\* RunPod moves its worker about as it likes.
WorkerMoves(w) ==
  /\ worker' = w
  /\ leases' = [l \in DOMAIN leases |->
                  [leases[l] EXCEPT !.met = @ \/ w \in Up]]
  /\ UNCHANGED <<session, health, activity, task>>

\* The proxy dies and starts again: leases live in memory only.
Crash ==
  /\ leases' = NoLeases
  /\ session' = FALSE
  /\ ready' = FALSE
  /\ checked' = HealthCache
  /\ checks' = {}
  /\ quiet' = PingInterval
  /\ inflight' = 0
  /\ serving' = {}
  /\ loop' = "off"
  /\ timer' = 0
  /\ UNCHANGED worker

Older(age, limit) == IF age < limit THEN age + 1 ELSE limit
Less(n) == IF n > 0 THEN n - 1 ELSE 0

\* Time passes when the task is waiting, and every wait may last a moment more.
Patience ==
  /\ loop # "due"
  /\ loop \in {"pinging", "asleep"} => timer > 0
  /\ \A g \in checks : g.age < HealthTimeout

Tick ==
  /\ Patience
  /\ leases' = [l \in DOMAIN leases |-> [leases[l] EXCEPT !.left = @ - 1]]
  /\ checked' = Older(checked, HealthCache)
  /\ checks' = {[g EXCEPT !.age = @ + 1] : g \in checks}
  /\ quiet' = Older(quiet, PingInterval)
  /\ timer' = Less(timer)
  /\ UNCHANGED <<session, ready, inflight, serving, loop, worker>>

HealthDone(b) == \E g \in checks : g.by = b /\ (HealthAnswered(g) \/ HealthFailed(g))

Next ==
  \/ \E r \in Request, l \in Lease :
       \/ \E p \in Label \cup {Unlabelled} : Acquire(r, l, p)
       \/ Release(r, l)
  \/ \E r \in Request : Status(r) \/ RequestStarted(r) \/ RequestFinished(r)
  \/ \E g \in checks : HealthSampled(g) \/ HealthAnswered(g) \/ HealthFailed(g)
  \/ LoopTick \/ PingDone \/ LoopWakes
  \/ \E w \in WorkerState : WorkerMoves(w)
  \/ Crash
  \/ Tick

Spec == Init /\ [][Next]_vars

Sampled(b) == \E g \in checks : g.by = b /\ HealthSampled(g)
Answered(b) == \E g \in checks : g.by = b /\ HealthAnswered(g)

\* Time passes, the event loop runs the task whenever it can run, and every call to
\* RunPod ends: the timeouts see to that.  RunPod's health endpoint is not out of
\* order for ever.
Fairness ==
  /\ WF_vars(Tick)
  /\ WF_vars(LoopTick) /\ WF_vars(PingDone) /\ WF_vars(LoopWakes)
  /\ \A b \in Request \cup {Loop} : WF_vars(HealthDone(b))
  /\ SF_vars(Sampled(Loop)) /\ SF_vars(Answered(Loop))

LiveSpec == Spec /\ Fairness

-----------------------------------------------------------------------------
(***************************************************************************)
(* Properties                                                              *)
(***************************************************************************)

\* While there is a lease, the keepalive task is there to honour it, however its
\* tick, its awaits and its end interleave with acquires, releases and prunes
\* (_tick, _run, _ensure_loop): no wake-up is lost.
KeptAlive == DOMAIN leases # {} => loop # "off"

\* A session is on exactly while there is a lease, so elapsed_s never counts from
\* a session that is over (acquire, release, _prune).
SessionWhileLeased == session <=> DOMAIN leases # {}

\* The task has one health check in flight when it waits for one and none
\* otherwise, and its requests in flight are counted right.
AccountsMatch ==
  /\ inflight = Cardinality(serving)
  /\ Cardinality({g \in checks : g.by = Loop}) = IF loop = "checking" THEN 1 ELSE 0

\* A lapsed lease is on the books for less than Grace, though no client ever asks
\* again and the task is stuck in a ping of a cold start: the task prunes it.
LapseBounded == \A l \in DOMAIN leases : leases[l].left > -Grace

\* A warm worker is noticed: while one stays up for whoever holds a lease, the pool
\* finds out, be it idle or busy with our own pings (_get_health: counting only
\* `ready` left a client at "warming" for nine minutes).
WarmIsNoticed == <>[](worker \in Up /\ DOMAIN leases # {}) => []<>ready

\* The task winds down when nobody holds a lease any more, so that the worker can
\* sleep ("stopped; worker sleeps on its own", warm.py:332).
LoopWindsDown == []<>(DOMAIN leases # {} \/ loop = "off")

\* "Called with the labels of every held lease" (warm.py:122), and "a window the
\* artist paid for must not start ticking against a worker that never arrived"
\* (warm.py:124-125): a lease that on_warm is told of is, of these two, at least one
\* thing, still held or one whose worker has been up since it was acquired.
NoWindowForNothing ==
  [][\A l \in Notified : leases[l].left > 0 \/ leases[l].met]_vars

=============================================================================
