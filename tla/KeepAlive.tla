----------------------------- MODULE KeepAlive ------------------------------
(***************************************************************************)
(* WarmPool with the clock that its keepalive is there for: RunPod stops a  *)
(* worker that has had no job for `idleTimeout`.                            *)
(*                                                                         *)
(* `idle` measures what the proxy can know of that: how long ago it handed  *)
(* RunPod a job, or had one back.  A tool request in flight does not stop   *)
(* the clock, as its job may be waiting in RunPod's queue, next to an idle  *)
(* worker (_ping_needed); the pool's own ping does, until it is answered,   *)
(* fails or times out.                                                      *)
(***************************************************************************)
EXTENDS WarmPool

CONSTANT IdleTimeout   \* IDLE_TIMEOUT_S

\* How long, while somebody held a lease, RunPod has had no news of a job from us.
VARIABLE idle

keptVars == <<vars, idle>>

KeepInit == Init /\ idle = 0

\* A job goes to RunPod: a ping of the task, or a tool request.
JobGiven == (LoopTick /\ loop' = "pinging") \/ \E r \in Request : RequestStarted(r)

\* One is over, whatever became of it.
JobOver == PingDone \/ \E r \in Request : RequestFinished(r)

\* The steps of the pool, of RunPod and of the process that have to do with no job.
Elsewhere ==
  \/ \E r \in Request, l \in Lease :
       \/ \E p \in Label \cup {Unlabelled} : Acquire(r, l, p)
       \/ Release(r, l)
  \/ \E r \in Request : Status(r)
  \/ \E g \in checks : HealthSampled(g) \/ HealthAnswered(g) \/ HealthFailed(g)
  \/ LoopTick /\ loop' # "pinging"
  \/ LoopWakes
  \/ \E w \in WorkerState : WorkerMoves(w)
  \/ Crash

\* Nobody is owed a worker, or the task has given it a job.
Covered == Unexpired = {} \/ loop = "pinging"

KeepNext ==
  \/ (JobGiven \/ JobOver) /\ idle' = 0
  \/ Elsewhere /\ UNCHANGED idle
  \/ Tick /\ idle' = IF Covered THEN 0 ELSE idle + 1

KeepSpec == KeepInit /\ [][KeepNext]_keptVars

KeepLiveSpec == KeepSpec /\ Fairness

\* RunPod at its best: no time passes while it is asked something, or while the worker
\* is down.
AtItsBest == checks = {} /\ loop # "pinging" /\ worker \in Up
PromptNext == KeepNext /\ (Tick => AtItsBest)
PromptSpec == KeepInit /\ [][PromptNext]_keptVars

\* What the keepalive does achieve, with a RunPod as slow, as busy or as broken as it
\* may be: whoever holds a lease, no two intervals and a health check pass without a
\* job handed to RunPod or had back.  One interval is the sleep that a request has cut
\* into, one the sleep that it has cost, and the check comes in between.
GapBounded == idle < 2 * PingInterval + HealthTimeout

\* "So: while a lease is held, keep pinging" (warm.py:299): a worker that somebody
\* holds a lease on, with no request under way, is never left without a job for as
\* long as its idle timeout.
HeldWorkerStaysUp == Unexpired # {} /\ serving = {} => idle < IdleTimeout

=============================================================================
