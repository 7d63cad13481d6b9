# Verification of hvym-img-tools

TLA+ models of the parts of `hvym-img-tools` that decide who pays for GPU time
and who is kept warm, and of the processes that run the tools, TLC configurations
that check them on small instances, and TLAPS proofs of what matters most for every
instance. Paths below are relative to the repository (`src/` here); `billing.py`,
`warm.py`, `proxy.py`, `serverless.py`, `core/`, `tools/` and `backbones/` are in
`hvym_img_tools/`.

    tlc -workers 2 -config MCBilling.cfg MCBilling
    tlapm BillingProofs.tla

## 1. The system

A small always-on **proxy** stands between artists' clients and GPU **workers**
on RunPod that scale to zero. A cold worker takes minutes to start, so a client
may hold a **lease**, and while leases are held the proxy sends keepalive jobs.
Warm time is what artists pay for: a client is refused (HTTP 402) with a quote,
pays it on the Stellar ledger itself, submits the transaction's hash, and gets a
window of time. The window starts when the worker is warm, or when a call has
been served.

| Component | State it keeps | Operations | Talks to | What makes it correct |
|---|---|---|---|---|
| `WindowStore` (billing.py:188-338) | SQLite tables `paid`, `consumed_tx`, `quotes`; outlives the process | `entitled`, `credit_for_tx`, `settle`, `issue_quote`, `quote`, one transaction each | called by `Billing` only | one payment, one window; time neither lost nor made up; a memo that was handed out stays good for its time |
| `Billing` (442-623) | configuration, an open store | `require`, `challenge`, `settle_payment` (awaits Horizon), `on_served`, `on_warm` | routes; `Horizon`; called back by every `WarmPool` | credits are paid for by the identity they go to; retries are safe; a window starts once |
| `Horizon` (342-438) | nothing but a cached network check | `verify_payment`: two GETs | Stellar's Horizon | one operation meets every condition |
| `WarmPool` (warm.py) | in memory: leases, session start, worker count and its age, requests in flight, last activity; one asyncio task | `acquire`, `release`, `status`, `request_started/finished`; `_tick`, `_get_health`, `_notify_warm` | RunPod's `/health`, `/runsync`; calls `Billing.on_warm` | the task is there while, and only while, it is needed; lapsed leases go; warmth is neither missed nor made up |
| Proxy routes, tool call (proxy.py) | one pool per endpoint; nothing else between requests | `POST/GET/DELETE /warm`, `POST /warm/pay`, `POST /tools/{name}` (run, poll until done or out of budget) | all of the above | only entitled callers are served, counts are paired, a stuck job is given up in time |
| `IdentityVerifier` (core/identity.py) | nonces seen, in memory | `verify` | routes | a signed request is accepted once, while fresh |
| Serverless worker (serverless.py) | context, tools, models | `init`, `handler` | result cache, models, tools | every job is answered; a keepalive costs nothing |
| `ResultCache` (core/cache.py) | files; a network volume may be shared by workers | `get`, `put`, `clear` | file system | a reader sees a whole result with its type |
| `ModelCache` (core/models.py) | loaders, models, one lock per key | `get`, `warm`, `register`, `evict` | thread pool of the direct server | each model is loaded once |
| Direct server (core/server.py) | the same, and one event loop over a pool of threads | `create_app`, tool routes, `_handle`, `_finish` | the same | the same, with threads: every request is answered |
| Registry, tool contract (core/registry.py, core/tool.py) | tools that could be imported; filled once | `discover`, `register`; `models_needed`, `cache_key_parts` | worker, server | what cannot be imported is left out; requests that differ have keys that differ |
| Tools and backbones (tools/, backbones/) | random numbers of the process; remembered voices, one lock per speaking model | `run`, `warmup`, `synthesize`, `VoiceMemory.use` | `ModelCache` | a seed makes a take reproducible; a line comes in its own voice |
| API-key check, configuration (core/auth.py, core/config.py) | read at start-up | | every route | a call without a key changes nothing |
| Meshes, splats, images, audio | none | numerical functions | | out of a model checker's reach |
| Operator's switch, CLI, deployment scripts | one-shot programs | | | pure I/O |

Four things make this hard to test. **Awaits**: `settle_payment` reads a quote
and a clock, awaits Horizon for up to half a minute, and uses both afterwards;
the pool awaits health checks and pings (up to 90 s, longer than a lease's
60 s) while handlers change the table. **Crashes**: the meter's tables survive
the process, leases and in-flight submissions do not. **Time**: quotes, windows,
leases, the cached worker count and the keepalive all run out on clocks of their
own. On the workers' side it is **threads and files**: a server's threads share models, a voice
and one stream of random numbers, and workers that know nothing of each other write to
one volume. `PROJECT.json` lists each such hazard at its line, with the properties that
cover it.

## 2. The modules

| Module | What it is |
|---|---|
| `PaidTime` | abstract specification of the meter: payments buy windows, waiting time starts, running time runs out |
| `WindowStore` | the store's methods as operators and table actions; not a state machine of its own |
| `Billing` | extends `WindowStore` with Horizon, the ledger, the routes, grants, crashes and the clock |
| `BillingProofs` | TLAPS proofs about `Billing`, for every value of the constants |
| `WarmPool` | leases, health checks, the keepalive task, the worker, crashes and the clock |
| `WarmPoolProofs` | TLAPS proofs about `WarmPool` |
| `Identity` | `verify` over wallets' and the proxy's clocks, an unreliable network, the replay cache, restarts |
| `IdentityProofs` | TLAPS proofs about `Identity` |
| `KeepAlive` | extends `WarmPool` with the time since RunPod last had news of a job |
| `KeepAliveProofs` | TLAPS proofs about `KeepAlive`, on top of `WarmPool`'s invariant |
| `Price` | what a window costs, in decimals of a given precision |
| `Proxy` | the routes over what their parts promise: `PaidTime` (INSTANCE), a table of leases per endpoint, tool calls |
| `ProxyProofs` | TLAPS proofs about `Proxy` |
| `FailedCalls` | extends `Proxy` with what each tool call is told in the end |
| `Tools` | which requests are valid, which models each tool declares, warms and fetches |
| `CacheKeys` | `cache_key_parts` and `hash_parts` as operators |
| `ResultCache` | the directory of results: `get` and each step of `put` |
| `ModelCache` | the models and locks of each process |
| `ModelLoads` | abstract specification of `ModelCache`: loads that do not overlap, and happen once |
| `Voices` | random numbers, voices and their locks, per process |
| `Worker` | the state machine of workers and servers; INSTANCEs `ResultCache`, `ModelCache`, `Voices`, extends `Tools` |
| `WorkerProofs` | TLAPS proofs about `Worker`'s threads, models and voices |
| `WorkerCacheProofs` | TLAPS proofs about the directory that workers share, on top of `WorkerProofs` |
| `MCBilling`, `MCWarmPool`, `MCIdentity`, `MCProxy`, `MCFailedCalls`, `MCWorker` | constants, symmetry and bounded requests for TLC |

### Billing

`paid`, `consumed`, `quotes` are the three tables. `minted` remembers every
quote ever issued (the code draws memos with `secrets.token_hex(8)` and never draws one
twice; the model neither). `chain` is the ledger as Horizon serves it. `settling`
holds what a `POST /warm/pay` keeps over its await of Horizon: the quote, the hash and the
clock it read. `calls` holds tool calls that were admitted and are not answered.

| Action | Code |
|---|---|
| `Submit` | a wallet broadcasts a transaction with some memo the proxy has handed out (external) |
| `PayNamed`, `PayFallback`, `PayForeign` | `settle_payment` up to the await: the named quote is live and ours; there is none; it is somebody else's |
| `PayCredited`, `PayRepeated` | Horizon confirms; `credit_for_tx` returns True, or False |
| `PayMismatch`, `PayUnverifiable`, `PayDropped` | `PaymentInvalid` from a known transaction; from a missing one, an error or a wrong network; an exception of httpx that nobody catches |
| `Admit`, `Refuse` | `Billing.require`, with the challenge of the 402 |
| `CallServed`, `CallFailed` | `on_served`, or an error before it |
| `WorkerWarm(P)` | `on_warm` with any set of labels |
| `Restart(a)` | the process dies and starts again, its price may have changed; tables stay |
| `Tick` | time |

Every route runs on one event loop and every store method holds one lock over
one SQLite transaction, so an action is what runs between two awaits. A payment
body is a set of payment operations (to us or not, our asset or not, amount,
payer); a transaction hash is a pair of a transaction and a spelling, because
`consumed_tx` is keyed by the text.

### WarmPool

A lease carries the time it has `left`, negative once it has lapsed and nobody
has pruned it. `checked` and `quiet` are the ages of the health check and of the last
activity, counted only as far as they matter. `checks` are GETs in flight, `loop` is where the
keepalive task stands, `timer` what is left of its sleep or of its ping's timeout.
`worker` is what RunPod's worker is at; it moves as it likes. `met`, in each
lease, is a history variable: has the worker been up since the lease was
acquired? Only `NoWindowForNothing` reads it.

| Action | Code |
|---|---|
| `Acquire`, `Release`, `Status` | the methods up to their await of the health check (`release` ends in `status`) |
| `HealthSampled` | RunPod looks at its worker (external) |
| `HealthAnswered`, `HealthFailed` | `_get_health` after its await; the caller's continuation and `_notify_warm` are the same step |
| `LoopTick`, `PingDone`, `LoopWakes` | `_tick` up to its first await, after the ping, and `_run`'s sleep over |
| `RequestStarted`, `RequestFinished` | the two methods |
| `WorkerMoves` | RunPod's scheduler (external) |
| `Crash` | the proxy dies; everything in memory is as `__init__` leaves it |
| `Tick` | time, when nothing is due: no await outlasts its timeout |

`_lock` is never held over an await, so it never makes anyone wait and is not
modelled. `shutdown` cancels the task when the process ends; `Crash` ends it more
abruptly.

### Identity

`verify` awaits nothing, so a delivery is one step of its own. `signed` holds what wallets
have signed: who, for which request (method, path, tool and lease are one
`target`), at which time of the wallet's clock, with which nonce. Any of it may be delivered
at any time, any number of times, under any wallet's name, on any request. `seen` is `_seen`.
`accepted` is a history variable of this process.

| Action | Code |
|---|---|
| `Sign` | a wallet signs a request, its clock between `Behind` behind and `Ahead` ahead of the proxy's (external) |
| `Accept` | `verify` returns an identity: checks 1-6 pass, `_prune`, the nonce is taken |
| `RefuseUsed` | it has pruned and finds the nonce |
| `RefuseEarly` | checks 1-5 fail: nothing is touched |
| `Restart` | a new `IdentityVerifier` |
| `Tick` | time |

Envelope, base64, strkey and Ed25519 are one condition, `Bound`: the wallet that is named made
this signature, for this request.

### KeepAlive

`WarmPool` beside the clock its pings are there for. `idle` measures what the proxy can know of the worker's idle
time: how long ago it handed RunPod a job, or had one back, while somebody holds a lease. A tool request in flight does
not stop it: its job may wait in RunPod's queue beside an idle worker, which is why `_ping_needed` looks at the clock alone.
The pool's own ping does stop it, until it is answered, fails or times out.

Every step is one of `WarmPool`'s, so that its proofs hold here too, and RunPod is as slow, as busy and as
broken as there: `JobGiven` (a ping or a tool request leaves), `JobOver` (it is over, whatever became of it), `Elsewhere`
(everything else), and `Tick`. `KeepSpec` allows all of that; `KeepLiveSpec` adds `WarmPool`'s fairness. `PromptSpec` keeps RunPod at its
best (the worker is up, no time passes over a check or a ping) and is only what `keepalive_gap` is found
under, to show that RunPod has no part in it.

### Proxy

Composes what the other modules show of their parts. The meter is `PaidTime`, which `Billing` is
proved to implement. A signature is the wallet it names, or `Nobody`. A pool is its table of leases and
its count of requests; `by` in a lease (who signed for it last) is a history variable.
`enforced` holds the two flags, so that all four settings of the rollout are covered.

| Action | Code |
|---|---|
| `Pay` | `warm_pay` of a payment that checks out, with the pruning of the `status` it ends in |
| `WarmAcquire`, `WarmRelease`, `Prune` | the `/warm` routes, in the pool of the tool they name (`endpoint_for`) |
| `WorkerWarm` | the continuation of a health check: `on_warm` |
| `Admit`, `UploadFails`, `Post` | `call_tool` up to the await of the form, a 413 or a lost client, up to the POST |
| `Queued`, `Poll` | not terminal and within the budget: sleep; the GET after it |
| `JobFails`, `JobServed` | every way out of the loop, with `request_finished`; `on_served` |
| `Restart` | the process dies; the next one may have other flags |
| `Tick` | time: no request to RunPod outlasts its timeout |

`FailedCalls` adds `replied`, what the step told a client: `JobServed`, in which `on_served` starts the window, may
still end in a 502, for the result is looked at after it.

A call's `due` is when its sleep, or its request's timeout, ends. httpx's timeout bounds each
read, not a whole answer; a RunPod that sends an answer byte by byte is left out.

### Worker

A thread stands for one request from arrival to reply. A process with one thread is a RunPod worker,
which takes one job at a time; one with several is a direct server, whose tool runs are in threads while
what is between its awaits holds the event loop (`LoopFree`). Containers may share a process id,
and keep it over a restart, as the shipped ones do. Two history variables: `torn`, the keys under which a `put` was cut
short between the rename and the media type; `raced`, the keys whose temporary file two containers of one process id have had
in hand at the same time.

| Action | Code |
|---|---|
| `StartWorker`, `StartServer` | `init`; `create_app` and its `lifespan`: `discover`, `register`, `warm`, of which any part may fail |
| `TakeJob`, `Serve` | `handler`, and a route with `_handle`, up to the cache; pings and refused calls are answered here |
| `Find`, `ReadHit`, `Miss` | `ResultCache.get` and the reply; or the tool is run (an unknown backbone is an error) |
| `Get`, `Recheck`, `Load`, `LoadEnds` | `ModelCache.get`: before the lock, under it, the loader, its return or exception |
| `Seeds`, `Voiced`, `Generate`, `Generated`, `Fails` | `synthesize` and the backbones: seed, voice under the model's lock, the model's run as an interval, exceptions |
| `Open`, `Write`, `Replace`, `BeginType`, `EndType` | `ResultCache.put`, system call by system call, and the reply |
| `OpenRaises`, `WriteRaises`, `ReplaceRaises`, `TypeRaises` | each of them fails, on a full or failing volume: an exception out of `put`, and what was written so far stays |
| `Crash` | the container goes away; the volume stays |

A file is who opened it last, who has yet to write, and whether its bytes are all there and the right
ones; a renamed file keeps its writers, so a late writer of a shared temporary file writes into the
published one. `seeded` says whose seed the process's random numbers still follow: a result is right if
they were the request's own from its seed to its last draw. Draws are a point at the start and one at the end of the
model's run.

## 3. What the runs check

| Run | Instance | Shows |
|---|---|---|
| `billing` | 2 identities, 2 transactions, 2 memos, 2 requests at a time, prices 1 and 2, window 2, quotes live for 2, clock 0..3; about 900,000 states up to symmetry | types; a transaction is consumed once; credits are paid for; a memo stays good, and is the one that is told again, until it expires; calls are on paid time; paid time is conserved; `Billing` implements `PaidTime` |
| `billing_spelling` | 1 identity, 1 transaction, 2 spellings | counterexample: one payment, two windows |
| `billing_retry` | 1 identity, 1 transaction | counterexample: a late retry is refused |
| `identity` | 2 wallets, 2 nonces, 2 requests, window 2, clocks behind by 1 or 2, clock 0..5; about 600,000 states up to symmetry | types; a signature is accepted once; its nonce is remembered while it is fresh, and used up by nothing else |
| `identity_ahead` | the same, clocks up to 1 ahead | counterexample: a nonce is forgotten while its signature is fresh |
| `warm` | 2 leases, 2 handlers, leases of 2, pings every 1 and timing out at 3, fairness; about 740,000 states | types; no lost wake-up of the task; sessions; counts; lapsed leases are pruned in time; gaps between jobs are bounded; the task winds down; a warm worker is noticed |
| `warm_for_nothing` | 1 lease, 1 label, 1 handler | counterexample: billing is told of a lapsed lease whose worker never was up |
| `keepalive_gap` | 1 lease, 1 handler, the code's seconds | counterexample: a held worker is idle for its whole timeout |
| `proxy` | 2 wallets and one without, 1 payment, 1 lease, 2 tools on 2 endpoints, 1 call at a time, window 2, leases of 2, budget 1, timeout 1, delays 1 to 2, clock 0..5; about 2,000,000 states up to symmetry | types; live leases are paid for; windows start on their owner's use; calls end in time; counts of requests are right |
| `proxy_failed` | 1 wallet, 1 tool, 1 endpoint | counterexample: a call is answered with an error and has started a window |
| `worker` | 2 threads in 1 or 2 processes, 2 process ids or one shared, 4 requests, 2 calls; about 440,000 states | types; half-written blobs and lost temporary files only where process ids collide; untyped blobs are passing, or of a `put` that was cut short; the voice is the line's own; takes are reproducible; `ModelCache` implements `ModelLoads`; every call is answered |
| `worker_pids` | 2 containers with one process id, 1 request | counterexample: a half-written blob is published |

**Why the bounds are enough.** `billing`: two of everything is what the
interactions take: two submissions of one transaction race, two identities meet
over one memo, a top-up meets a running window, one memo runs out while another is
live. The clock runs past the end of a quote and of a window (both 2 long). The
bodies are payments by either identity, a failed transaction and one whose
operations meet each condition separately; a price of 2 makes a payment fall
short. A third memo, transaction or identity adds repetition: the proofs say
that nothing depends on their number. When both memos are drawn, a step that
would draw a third is disabled. `warm`: a ping lasts longer than a lease, so that
leases lapse under it; a lease outlasts an interval, so that it may be kept alive over several; health is cached for as
long as a check may take, the code's 3 s and 10 s in the coarsest units that keep
the order. Its properties do not look at labels, so there is none but that of an anonymous lease; `warm_for_nothing` has one.
Two handlers and the task put three checks in flight. Only `left`
has no bound of its own; `LapseBounded` is what bounds it.

`identity`: the clock runs over two windows, so that a signature is accepted, forgotten and
stale; two wallets draw the same nonce, and one wallet the same nonce never twice, which is what
random nonces of a client are.

`proxy`: the longest a call may take is budget, last sleep and last request, 4 in
all; the clock runs past it, past the end of a window that started at once and past that of a lease
renewed at its very end. One lease is what takeovers, renewals and releases are about; two endpoints are
what a pool may be mistaken in. A second call only adds to a sum. `worker`: races of `get` and
`put` are between two; two calls make a writer and a reader, two writers, two loaders, or two lines in
different voices. Two lines share a model, and two drawings need two models each, one of a backbone that is
unknown. `MCInit` fixes names that are interchangeable. `KeysTellApart`, an assumption that
TLC evaluates, compares `Digested` over all requests with tools, names and values of up to two bytes, and over all
sequences of up to three such parts: none collide. `PriceIsExact`, of `MCBilling`, compares `Price!Amount` with
the exact price over 3450 windows and prices, at 4 digits instead of Decimal's 28: never short, exact for
windows of a multiple of three seconds, at most one stroop more for others (100 s at 0.3 a minute is
0.5000001 in the program).

**Symmetry** is over interchangeable model values, in the runs that check safety only.

**Fairness** (`KeepLiveSpec`, with `WarmPool!Fairness`): time passes; the event loop runs a task that can run; each wait
on RunPod ends, because every call has a timeout (weak fairness of these). A health
check of the task that is made again and again is answered at last, not failed for ever (strong
fairness of `Sampled(Loop)` and `Answered(Loop)`): without it RunPod's health
endpoint may be out of order for ever and the worker is not noticed. Nothing is
assumed of clients, of crashes or of the worker. `WorkerFairness`: a thread that can go on does (weak
fairness of each thread's own steps). A lock need not be fair to those who wait for it: calls are
bounded in the model, so that a waiting thread's turn comes.

**Deadlock** is checked in every run: something can always happen, since
processes restart.

### Disagreements between the code and its documentation

* **`billing_spelling`.** A hash may be written in upper or lower case
  (billing.py:404, 408); `consumed_tx` keeps it as written (261-266). "so one payment
  cannot pay twice" (billing.py:10) does not hold of a client that submits both.
* **`billing_retry`.** The quote is looked up before `consumed_tx` (558-566).
  Once it has expired the retry is checked against a new quote and refused, against
  "a client retrying after a dropped response gets the same success" (554-555).
* **`identity_ahead`.** A nonce is remembered from its acceptance for a window
  (core/identity.py:268), a signature is fresh from its own time for a window (257). "a nonce
  only has to be remembered for as long as a signature bearing it would still be accepted" (62-64) holds
  of wallets whose clocks are behind the proxy's, and of no other.
* **`warm_for_nothing`.** `_notify_warm` reads the table after an await without
  pruning it (warm.py:229-240): "the labels of every held lease" (122) includes
  lapsed ones. And a failed check keeps the old count and still notifies
  (208-226): a window can start "against a worker that never arrived" (124-125). The run has both at once:
  a lease that nobody holds any more and that never had a worker is told of.
* **`keepalive_gap`.** A request that ends resets `_last_activity` (warm.py:277-281). If the task
  wakes a little less than an interval later it skips the ping (303-306, 319) and sleeps for another whole
  interval: close to 12 s without a job, against an idle timeout of 10, with every call of RunPod answered at once. "So: while
  a lease is held, keep pinging" (299) and "6 s leaves ~2.5 s of headroom" (54) hold only as long as nobody calls a tool.
  It gets no worse than this and a slow health check between the two sleeps: the gap stays below two
  intervals and the check's timeout, 22 s, whatever RunPod does (`GapsAreBounded`).
* **`proxy_failed`.** `on_served` starts the window when the job has come back without an error (proxy.py:455-459), and its
  result is decoded after that (483-489): a call without data, or with data that is not base64, is a 502 and is charged. "A
  failed call does not, by the same "no warm, no charge" rule" (docs/X402_BILLING.md:163-165), "No result, no charge"
  (tests/test_billing.py:803).
* **`worker_pids`.** The temporary file is named by key and process id (core/cache.py:61). The image's entry point
  execs Python (docker/entrypoint.sh:20-26), which so has id 1 in every container, and with a network volume
  all containers of an endpoint have their cache on it (scripts/deploy_runpod.py:125-129, 174-175;
  docs/DEPLOY.md:166-170). Two that store one result at once share a temporary file: "safe for concurrent
  writers" (39) and "a concurrent reader never observes a half-written blob" (59-60) do not hold. With ids that differ they
  do (`PidsMakeWritersSafe`); without, this is the only way (`WritersAreSafe`).

One more was met while modelling and has no run of its own, as it takes a single step: serverless.py:102 says of
`handler` that it never raises, but its `cache.put` (183) is outside the `try`, and a full volume makes it raise.

"the seed makes a take reproducible and cacheable" (tools/tts/tool.py:78-79) is stated with the condition under which it
holds, `TakesAreReproducible`: of processes with one thread. In a
direct server two tools at once draw from one stream of random numbers.

Another promise is bounded: `AnsweredInTime` is the budget, a last sleep and a last request. The last
two are not part of what proxy.py:58-71 calls the whole operation's wall clock, and a GET may take as long
as the budget: 1685 s in the code's values, against the 900 s for which nginx is said to wait. The claim that the budget
comes first ("840 < 900") is of the budget alone.

## 4. What is proved

Every theorem holds for any sets of identities, memos, transactions, requests, bodies, leases, labels, tools,
endpoints, processes, process ids, voices and keys, any price list, window, time to live, budget, delay,
interval and timeout that the modules' assumptions admit: times are naturals, positive where zero makes no
sense; health is cached no longer than a check may take; `Nobody` is nobody's name; a tool has one endpoint;
there are finitely many threads, each with one process, and a temporary file never has the name of a
published one. `WindowStore`, `Billing`, `Identity`, `WarmPool`, `Proxy`, `Tools` and `Worker` state these
assumptions by name, and TLC evaluates them on every run.

Each invariant of a passing run is a theorem now, and so are its action properties and the two refinements.

| Theorem | Statement |
|---|---|
| `BillingProofs!TypeCorrect` | `Spec => []TypeOK` |
| `OnlyPaymentsCredit` | `Spec => []CreditsArePaidFor` |
| `QuotesAreReused` | `Spec => []MemosAreKept` |
| `NoFreeCalls` | `Spec => []CallsOnPaidTime` |
| `NoDoubleCredit` | `Spec => []OnePaymentOneWindow`, if hashes have one spelling |
| `PaidTimeConserved` | `Spec => TimeIsConserved` |
| `BillingImplementsMeter` | `Spec => MeterSpec`, if hashes have one spelling |
| `IdentityProofs!TypeCorrect` | `Spec => []TypeOK` |
| `NonceIsConsumedLast` | `Spec => []NotLockedOut` |
| `MemoryOutlivesFreshness` | `Spec => []RememberedWhileFresh`, if wallets' clocks are behind |
| `NeverAcceptedAgain` | `Spec => AcceptedOnce`, if wallets' clocks are behind |
| `WarmPoolProofs!TypeCorrect` | `Spec => []TypeOK` |
| `LeasesAreKeptAlive` | `Spec => []KeptAlive` |
| `SessionsAreLeases` | `Spec => []SessionWhileLeased` |
| `LapsesAreShort` | `Spec => []LapseBounded` |
| `AccountsAreRight` | `Spec => []AccountsMatch` |
| `KeepAliveProofs!GapsAreBounded` | `KeepSpec => []GapBounded` |
| `ProxyProofs!TypeCorrect` | `Spec => []ProxyTypeOK` |
| `WarmOnPaidTime` | `Spec => []WarmthIsPaidFor` |
| `CallsEndInTime` | `Spec => []AnsweredInTime` |
| `InflightIsExact` | `Spec => []InflightCounts` |
| `StartedByOwner` | `Spec => StartsOnOwnUse` |
| `WorkerProofs!WorkerTypeCorrect` | `WorkerSpec => []WorkerTypeOK` |
| `VoiceIsRight` | `WorkerSpec => []RightVoice` |
| `LoadsOnce` | `WorkerSpec => LoadedOnce` |
| `WorkerCacheProofs!WritersAreSafe` | `WorkerSpec => []OnlyNamesakesCollide` |
| `PidsMakeWritersSafe` | `WorkerSpec => [](PidsDiffer => SafeForWriters)` |
| `UntypedOnlyInPassing` | `WorkerSpec => []UntypedInPassing` |
| `TakesReproduce` | `WorkerSpec => []TakesAreReproducible` |

**Billing's invariant** (`IInv`). `CreditsArePaidFor` speaks of consumed
transactions and is not inductive: between its two halves a submission carries a
quote over the await. `CarriesOwnQuote` says what it carries, a quote that was
minted, is its own and was live when it was read; `MemosUnique` that a memo names
one quote for ever, so what is verified after the await is still what was
promised; `HashesUnique` that a hash buys once. `MemosAreKept` is inductive beside the types, for a
memo is drawn only when none of that price is good. `CallsOnPaidTime` needs
`CallsInThePast`, for a settled window ends no earlier than now. `OnePaymentOneWindow` then
follows from `HashesUnique` when a transaction has one spelling, which is the
assumption that `billing_spelling` shows to be needed. The refinement maps `spent` to the transactions of
`consumed`, `waiting` to the credits, `until` to `paid_through`: `PayCredited` is `Buy`, `CallServed`
and `WorkerWarm` are `Start` or a stutter, `Tick` is `Pass`.

**Identity's invariant** (`IInv`). `RememberedWhileFresh` relates the freshness of a signature to
what is on the books, and the two run on different clocks: `AcceptedAsSigned` bounds the
time on a signature by the moment of its acceptance, `KeptForAWindow` says that the
entry stands until a window after that moment. A signature that is fresh was then accepted less
than a window ago, if `Ahead` is negative, and only then; that is the assumption
`identity_ahead` drops. `NotLockedOut` needs `SeenWasAccepted` and `NoncesUnique`.

**WarmPool's invariant** (`IInv`). `KeptAlive` and `SessionWhileLeased` are
inductive with `TypeOK`. `LapseBounded` is not: how long ago the task pruned
depends on where it is. `LeftBound` says for each place what is left of every
lease, against the task's timer or the age of its check, `OneLoopCheck` that a task that waits for a check
has exactly one, `TimerBound` that its timer is within its timeout. `AccountsMatch` adds
that the requests at work are a finite set, one larger or smaller with each step.

**KeepAlive's invariant** (`GapInv`). A step of `KeepAlive` is a step of `WarmPool` or none of its variables
changes, so `WarmPool`'s `IInv` comes for free (`KeptInv`). What is left is arithmetic about the clock: it is no older
than `_last_activity` when that is younger than an interval, so a tick that skips its ping knows of a job
less than an interval ago; the task's check adds its age, which is within its timeout; and when the task
goes to sleep `idle + timer`, what the gap will be, is below the bound. `GapBounded` by itself says nothing of
a gap that is still growing, and it takes `KeptAlive` and `OneLoopCheck` to know that time passes nowhere
but in the task's sleep and in its one check.

**Proxy's invariant** (`ProxyInv`). `WarmthIsPaidFor` looks at leases that are alive now, while paid time
was checked when the lease was signed for, up to one time to live ago. `WarmthIsBacked` keeps what
that check leaves behind: the wallet's time still waits, or runs beyond the moment the lease was signed for,
which is the lease's end less a time to live. That stays true because a meter never takes
paid time back (`MeterMoves`: ends only move on, what stops waiting runs). `OwnLeases` is what `StartsOnOwnUse`
needs: where identity is required a lease is metered to whoever signed for it, after a takeover too.
`AnsweredInTime` follows from `InTime`, which bounds what a call waits for by the stage it is at;
the budget is looked at before a sleep only, so each stage adds its own share. `InflightCounts` relates a
count to a cardinality: `OneCallEach` and the finiteness of `calls` make each step change both by one.

**Worker's invariants.** `WorkerInv` is the type invariant, `ThreadInv` (who waits for a model has one to
fetch; who works has a process that is up; one thread at a time is between two awaits of an event loop), `ModelInv`
(models and locks belong to processes that are up; who loads holds the lock) and `RightVoice`, inductive beside
these: another line's `PutVoice` needs the lock that the first one holds. For `LoadedOnce`,
a crash must map to steps of `ModelLoads` too. Each action is summarised once, as `Moved(t)` (one thread goes on, and the
others are where they were) and `CameBy(t)` (what a thread's new phase says of the step), and
every conjunct is proved from the summaries.

`SharedInv` adds the files. `KeyInv` says of a key outside `raced` that its blob is whole, that of each thread
that writes there the file under its temporary name was last opened by itself and waits for it (and is whole once the
thread is about to rename it, `OwnFile`), and that no two of these names are one. The last is what `Open` establishes: a thread
that opens next to another of its name has a namesake, and the key is in `raced` from then on. It takes the event
loop, which lets one thread of a process store at a time, to know that a namesake is another container's. `RacedInv`
adds that where pids differ nothing is ever in `raced`. A step that raises leaves a temporary file that nobody writes to,
and the next `Open` of that name truncates it. Where every process has one thread, `OwnSeed` keeps a process's random numbers at its only
thread's seed until they are drawn, so that every file, the temporary ones too, has the right bytes in it. `UntypedInPassing` is
inductive as it stands, for it names its two excuses: a `put` that goes on, and one that was cut short, by a crash or by a write that raised.

**Model-checked only.**

* `WarmIsNoticed`, `LoopWindsDown` and `Answered`: liveness under fairness, which rests on ENABLED and is out of
  the prover's reach.
* `KeysTellApart`: that two different sequences of parts are never framed alike is an induction over sequences of
  any length, and the induction theorems take an operator as a parameter. It is compared over all short ones.
* `PriceIsExact`: decimals of a given precision against fractions, over bounded windows and prices.
* The seven counterexamples.

## 5. What is not modelled

Mesh, splat, image and audio code is numerical: pure functions of one request. What a model computes is a
result that is right or is not. The CLI, the operator's switch and the deployment scripts are one-shot I/O;
configuration is read once, and its values are constants here.

Within the modelled parts: logging and metering records, the wording of replies, `price_view`, a
health answer that is not of the documented shape (a hazard), unconfigured pools (the routes
answer 503), the API key's comparison (a call without one is `Unauthorised`), decoding of uploads, `ResultCache.clear`
and `ModelCache.evict` (nothing but tests calls them), `ResultCache.stats` (it only reads; its race with a `put`
is a hazard), a `HVYM_REANGLE_BACKBONE` that names no backbone (the worker does not come up), the eviction of remembered voices (a
hazard: it takes 32 voices and two models), a volume on which two requests have one SHA-256.

## 6. Plan

Done: `PaidTime`, `WindowStore`, `Billing`, `WarmPool`, `Identity`, their runs and proofs; `KeepAlive` and the
bound on its gaps; `Proxy`, its proofs and `FailedCalls`; the workers' side, with `ResultCache`, `ModelCache` and its refinement of
`ModelLoads`, and its proofs; keys against their framing. Next, in this order:

1. Implications between components that so far are read and not stated: that `Proxy`'s table of leases is one
   that `WarmPool` can have, as its meter is one that `Billing` implements.
2. That a tool declares every model it fetches, so that `ModelCache.get` never meets a key nobody has registered.
3. The voices' eviction, and the operator's switch.
