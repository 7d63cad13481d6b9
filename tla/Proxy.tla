------------------------------- MODULE Proxy --------------------------------
(***************************************************************************)
(* The routes of proxy.py: who is let through, which endpoint's pool a      *)
(* lease goes to, what a tool call does until it is answered, and when paid *)
(* time starts.                                                            *)
(*                                                                         *)
(* It composes what its parts promise.  Paid time is PaidTime, which        *)
(* Billing implements; a signature names its wallet, as Identity has it; a  *)
(* pool is WarmPool's table of leases, with RunPod's workers left out.      *)
(* Requests that are refused change nothing here.                          *)
(***************************************************************************)
EXTENDS Integers, FiniteSets

CONSTANTS Pubkey,       \* wallets
          Payment,      \* payments that settle a quote
          Window,       \* window_s
          Nobody,       \* no usable signature, or no label
          Lease,        \* lease ids
          Tool,         \* names in a route or a body
          Endpoint,
          EndpointId,   \* RUNPOD_ENDPOINT_ID
          ToolEndpoint, \* RUNPOD_ENDPOINT_ID_<TOOL>, for the tools that have one
          Request,      \* bound: the tool calls at work at a time
          LeaseTtl,     \* lease_ttl_s
          Budget,       \* DEFAULT_TIMEOUT, as the budget of a call ...
          CallTimeout,  \* ... and as the timeout of each request to RunPod
          PollInitial, PollMax,
          MaxTime       \* bound: when the clock stops

ASSUME PubkeyAssumption == Nobody \notin Pubkey
ASSUME EndpointAssumption ==
  /\ EndpointId \in Endpoint
  /\ DOMAIN ToolEndpoint \subseteq Tool
  /\ ToolEndpoint \in [DOMAIN ToolEndpoint -> Endpoint]
ASSUME TimesAssumption ==
  /\ Window \in Nat \ {0} /\ LeaseTtl \in Nat \ {0}
  /\ Budget \in Nat /\ CallTimeout \in Nat
  /\ PollInitial \in Nat \ {0} /\ PollMax \in Nat /\ PollInitial <= PollMax
  /\ MaxTime \in Nat

VARIABLES now, spent, waiting, until,   \* of PaidTime
          enforced,   \* the flags: is identity required, is payment
          leases,     \* `_leases` of each endpoint's pool
          inflight,   \* `_inflight` of each pool
          calls       \* POST /tools/{name} that were let in

Meter == INSTANCE PaidTime

paidTime == <<now, spent, waiting, until>>
vars == <<paidTime, enforced, leases, inflight, calls>>

Who == Pubkey \cup {Nobody}

\* HVYM_REQUIRE_SIGNED_IDENTITY and HVYM_REQUIRE_PAYMENT, each of its own.
Flags == [identity : BOOLEAN, payment : BOOLEAN]

\* `endpoint_for`.
EndpointFor(tool) ==
  IF tool \in DOMAIN ToolEndpoint THEN ToolEndpoint[tool] ELSE EndpointId

\* A lease: whom it is metered to, who has signed for it last, when it lapses.
Entry == [label : Who, by : Who, expires : Nat]

\* A tool call: "upload" until its body is read, then in a request to RunPod, or
\* asleep between two of them, until `due` at the latest.
Stage == {"upload", "post", "asleep", "get"}
Call == [req : Request, by : Who, tool : Tool, at : Stage, began : Nat, due : Nat,
         delay : PollInitial..PollMax]

NoLeases == [l \in {} |-> l]

ProxyTypeOK ==
  /\ now \in Nat
  /\ spent \subseteq Payment
  /\ waiting \in [Pubkey -> Nat]
  /\ until \in [Pubkey -> Nat]
  /\ enforced \in Flags
  /\ DOMAIN leases = Endpoint
  /\ \A e \in Endpoint : /\ DOMAIN leases[e] \subseteq Lease
                         /\ leases[e] \in [DOMAIN leases[e] -> Entry]
  /\ inflight \in [Endpoint -> Nat]
  /\ calls \subseteq Call

Init ==
  /\ Meter!Init
  /\ enforced \in Flags
  /\ leases = [e \in Endpoint |-> NoLeases]
  /\ inflight = [e \in Endpoint |-> 0]
  /\ calls = {}

-----------------------------------------------------------------------------
(***************************************************************************)
(* Who is let through                                                      *)
(***************************************************************************)
\* `identity_for`: once it is required, there is no request without one.
Identified(s) == enforced.identity => s # Nobody

\* Mutant: whoever has ever paid.
EntitledOnce(s) ==
  enforced.payment => s # Nobody /\ (waiting[s] > 0 \/ until[s] > 0)

\* `require`.
Entitled(s) ==
  enforced.payment => s # Nobody /\ (waiting[s] > 0 \/ now < until[s])

\* `settle` of whoever among P has bought time that has not started.
Settle(P) ==
  IF \E p \in P : waiting[p] > 0 THEN Meter!Start(P) ELSE UNCHANGED paidTime

-----------------------------------------------------------------------------
(***************************************************************************)
(* Payments and leases                                                     *)
(***************************************************************************)
Live(e) == {l \in DOMAIN leases[e] : now < leases[e][l].expires}
Kept(e, S) == [l \in S |-> leases[e][l]]
Pruned(e) == [leases EXCEPT ![e] = Kept(e, Live(e))]

\* POST /warm/pay: a payment that checks out, and the state of the tool's pool, which
\* drops what has lapsed.  This route has no mode without identity.
Pay(p, m, tool) ==
  /\ Meter!Buy(p, m)
  /\ leases' = Pruned(EndpointFor(tool))
  /\ UNCHANGED <<enforced, inflight, calls>>

\* Mutant: the lease is metered to the label that the body asks for.
LabelAsked(s, asked) == asked

\* "A client-supplied label is never trusted" when there is an identity.
LabelOf(s, asked) == IF s # Nobody THEN s ELSE asked

\* POST /warm: a lease of this id is renewed, or made, in the pool of the tool.
WarmAcquire(l, tool, s, asked) ==
  LET e     == EndpointFor(tool)
      label == LabelOf(s, asked)
      entry == [label   |-> IF l \in Live(e) /\ label = Nobody THEN leases[e][l].label
                            ELSE label,
                by      |-> s,
                expires |-> now + LeaseTtl]
  IN  /\ Identified(s)
      /\ Entitled(s)
      /\ leases' = [leases EXCEPT ![e] =
                      [i \in Live(e) \cup {l} |-> IF i = l THEN entry ELSE leases[e][i]]]
      /\ UNCHANGED <<paidTime, enforced, inflight, calls>>

\* Whose lease it is, if it is anybody's.
Owner(e, l) == IF l \in DOMAIN leases[e] THEN leases[e][l].label ELSE Nobody

\* DELETE /warm: the lease is looked for in the pool of the tool that is named, which
\* need not be the pool it was made in.
WarmRelease(l, tool, s) ==
  LET e == EndpointFor(tool)
  IN  /\ Identified(s)
      /\ enforced.identity => Owner(e, l) \in {Nobody, s}
      /\ leases' = [leases EXCEPT ![e] = Kept(e, Live(e) \ {l})]
      /\ UNCHANGED <<paidTime, enforced, inflight, calls>>

\* GET /warm, or the pool's own task: what has lapsed is dropped.
Prune(e) ==
  /\ leases' = Pruned(e)
  /\ UNCHANGED <<paidTime, enforced, inflight, calls>>

\* A health check finds a worker up: `on_warm` with the labels in the table.
WorkerWarm(e) ==
  /\ DOMAIN leases[e] # {}
  /\ Settle({leases[e][l].label : l \in DOMAIN leases[e]} \ {Nobody})
  /\ UNCHANGED <<enforced, leases, inflight, calls>>

-----------------------------------------------------------------------------
(***************************************************************************)
(* POST /tools/{name}                                                      *)
(***************************************************************************)
Idle(r) == \A c \in calls : c.req # r
Pool(c) == EndpointFor(c.tool)

\* It is let in before its body is read.
Admit(r, tool, s) ==
  /\ Idle(r)
  /\ Identified(s)
  /\ Entitled(s)
  /\ calls' = calls \cup {[req |-> r, by |-> s, tool |-> tool, at |-> "upload",
                           began |-> now, due |-> now, delay |-> PollInitial]}
  /\ UNCHANGED <<paidTime, enforced, leases, inflight>>

Become(c, d) == calls' = (calls \ {c}) \cup {d}

\* The upload is too large, or the client has gone.
UploadFails(c) ==
  /\ c.at = "upload"
  /\ calls' = calls \ {c}
  /\ UNCHANGED <<paidTime, enforced, leases, inflight>>

\* The job is posted.  The budget starts here, and `request_started` is called.
Post(c) ==
  /\ c.at = "upload"
  /\ Become(c, [c EXCEPT !.at = "post", !.began = now, !.due = now + CallTimeout])
  /\ inflight' = [inflight EXCEPT ![Pool(c)] = @ + 1]
  /\ UNCHANGED <<paidTime, enforced, leases>>

\* Mutant: the delay grows without a limit.
NextDelayUncapped(d) == (3 * d + 1) \div 2

\* `delay * 1.5`, up to the next moment of our clock, and POLL_MAX at most.
NextDelay(d) == LET n == (3 * d + 1) \div 2 IN IF n <= PollMax THEN n ELSE PollMax

\* Mutant: a job that has left the queue gets a budget of its own.
OverBudgetQueued(c) == now - c.began > Budget /\ c.delay = PollInitial

\* The budget is looked at when an answer is in, before the next sleep.
OverBudget(c) == now - c.began > Budget

\* RunPod says that the job is queued or running.
Queued(c) ==
  /\ c.at \in {"post", "get"}
  /\ ~OverBudget(c)
  /\ Become(c, [c EXCEPT !.at = "asleep", !.due = now + c.delay,
                         !.delay = NextDelay(c.delay)])
  /\ UNCHANGED <<paidTime, enforced, leases, inflight>>

Poll(c) ==
  /\ c.at = "asleep"
  /\ now = c.due
  /\ Become(c, [c EXCEPT !.at = "get", !.due = now + CallTimeout])
  /\ UNCHANGED <<paidTime, enforced, leases, inflight>>

\* Mutant: the count goes down when the job has come to its end, only.
CountUnlessTimeout(c) ==
  inflight' = IF OverBudget(c) THEN inflight ELSE [inflight EXCEPT ![Pool(c)] = @ - 1]

\* `finally`: `request_finished`, however the job ended.
CountDown(c) == inflight' = [inflight EXCEPT ![Pool(c)] = @ - 1]

\* The job has failed, RunPod cannot be reached or answers with an error, the budget
\* is spent, the tool has reported an error: a 502, 504 or 500.
JobFails(c) ==
  /\ c.at \in {"post", "get"}
  /\ calls' = calls \ {c}
  /\ CountDown(c)
  /\ UNCHANGED <<paidTime, enforced, leases>>

\* The job came back without an error: `on_served`, and then its result is decoded,
\* which may still end in a 502 (FailedCalls).
JobServed(c) ==
  /\ c.at \in {"post", "get"}
  /\ Settle({c.by} \ {Nobody})
  /\ calls' = calls \ {c}
  /\ CountDown(c)
  /\ UNCHANGED <<enforced, leases>>

-----------------------------------------------------------------------------
(***************************************************************************)
(* The process and the clock                                               *)
(***************************************************************************)
\* The proxy dies and is started again, perhaps with other flags.
Restart(flags) ==
  /\ enforced' = flags
  /\ leases' = [e \in Endpoint |-> NoLeases]
  /\ inflight' = [e \in Endpoint |-> 0]
  /\ calls' = {}
  /\ UNCHANGED paidTime

\* No request to RunPod outlasts its timeout, and a sleep ends when it is over.
Tick ==
  /\ now < MaxTime
  /\ \A c \in calls : c.at # "upload" => now < c.due
  /\ Meter!Pass
  /\ UNCHANGED <<enforced, leases, inflight, calls>>

Next ==
  \/ \E p \in Pubkey, m \in Payment, tool \in Tool : Pay(p, m, tool)
  \/ \E l \in Lease, tool \in Tool, s \in Who, asked \in Who : WarmAcquire(l, tool, s, asked)
  \/ \E l \in Lease, tool \in Tool, s \in Who : WarmRelease(l, tool, s)
  \/ \E e \in Endpoint : Prune(e) \/ WorkerWarm(e)
  \/ \E r \in Request, tool \in Tool, s \in Who : Admit(r, tool, s)
  \/ \E c \in calls : \/ UploadFails(c) \/ Post(c) \/ Queued(c) \/ Poll(c)
                      \/ JobFails(c) \/ JobServed(c)
  \/ \E flags \in Flags : Restart(flags)
  \/ Tick

Spec == Init /\ [][Next]_vars

-----------------------------------------------------------------------------
(***************************************************************************)
(* Properties                                                              *)
(***************************************************************************)
\* Nobody holds a worker warm for longer than one lease beyond what they paid for,
\* however renewals, windows that run out and changes of owner follow each other.
WarmthIsPaidFor ==
  enforced.payment => \A e \in Endpoint : \A l \in Live(e) :
    LET p == leases[e][l].label
    IN  p # Nobody /\ (waiting[p] > 0 \/ now < until[p] + LeaseTtl)

\* Where identity is required, time that was bought starts for its owner's own use: a
\* lease they have signed for, or a call they have signed that RunPod has answered.
\* "Attribution the payer can choose is attribution someone else can wear"
\* (proxy.py:273).  That call may still be answered with an error: see FailedCalls.
StartsOnOwnUse ==
  [][enforced.identity => \A p \in Pubkey : waiting'[p] < waiting[p] =>
       \/ \E e \in Endpoint : \E l \in DOMAIN leases[e] : leases[e][l].by = p
       \/ \E c \in calls \ calls' : c.by = p /\ c.at \in {"post", "get"}]_vars

\* A tool call is answered within the budget, a last sleep and a last request to
\* RunPod, which may take as long as the budget itself: "whole-operation wall clock"
\* (proxy.py:58-71) holds as far as RunPod answers a status request at once.
AnsweredInTime ==
  \A c \in calls : c.at # "upload" => now - c.began <= Budget + PollMax + CallTimeout

\* The pool counts each call that is at RunPod once, on whichever path it leaves:
\* an answer, an error, a timeout, or a restart of the proxy.
InflightCounts ==
  \A e \in Endpoint :
    inflight[e] = Cardinality({c \in calls : c.at # "upload" /\ Pool(c) = e})

=============================================================================
