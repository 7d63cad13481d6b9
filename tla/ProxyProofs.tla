---------------------------- MODULE ProxyProofs -----------------------------
(***************************************************************************)
(* What the proxy's routes guarantee for every set of wallets, payments,    *)
(* leases, tools, endpoints and requests, and for every window, time to     *)
(* live, budget, timeout and delay.                                         *)
(*                                                                         *)
(* Three lemmas sum up what one step may do to the meter, to the tables of  *)
(* leases and to the tool calls; the parts of the invariant follow from     *)
(* them.                                                                    *)
(***************************************************************************)
EXTENDS Proxy, FiniteSetTheorems, TLAPS

-----------------------------------------------------------------------------
(***************************************************************************)
(* What one step may do                                                    *)
(***************************************************************************)

\* Paid time stays paid time: its ends only move on, and what stops waiting runs.
MeterMoves ==
  /\ now' \in Nat /\ spent' \subseteq Payment
  /\ waiting' \in [Pubkey -> Nat] /\ until' \in [Pubkey -> Nat]
  /\ now' \in {now, now + 1}
  /\ \A p \in Pubkey : /\ until'[p] >= until[p]
                       /\ waiting[p] > 0 => waiting'[p] > 0 \/ until'[p] > now'

LEMMA SameMeter == ProxyTypeOK /\ UNCHANGED paidTime => MeterMoves
BY DEF ProxyTypeOK, paidTime, MeterMoves

LEMMA BuyMoves ==
  ASSUME ProxyTypeOK, NEW p \in Pubkey, NEW m \in Payment, Meter!Buy(p, m)
  PROVE  MeterMoves
BY TimesAssumption DEF ProxyTypeOK, Meter!Buy, MeterMoves

LEMMA SettleMoves ==
  ASSUME ProxyTypeOK, NEW P \in SUBSET Pubkey, Settle(P)
  PROVE  MeterMoves
<1>1. CASE \E p \in P : waiting[p] > 0
  <2>1. Meter!Start(P)
    BY <1>1 DEF Settle
  <2>2. /\ until' = [p \in Pubkey |-> IF p \in P /\ waiting[p] > 0
                                        THEN Meter!EndOrNow(p) + waiting[p]
                                        ELSE until[p]]
        /\ waiting' = [p \in Pubkey |-> IF p \in P THEN 0 ELSE waiting[p]]
        /\ UNCHANGED <<now, spent>>
    BY <2>1 DEF Meter!Start
  <2>3. \A p \in Pubkey : /\ Meter!EndOrNow(p) \in Nat
                          /\ Meter!EndOrNow(p) >= now
                          /\ Meter!EndOrNow(p) >= until[p]
    BY DEF ProxyTypeOK, Meter!EndOrNow
  <2> QED
    BY <2>2, <2>3 DEF ProxyTypeOK, MeterMoves
<1>2. CASE ~ \E p \in P : waiting[p] > 0
  BY <1>2, SameMeter DEF Settle
<1> QED
  BY <1>1, <1>2

LEMMA PassMoves == ProxyTypeOK /\ Meter!Pass => MeterMoves
BY DEF ProxyTypeOK, Meter!Pass, MeterMoves

\* Labels of leases are wallets, or nobody's.
LEMMA LabelType ==
  ASSUME ProxyTypeOK, NEW e \in Endpoint
  PROVE  {leases[e][l].label : l \in DOMAIN leases[e]} \ {Nobody} \in SUBSET Pubkey
BY DEF ProxyTypeOK, Entry, Who

LEMMA CallerType ==
  ASSUME ProxyTypeOK, NEW c \in calls
  PROVE  {c.by} \ {Nobody} \in SUBSET Pubkey
BY DEF ProxyTypeOK, Call, Who

LEMMA MeterStep == ProxyTypeOK /\ [Next]_vars => MeterMoves
<1> SUFFICES ASSUME ProxyTypeOK, [Next]_vars
             PROVE  MeterMoves
  OBVIOUS
<1>1. ASSUME NEW p \in Pubkey, NEW m \in Payment, NEW tool \in Tool, Pay(p, m, tool)
      PROVE  MeterMoves
  BY <1>1, BuyMoves DEF Pay
<1>2. ASSUME NEW e \in Endpoint, WorkerWarm(e)
      PROVE  MeterMoves
  BY <1>2, LabelType, SettleMoves DEF WorkerWarm
<1>3. ASSUME NEW c \in calls, JobServed(c)
      PROVE  MeterMoves
  BY <1>3, CallerType, SettleMoves DEF JobServed
<1>4. CASE Tick
  BY <1>4, PassMoves DEF Tick
<1>5. ASSUME \/ \E l \in Lease, tool \in Tool, s \in Who :
                  (\E asked \in Who : WarmAcquire(l, tool, s, asked)) \/ WarmRelease(l, tool, s)
             \/ \E e \in Endpoint : Prune(e)
             \/ \E r \in Request, tool \in Tool, s \in Who : Admit(r, tool, s)
             \/ \E c \in calls : \/ UploadFails(c) \/ Post(c) \/ Queued(c) \/ Poll(c)
                                 \/ JobFails(c)
             \/ \E flags \in Flags : Restart(flags)
             \/ UNCHANGED vars
      PROVE  UNCHANGED paidTime
  BY <1>5 DEF WarmAcquire, WarmRelease, Prune, Admit, UploadFails, Post, Queued, Poll,
              JobFails, Restart, vars
<1> QED
  BY <1>1, <1>2, <1>3, <1>4, <1>5, SameMeter DEF Next

\* A lease that a step leaves in a table was there, or is made by somebody who may.
Fresh(n) ==
  /\ n.expires = now + LeaseTtl
  /\ Identified(n.by) /\ Entitled(n.by)
  /\ n.by # Nobody => n.label = n.by
  /\ UNCHANGED <<paidTime, enforced>>

LeasesMove ==
  \A e \in Endpoint :
    /\ DOMAIN leases'[e] \subseteq Lease
    /\ leases'[e] \in [DOMAIN leases'[e] -> Entry]
    /\ \A l \in DOMAIN leases'[e] :
         \/ /\ l \in DOMAIN leases[e] /\ leases'[e][l] = leases[e][l]
            /\ UNCHANGED enforced
         \/ Fresh(leases'[e][l])

LEMMA SameLeases == ProxyTypeOK /\ UNCHANGED <<leases, enforced>> => LeasesMove
BY DEF ProxyTypeOK, LeasesMove

LEMMA NoLeasesType ==
  DOMAIN NoLeases = {} /\ NoLeases \in [DOMAIN NoLeases -> Entry]
BY DEF NoLeases

\* Dropping leases of one pool leaves tables of leases.
LEMMA DropMoves ==
  ASSUME ProxyTypeOK, NEW e \in Endpoint, NEW S \in SUBSET DOMAIN leases[e],
         leases' = [leases EXCEPT ![e] = Kept(e, S)], UNCHANGED enforced
  PROVE  LeasesMove
<1> SUFFICES ASSUME NEW f \in Endpoint
             PROVE  /\ DOMAIN leases'[f] \subseteq Lease
                    /\ leases'[f] \in [DOMAIN leases'[f] -> Entry]
                    /\ \A l \in DOMAIN leases'[f] :
                         /\ l \in DOMAIN leases[f] /\ leases'[f][l] = leases[f][l]
                         /\ UNCHANGED enforced
  BY DEF LeasesMove
<1>1. CASE f = e
  <2>1. leases'[f] = [l \in S |-> leases[f][l]]
    BY <1>1 DEF ProxyTypeOK, Kept
  <2> QED
    BY <1>1, <2>1 DEF ProxyTypeOK
<1>2. CASE f # e
  BY <1>2 DEF ProxyTypeOK
<1> QED
  BY <1>1, <1>2

\* What is left after pruning is a part of the table.
LEMMA LiveLeases == \A e \in Endpoint : Live(e) \in SUBSET DOMAIN leases[e]
BY DEF Live

LEMMA EndpointType == \A tool \in Tool : EndpointFor(tool) \in Endpoint
BY EndpointAssumption DEF EndpointFor

LEMMA AcquireMoves ==
  ASSUME ProxyTypeOK, NEW l \in Lease, NEW tool \in Tool, NEW s \in Who, NEW asked \in Who,
         WarmAcquire(l, tool, s, asked)
  PROVE  LeasesMove
<1> DEFINE e == EndpointFor(tool)
           label == LabelOf(s, asked)
           entry == [label   |-> IF l \in Live(e) /\ label = Nobody THEN leases[e][l].label
                                 ELSE label,
                     by      |-> s,
                     expires |-> now + LeaseTtl]
<1>1. e \in Endpoint /\ Live(e) \in SUBSET DOMAIN leases[e]
  BY EndpointType, LiveLeases
<1>2. entry \in Entry
  <2>1. label \in Who
    BY DEF LabelOf
  <2>2. l \in Live(e) => leases[e][l].label \in Who
    BY <1>1 DEF ProxyTypeOK, Entry
  <2>3. now + LeaseTtl \in Nat
    BY TimesAssumption DEF ProxyTypeOK
  <2> QED
    BY <2>1, <2>2, <2>3 DEF Entry
<1>3. /\ leases' = [leases EXCEPT ![e] = [i \in Live(e) \cup {l} |->
                                           IF i = l THEN entry ELSE leases[e][i]]]
      /\ Identified(s) /\ Entitled(s) /\ UNCHANGED <<paidTime, enforced>>
  BY DEF WarmAcquire
<1>4. Fresh(entry)
  BY <1>3, PubkeyAssumption DEF Fresh, LabelOf
<1> SUFFICES ASSUME NEW f \in Endpoint
             PROVE  /\ DOMAIN leases'[f] \subseteq Lease
                    /\ leases'[f] \in [DOMAIN leases'[f] -> Entry]
                    /\ \A i \in DOMAIN leases'[f] :
                         \/ /\ i \in DOMAIN leases[f] /\ leases'[f][i] = leases[f][i]
                            /\ UNCHANGED enforced
                         \/ Fresh(leases'[f][i])
  BY DEF LeasesMove
<1> HIDE DEF entry, e
<1>5. CASE f = e
  <2>1. leases'[f] = [i \in Live(f) \cup {l} |-> IF i = l THEN entry ELSE leases[f][i]]
    BY <1>3, <1>5 DEF ProxyTypeOK
  <2> QED
    BY <1>1, <1>2, <1>3, <1>4, <1>5, <2>1 DEF ProxyTypeOK
<1>6. CASE f # e
  BY <1>3, <1>6 DEF ProxyTypeOK
<1> QED
  BY <1>5, <1>6

LEMMA RestartMoves ==
  ASSUME ProxyTypeOK, NEW flags \in Flags, Restart(flags)
  PROVE  LeasesMove
BY NoLeasesType DEF Restart, LeasesMove

LEMMA LeaseStep == ProxyTypeOK /\ [Next]_vars => LeasesMove
<1> SUFFICES ASSUME ProxyTypeOK, [Next]_vars
             PROVE  LeasesMove
  OBVIOUS
<1>1. ASSUME NEW p \in Pubkey, NEW m \in Payment, NEW tool \in Tool, Pay(p, m, tool)
      PROVE  LeasesMove
  BY <1>1, EndpointType, LiveLeases, DropMoves DEF Pay, Pruned
<1>2. ASSUME NEW l \in Lease, NEW tool \in Tool, NEW s \in Who, NEW asked \in Who,
             WarmAcquire(l, tool, s, asked)
      PROVE  LeasesMove
  BY <1>2, AcquireMoves
<1>3. ASSUME NEW l \in Lease, NEW tool \in Tool, NEW s \in Who, WarmRelease(l, tool, s)
      PROVE  LeasesMove
  <2> DEFINE e == EndpointFor(tool)
  <2>1. e \in Endpoint /\ Live(e) \ {l} \in SUBSET DOMAIN leases[e]
    BY EndpointType, LiveLeases
  <2>2. leases' = [leases EXCEPT ![e] = Kept(e, Live(e) \ {l})] /\ UNCHANGED enforced
    BY <1>3 DEF WarmRelease
  <2> QED
    BY <2>1, <2>2, DropMoves
<1>4. ASSUME NEW e \in Endpoint, Prune(e)
      PROVE  LeasesMove
  BY <1>4, LiveLeases, DropMoves DEF Prune, Pruned
<1>5. ASSUME NEW flags \in Flags, Restart(flags)
      PROVE  LeasesMove
  BY <1>5, RestartMoves
<1>6. ASSUME \/ \E e \in Endpoint : WorkerWarm(e)
             \/ \E r \in Request, tool \in Tool, s \in Who : Admit(r, tool, s)
             \/ \E c \in calls : \/ UploadFails(c) \/ Post(c) \/ Queued(c) \/ Poll(c)
                                 \/ JobFails(c) \/ JobServed(c)
             \/ Tick
             \/ UNCHANGED vars
      PROVE  UNCHANGED <<leases, enforced>>
  BY <1>6 DEF WorkerWarm, Admit, UploadFails, Post, Queued, Poll, JobFails, JobServed,
              Tick, vars
<1> QED
  BY <1>1, <1>2, <1>3, <1>4, <1>5, <1>6, SameLeases DEF Next

-----------------------------------------------------------------------------
(***************************************************************************)
(* The inductive invariant                                                 *)
(***************************************************************************)
\* A lease lapses one time to live after the last moment it was signed for.
LeaseBounds ==
  \A e \in Endpoint : \A l \in DOMAIN leases[e] : leases[e][l].expires <= now + LeaseTtl

\* Where payment is required, a lease was signed for while its wallet had paid time,
\* which waits still or runs until later than that moment.
WarmthIsBacked ==
  enforced.payment => \A e \in Endpoint : \A l \in DOMAIN leases[e] :
    LET n == leases[e][l]
    IN  n.label # Nobody /\ (waiting[n.label] > 0 \/ n.expires < until[n.label] + LeaseTtl)

\* Where identity is required, a lease is metered to whoever signed for it.
OwnLeases ==
  enforced.identity => \A e \in Endpoint : \A l \in DOMAIN leases[e] :
    leases[e][l].label = leases[e][l].by /\ leases[e][l].by # Nobody

LeaseInv == LeaseBounds /\ WarmthIsBacked /\ OwnLeases

OneCallEach == \A c, d \in calls : c.req = d.req => c = d

\* How far each stage of a call may reach beyond the start of its budget.
InTime(c) ==
  /\ c.began <= now
  /\ c.at # "upload" => now <= c.due
  /\ c.at = "post" => c.due <= c.began + CallTimeout
  /\ c.at = "asleep" => c.due <= c.began + Budget + PollMax
  /\ c.at = "get" => c.due <= c.began + Budget + PollMax + CallTimeout

CallInv ==
  /\ IsFiniteSet(calls)
  /\ OneCallEach
  /\ \A c \in calls : InTime(c)
  /\ InflightCounts

ProxyInv == ProxyTypeOK /\ LeaseInv /\ CallInv

-----------------------------------------------------------------------------
(***************************************************************************)
(* The tables of leases                                                    *)
(***************************************************************************)
LEMMA LeaseTypes ==
  ASSUME ProxyTypeOK, NEW e \in Endpoint, NEW l \in DOMAIN leases[e]
  PROVE  leases[e][l] \in Entry
BY DEF ProxyTypeOK

LEMMA LeaseInvStep ==
  ASSUME ProxyTypeOK, LeaseInv, MeterMoves, LeasesMove
  PROVE  LeaseInv'
<1> SUFFICES ASSUME NEW e \in Endpoint, NEW l \in DOMAIN leases'[e]
             PROVE  LET n == leases'[e][l]
                    IN  /\ n.expires <= now' + LeaseTtl
                        /\ enforced'.payment =>
                             /\ n.label # Nobody
                             /\ waiting'[n.label] > 0 \/ n.expires < until'[n.label] + LeaseTtl
                        /\ enforced'.identity => n.label = n.by /\ n.by # Nobody
  BY DEF LeaseInv, LeaseBounds, WarmthIsBacked, OwnLeases
<1> DEFINE n == leases'[e][l]
<1>1. /\ now \in Nat /\ now' \in Nat /\ now <= now' /\ LeaseTtl \in Nat
      /\ waiting' \in [Pubkey -> Nat] /\ until' \in [Pubkey -> Nat]
      /\ waiting \in [Pubkey -> Nat] /\ until \in [Pubkey -> Nat]
  BY TimesAssumption DEF ProxyTypeOK, MeterMoves
<1>2. n \in Entry
  BY DEF LeasesMove
<1>3. CASE l \in DOMAIN leases[e] /\ n = leases[e][l] /\ UNCHANGED enforced
  <2>1. n.expires <= now' + LeaseTtl
    BY <1>1, <1>2, <1>3 DEF LeaseInv, LeaseBounds, Entry
  <2>2. ASSUME enforced'.payment
        PROVE  /\ n.label # Nobody
               /\ waiting'[n.label] > 0 \/ n.expires < until'[n.label] + LeaseTtl
    <3>1. /\ n.label # Nobody
          /\ waiting[n.label] > 0 \/ n.expires < until[n.label] + LeaseTtl
          /\ n.expires <= now + LeaseTtl
      BY <1>3, <2>2 DEF LeaseInv, WarmthIsBacked, LeaseBounds
    <3>2. n.label \in Pubkey /\ n.expires \in Nat
      BY <1>2, <3>1 DEF Entry, Who
    <3>3. /\ until'[n.label] >= until[n.label]
          /\ waiting[n.label] > 0 => waiting'[n.label] > 0 \/ until'[n.label] > now'
          /\ until[n.label] \in Nat /\ until'[n.label] \in Nat
          /\ waiting[n.label] \in Nat /\ waiting'[n.label] \in Nat
      BY <1>1, <3>2 DEF MeterMoves
    <3> QED
      BY <1>1, <3>1, <3>2, <3>3
  <2>3. enforced'.identity => n.label = n.by /\ n.by # Nobody
    BY <1>3 DEF LeaseInv, OwnLeases
  <2> QED
    BY <2>1, <2>2, <2>3
<1>4. CASE Fresh(n)
  <2>1. UNCHANGED <<now, waiting, until, enforced>> /\ n.expires = now + LeaseTtl
    BY <1>4 DEF Fresh, paidTime
  <2>2. ASSUME enforced'.payment
        PROVE  /\ n.label # Nobody
               /\ waiting'[n.label] > 0 \/ n.expires < until'[n.label] + LeaseTtl
    <3>1. n.by # Nobody /\ n.label = n.by /\ (waiting[n.by] > 0 \/ now < until[n.by])
      BY <1>4, <2>1, <2>2 DEF Fresh, Entitled
    <3>2. n.by \in Pubkey
      BY <1>2, <3>1 DEF Entry, Who
    <3>3. until[n.by] \in Nat
      BY <1>1, <3>2
    <3> QED
      BY <1>1, <2>1, <3>1, <3>3
  <2>3. enforced'.identity => n.label = n.by /\ n.by # Nobody
    BY <1>4, <2>1 DEF Fresh, Identified
  <2> QED
    BY <1>1, <2>1, <2>2, <2>3
<1> QED
  BY <1>3, <1>4 DEF LeasesMove

-----------------------------------------------------------------------------
(***************************************************************************)
(* The tool calls                                                          *)
(***************************************************************************)
\* The calls that the pool of e counts.
AtRunPod(S, e) == {c \in S : c.at # "upload" /\ Pool(c) = e}

LEMMA AtRunPodFinite ==
  ASSUME NEW S, IsFiniteSet(S), NEW e
  PROVE  /\ IsFiniteSet(AtRunPod(S, e))
         /\ Cardinality(AtRunPod(S, e)) \in Nat
<1>1. AtRunPod(S, e) \subseteq S
  BY DEF AtRunPod
<1> QED
  BY <1>1, FS_Subset, FS_CardinalityType

LEMMA PoolType == ProxyTypeOK => \A c \in calls : Pool(c) \in Endpoint
BY EndpointType DEF ProxyTypeOK, Call, Pool

\* The delay stays between its first value and its limit.
LEMMA DelayType ==
  \A d \in PollInitial..PollMax : NextDelay(d) \in PollInitial..PollMax
<1> SUFFICES ASSUME NEW d \in PollInitial..PollMax
             PROVE  NextDelay(d) \in PollInitial..PollMax
  OBVIOUS
<1>1. PollInitial \in Nat /\ PollMax \in Nat /\ d \in Nat
  BY TimesAssumption
<1>2. (3 * d + 1) \div 2 \in Nat /\ (3 * d + 1) \div 2 >= d
  BY <1>1
<1> QED
  BY <1>1, <1>2 DEF NextDelay

CallsOK ==
  /\ calls \subseteq Call
  /\ inflight \in [Endpoint -> Nat]
  /\ CallInv

\* A call moves on, and is counted from its first request on.
LEMMA MovesOn ==
  ASSUME ProxyTypeOK, CallInv, NEW c \in calls, NEW d \in Call,
         d.req = c.req, d.tool = c.tool, d.at \notin {c.at, "upload"},
         InTime(d), Become(c, d), UNCHANGED now,
         inflight' = IF c.at = "upload" THEN [inflight EXCEPT ![Pool(c)] = @ + 1] ELSE inflight
  PROVE  CallsOK'
<1>1. d \notin calls
  BY DEF CallInv, OneCallEach
<1>2. calls' = (calls \ {c}) \cup {d} /\ calls \subseteq Call
  BY DEF Become, ProxyTypeOK
<1>3. IsFiniteSet(calls')
  BY <1>2, FS_RemoveElement, FS_AddElement DEF CallInv
<1>4. \A b \in calls' : InTime(b)'
  BY <1>2 DEF CallInv, InTime
<1>5. OneCallEach'
  BY <1>2 DEF CallInv, OneCallEach
<1>6. Pool(d) = Pool(c) /\ Pool(c) \in Endpoint
  BY PoolType DEF Pool
<1>7. inflight' \in [Endpoint -> Nat]
  BY <1>6 DEF ProxyTypeOK
<1>8. ASSUME NEW e \in Endpoint
      PROVE  inflight'[e] = Cardinality(AtRunPod(calls', e))
  <2>1. /\ inflight[e] = Cardinality(AtRunPod(calls, e))
        /\ IsFiniteSet(AtRunPod(calls, e))
        /\ Cardinality(AtRunPod(calls, e)) \in Nat
        /\ d \notin AtRunPod(calls, e)
    BY <1>1, AtRunPodFinite DEF CallInv, InflightCounts, AtRunPod
  <2>2. CASE e # Pool(c)
    <3>1. AtRunPod(calls', e) = AtRunPod(calls, e)
      BY <1>2, <1>6, <2>2 DEF AtRunPod
    <3> QED
      BY <2>1, <2>2, <3>1 DEF ProxyTypeOK
  <2>3. CASE e = Pool(c) /\ c.at = "upload"
    <3>1. AtRunPod(calls', e) = AtRunPod(calls, e) \cup {d}
      BY <1>2, <1>6, <2>3 DEF AtRunPod
    <3>2. inflight'[e] = inflight[e] + 1
      BY <2>3 DEF ProxyTypeOK
    <3> QED
      BY <2>1, <3>1, <3>2, FS_AddElement
  <2>4. CASE e = Pool(c) /\ c.at # "upload"
    <3>1. c \in AtRunPod(calls, e)
      BY <2>4 DEF AtRunPod
    <3>2. AtRunPod(calls', e) = (AtRunPod(calls, e) \ {c}) \cup {d}
      BY <1>2, <1>6, <2>4 DEF AtRunPod
    <3>3. /\ IsFiniteSet(AtRunPod(calls, e) \ {c})
          /\ Cardinality(AtRunPod(calls, e) \ {c}) = Cardinality(AtRunPod(calls, e)) - 1
      BY <2>1, <3>1, FS_RemoveElement
    <3>4. d \notin AtRunPod(calls, e) \ {c}
      BY <2>1
    <3>5. Cardinality(AtRunPod(calls', e)) = Cardinality(AtRunPod(calls, e) \ {c}) + 1
      BY <3>2, <3>3, <3>4, FS_AddElement
    <3> QED
      BY <2>1, <2>4, <3>3, <3>5
  <2> QED
    BY <2>2, <2>3, <2>4
<1> QED
  BY <1>2, <1>3, <1>4, <1>5, <1>7, <1>8 DEF CallsOK, CallInv, InflightCounts, AtRunPod, Pool

\* A call is over, and is counted no more.
LEMMA Over ==
  ASSUME ProxyTypeOK, CallInv, NEW c \in calls,
         calls' = calls \ {c}, UNCHANGED now,
         inflight' = IF c.at = "upload" THEN inflight ELSE [inflight EXCEPT ![Pool(c)] = @ - 1]
  PROVE  CallsOK'
<1>1. IsFiniteSet(calls') /\ calls' \subseteq Call
  BY FS_RemoveElement DEF CallInv, ProxyTypeOK
<1>2. (\A b \in calls' : InTime(b)') /\ OneCallEach'
  BY DEF CallInv, InTime, OneCallEach
<1>3. Pool(c) \in Endpoint
  BY PoolType
<1>4. ASSUME NEW e \in Endpoint
      PROVE  inflight'[e] = Cardinality(AtRunPod(calls', e)) /\ inflight'[e] \in Nat
  <2>1. /\ inflight[e] = Cardinality(AtRunPod(calls, e))
        /\ IsFiniteSet(AtRunPod(calls, e))
        /\ IsFiniteSet(AtRunPod(calls', e))
        /\ Cardinality(AtRunPod(calls', e)) \in Nat
    BY <1>1, AtRunPodFinite DEF CallInv, InflightCounts, AtRunPod
  <2>2. CASE e # Pool(c) \/ c.at = "upload"
    <3>1. AtRunPod(calls', e) = AtRunPod(calls, e)
      BY <2>2 DEF AtRunPod
    <3>2. inflight'[e] = inflight[e]
      BY <2>2 DEF ProxyTypeOK
    <3> QED
      BY <2>1, <3>1, <3>2
  <2>3. CASE e = Pool(c) /\ c.at # "upload"
    <3>1. c \in AtRunPod(calls, e) /\ AtRunPod(calls', e) = AtRunPod(calls, e) \ {c}
      BY <2>3 DEF AtRunPod
    <3>2. Cardinality(AtRunPod(calls', e)) = Cardinality(AtRunPod(calls, e)) - 1
      BY <2>1, <3>1, FS_RemoveElement
    <3>3. inflight'[e] = inflight[e] - 1
      BY <2>3 DEF ProxyTypeOK
    <3> QED
      BY <2>1, <3>2, <3>3
  <2> QED
    BY <2>2, <2>3
<1>5. inflight' \in [Endpoint -> Nat]
  BY <1>3, <1>4 DEF ProxyTypeOK
<1> QED
  BY <1>1, <1>2, <1>4, <1>5 DEF CallsOK, CallInv, InflightCounts, AtRunPod, Pool

LEMMA AdmitMoves ==
  ASSUME ProxyTypeOK, CallInv, NEW r \in Request, NEW tool \in Tool, NEW s \in Who,
         Admit(r, tool, s)
  PROVE  CallsOK'
<1> DEFINE d == [req |-> r, by |-> s, tool |-> tool, at |-> "upload",
                 began |-> now, due |-> now, delay |-> PollInitial]
<1>1. d \in Call
  BY TimesAssumption DEF ProxyTypeOK, Call, Stage
<1>2. calls' = calls \cup {d} /\ UNCHANGED <<now, inflight>> /\ \A c \in calls : c.req # r
  BY DEF Admit, Idle, paidTime
<1>3. InTime(d)
  BY TimesAssumption DEF ProxyTypeOK, InTime
<1>4. calls' \subseteq Call /\ IsFiniteSet(calls')
  BY <1>1, <1>2, FS_AddElement DEF ProxyTypeOK, CallInv
<1>5. OneCallEach' /\ \A c \in calls' : InTime(c)'
  BY <1>2, <1>3 DEF CallInv, OneCallEach, InTime
<1>6. \A e \in Endpoint : AtRunPod(calls', e) = AtRunPod(calls, e)
  BY <1>2 DEF AtRunPod
<1>7. inflight' \in [Endpoint -> Nat]
  BY <1>2 DEF ProxyTypeOK
<1> QED
  BY <1>2, <1>4, <1>5, <1>6, <1>7 DEF CallsOK, CallInv, InflightCounts, AtRunPod, Pool

\* Time passes only while no request and no sleep is at its end.
LEMMA TickMoves ==
  ASSUME ProxyTypeOK, CallInv, Tick
  PROVE  CallsOK'
<1>1. /\ now' = now + 1 /\ now \in Nat /\ UNCHANGED <<calls, inflight>>
      /\ \A c \in calls : c.at # "upload" => now < c.due
  BY DEF Tick, Meter!Pass, ProxyTypeOK
<1>2. ASSUME NEW c \in calls
      PROVE  InTime(c)'
  <2>1. c \in Call /\ InTime(c)
    BY DEF ProxyTypeOK, CallInv
  <2> QED
    BY <1>1, <2>1 DEF InTime, Call
<1> QED
  BY <1>1, <1>2 DEF ProxyTypeOK, CallsOK, CallInv, OneCallEach, InflightCounts, Pool

LEMMA RestartCalls ==
  ASSUME NEW flags \in Flags, Restart(flags)
  PROVE  CallsOK'
<1>1. calls' = {} /\ inflight' = [e \in Endpoint |-> 0]
  BY DEF Restart
<1>2. \A e \in Endpoint : AtRunPod(calls', e) = {}
  BY <1>1 DEF AtRunPod
<1> QED
  BY <1>1, <1>2, FS_EmptySet DEF CallsOK, CallInv, OneCallEach, InflightCounts, AtRunPod, Pool

LEMMA PostMoves ==
  ASSUME ProxyTypeOK, CallInv, NEW c \in calls, Post(c)
  PROVE  CallsOK'
<1> DEFINE d == [c EXCEPT !.at = "post", !.began = now, !.due = now + CallTimeout]
<1>1. c \in Call /\ now \in Nat /\ CallTimeout \in Nat
  BY TimesAssumption DEF ProxyTypeOK
<1>2. d \in Call /\ d.req = c.req /\ d.tool = c.tool /\ d.at = "post"
  <2>1. now + CallTimeout \in Nat /\ "post" \in Stage
    BY <1>1 DEF Stage
  <2> QED
    BY <1>1, <2>1 DEF Call
<1>3. InTime(d)
  BY <1>1 DEF InTime, Call
<1>4. /\ c.at = "upload" /\ Become(c, d) /\ UNCHANGED now
      /\ inflight' = [inflight EXCEPT ![Pool(c)] = @ + 1]
  BY DEF Post, paidTime
<1> HIDE DEF d
<1> QED
  BY <1>2, <1>3, <1>4, MovesOn

LEMMA QueuedMoves ==
  ASSUME ProxyTypeOK, CallInv, NEW c \in calls, Queued(c)
  PROVE  CallsOK'
<1> DEFINE d == [c EXCEPT !.at = "asleep", !.due = now + c.delay, !.delay = NextDelay(c.delay)]
<1>1. /\ c \in Call /\ now \in Nat /\ InTime(c) /\ c.delay \in PollInitial..PollMax
      /\ PollInitial \in Nat /\ PollMax \in Nat /\ Budget \in Nat
  BY TimesAssumption DEF ProxyTypeOK, CallInv, Call
<1>2. /\ d \in Call /\ d.req = c.req /\ d.tool = c.tool /\ d.at = "asleep"
      /\ d.began = c.began /\ d.due = now + c.delay
  <2>1. now + c.delay \in Nat /\ NextDelay(c.delay) \in PollInitial..PollMax /\ "asleep" \in Stage
    BY <1>1, DelayType DEF Stage
  <2> QED
    BY <1>1, <2>1 DEF Call
<1>3. /\ c.at \in {"post", "get"} /\ now - c.began <= Budget
      /\ Become(c, d) /\ UNCHANGED <<now, inflight>>
  BY <1>1 DEF Queued, OverBudget, paidTime, Call
<1>4. InTime(d)
  BY <1>1, <1>2, <1>3 DEF InTime, Call
<1> HIDE DEF d
<1> QED
  BY <1>2, <1>3, <1>4, MovesOn

LEMMA PollMoves ==
  ASSUME ProxyTypeOK, CallInv, NEW c \in calls, Poll(c)
  PROVE  CallsOK'
<1> DEFINE d == [c EXCEPT !.at = "get", !.due = now + CallTimeout]
<1>1. c \in Call /\ now \in Nat /\ InTime(c) /\ CallTimeout \in Nat
  BY TimesAssumption DEF ProxyTypeOK, CallInv
<1>2. /\ d \in Call /\ d.req = c.req /\ d.tool = c.tool /\ d.at = "get"
      /\ d.began = c.began /\ d.due = now + CallTimeout
  <2>1. now + CallTimeout \in Nat /\ "get" \in Stage
    BY <1>1 DEF Stage
  <2> QED
    BY <1>1, <2>1 DEF Call
<1>3. c.at = "asleep" /\ now = c.due /\ Become(c, d) /\ UNCHANGED <<now, inflight>>
  BY DEF Poll, paidTime
<1>4. InTime(d)
  BY <1>1, <1>2, <1>3, TimesAssumption DEF InTime, Call
<1> HIDE DEF d
<1> QED
  BY <1>2, <1>3, <1>4, MovesOn

LEMMA SettleKeepsTime == \A P \in SUBSET Pubkey : Settle(P) => UNCHANGED now
BY DEF Settle, Meter!Start, paidTime

LEMMA CallStep ==
  ASSUME ProxyTypeOK, CallInv, [Next]_vars
  PROVE  CallsOK'
<1>1. ASSUME NEW r \in Request, NEW tool \in Tool, NEW s \in Who, Admit(r, tool, s)
      PROVE  CallsOK'
  BY <1>1, AdmitMoves
<1>2. ASSUME NEW c \in calls, UploadFails(c)
      PROVE  CallsOK'
  BY <1>2, Over DEF UploadFails, paidTime
<1>3. ASSUME NEW c \in calls, JobFails(c)
      PROVE  CallsOK'
  BY <1>3, Over DEF JobFails, CountDown, paidTime
<1>4. ASSUME NEW c \in calls, JobServed(c)
      PROVE  CallsOK'
  BY <1>4, Over, CallerType, SettleKeepsTime DEF JobServed, CountDown
<1>5. ASSUME NEW c \in calls, Post(c) \/ Queued(c) \/ Poll(c)
      PROVE  CallsOK'
  BY <1>5, PostMoves, QueuedMoves, PollMoves
<1>6. ASSUME NEW flags \in Flags, Restart(flags)
      PROVE  CallsOK'
  BY <1>6, RestartCalls
<1>7. CASE Tick
  BY <1>7, TickMoves
<1>8. ASSUME \/ \E p \in Pubkey, m \in Payment, tool \in Tool : Pay(p, m, tool)
             \/ \E l \in Lease, tool \in Tool, s \in Who :
                  (\E asked \in Who : WarmAcquire(l, tool, s, asked)) \/ WarmRelease(l, tool, s)
             \/ \E e \in Endpoint : Prune(e) \/ WorkerWarm(e)
             \/ UNCHANGED vars
      PROVE  CallsOK'
  <2>1. UNCHANGED <<now, calls, inflight>>
    BY <1>8, LabelType, SettleKeepsTime
       DEF Pay, Meter!Buy, WarmAcquire, WarmRelease, Prune, WorkerWarm, vars, paidTime
  <2> QED
    BY <2>1 DEF ProxyTypeOK, CallsOK, CallInv, OneCallEach, InTime, InflightCounts, Pool
<1> QED
  BY <1>1, <1>2, <1>3, <1>4, <1>5, <1>6, <1>7, <1>8 DEF Next

-----------------------------------------------------------------------------
(***************************************************************************)
(* The theorems                                                            *)
(***************************************************************************)
LEMMA InitInv == Init => ProxyInv
<1> SUFFICES ASSUME Init
             PROVE  ProxyInv
  OBVIOUS
<1> USE DEF Init, Meter!Init
<1>1. ProxyTypeOK
  BY NoLeasesType DEF ProxyTypeOK
<1>2. LeaseInv
  BY NoLeasesType DEF LeaseInv, LeaseBounds, WarmthIsBacked, OwnLeases
<1>3. CallInv
  <2>1. \A e \in Endpoint : {c \in calls : c.at # "upload" /\ Pool(c) = e} = {}
    OBVIOUS
  <2> QED
    BY <2>1, FS_EmptySet DEF CallInv, OneCallEach, InflightCounts
<1> QED
  BY <1>1, <1>2, <1>3 DEF ProxyInv

LEMMA EnforcedType == ProxyTypeOK /\ [Next]_vars => enforced' \in Flags
BY DEF ProxyTypeOK, Next, Pay, WarmAcquire, WarmRelease, Prune, WorkerWarm, Admit, UploadFails,
       Post, Queued, Poll, JobFails, JobServed, Restart, Tick, vars

LEMMA LeasesDomain == ProxyTypeOK /\ [Next]_vars => DOMAIN leases' = Endpoint
BY DEF ProxyTypeOK, Next, Pay, Pruned, WarmAcquire, WarmRelease, Prune, WorkerWarm, Admit,
       UploadFails, Post, Queued, Poll, JobFails, JobServed, Restart, Tick, vars

LEMMA NextInv == ProxyInv /\ [Next]_vars => ProxyInv'
<1> SUFFICES ASSUME ProxyInv, [Next]_vars
             PROVE  ProxyInv'
  OBVIOUS
<1>1. MeterMoves /\ LeasesMove
  BY MeterStep, LeaseStep DEF ProxyInv
<1>2. LeaseInv'
  BY <1>1, LeaseInvStep DEF ProxyInv
<1>3. CallsOK'
  BY CallStep DEF ProxyInv
<1>4. ProxyTypeOK'
  BY <1>1, <1>3, EnforcedType, LeasesDomain
     DEF ProxyInv, ProxyTypeOK, MeterMoves, LeasesMove, CallsOK
<1> QED
  BY <1>2, <1>3, <1>4 DEF ProxyInv, CallsOK

LEMMA Inductive == Spec => []ProxyInv
BY InitInv, NextInv, PTL DEF Spec

\* Every state of the proxy is one of its types: in particular the count of the calls
\* that are at RunPod never goes below zero (request_finished, proxy.py:485-497).
THEOREM TypeCorrect == Spec => []ProxyTypeOK
<1>1. ProxyInv => ProxyTypeOK
  BY DEF ProxyInv
<1> QED
  BY <1>1, Inductive, PTL

\* Nobody holds a worker warm for longer than one lease beyond what they have paid for.
THEOREM WarmOnPaidTime == Spec => []WarmthIsPaidFor
<1>1. ProxyInv => WarmthIsPaidFor
  <2> SUFFICES ASSUME ProxyInv, enforced.payment, NEW e \in Endpoint, NEW l \in Live(e)
               PROVE  /\ leases[e][l].label # Nobody
                      /\ \/ waiting[leases[e][l].label] > 0
                         \/ now < until[leases[e][l].label] + LeaseTtl
    BY DEF WarmthIsPaidFor
  <2> DEFINE n == leases[e][l]
  <2>1. l \in DOMAIN leases[e] /\ now < n.expires /\ n \in Entry
    BY LeaseTypes DEF Live, ProxyInv
  <2>2. n.label # Nobody /\ (waiting[n.label] > 0 \/ n.expires < until[n.label] + LeaseTtl)
    BY <2>1 DEF ProxyInv, LeaseInv, WarmthIsBacked
  <2>3. n.label \in Pubkey /\ n.expires \in Nat /\ now \in Nat /\ LeaseTtl \in Nat
    BY <2>1, <2>2, TimesAssumption DEF Entry, Who, ProxyInv, ProxyTypeOK
  <2>4. until[n.label] \in Nat
    BY <2>3 DEF ProxyInv, ProxyTypeOK
  <2> QED
    BY <2>1, <2>2, <2>3, <2>4
<1> QED
  BY <1>1, Inductive, PTL

\* A tool call is answered within its budget, a last sleep and a last request.
THEOREM CallsEndInTime == Spec => []AnsweredInTime
<1>1. ProxyInv => AnsweredInTime
  <2> SUFFICES ASSUME ProxyInv, NEW c \in calls, c.at # "upload"
               PROVE  now - c.began <= Budget + PollMax + CallTimeout
    BY DEF AnsweredInTime
  <2>1. c \in Call /\ InTime(c) /\ now \in Nat
    BY DEF ProxyInv, ProxyTypeOK, CallInv
  <2> QED
    BY <2>1, TimesAssumption DEF InTime, Call, Stage
<1> QED
  BY <1>1, Inductive, PTL

\* The pool counts each call that is at RunPod exactly once.
THEOREM InflightIsExact == Spec => []InflightCounts
<1>1. ProxyInv => InflightCounts
  BY DEF ProxyInv, CallInv
<1> QED
  BY <1>1, Inductive, PTL

\* `settle` takes waiting time from the wallets it is called for, and from no other.
LEMMA SettleTakes ==
  ASSUME ProxyTypeOK, NEW P \in SUBSET Pubkey, Settle(P), NEW p \in Pubkey,
         waiting'[p] < waiting[p]
  PROVE  p \in P
<1>1. CASE Meter!Start(P)
  <2>1. waiting' = [q \in Pubkey |-> IF q \in P THEN 0 ELSE waiting[q]]
    BY <1>1 DEF Meter!Start
  <2> QED
    BY <2>1 DEF ProxyTypeOK
<1>2. CASE UNCHANGED paidTime
  BY <1>2 DEF paidTime, ProxyTypeOK
<1> QED
  BY <1>1, <1>2 DEF Settle

\* Where identity is required, nobody's signature but its buyer's starts paid time: it
\* starts for a lease they have signed for or a call of theirs that RunPod has answered.
THEOREM StartedByOwner == Spec => StartsOnOwnUse
<1>1. ASSUME ProxyInv, [Next]_vars, enforced.identity, NEW p \in Pubkey,
             waiting'[p] < waiting[p]
      PROVE  \/ \E e \in Endpoint : \E l \in DOMAIN leases[e] : leases[e][l].by = p
             \/ \E c \in calls \ calls' : c.by = p /\ c.at \in {"post", "get"}
  <2>1. ProxyTypeOK /\ waiting[p] \in Nat
    BY <1>1 DEF ProxyInv, ProxyTypeOK
  <2>2. CASE \E q \in Pubkey, m \in Payment, tool \in Tool : Pay(q, m, tool)
    <3>1. PICK q \in Pubkey, m \in Payment : Meter!Buy(q, m)
      BY <2>2 DEF Pay
    <3>2. waiting'[p] >= waiting[p]
      BY <2>1, <3>1, TimesAssumption DEF Meter!Buy, ProxyTypeOK
    <3>3. waiting'[p] \in Nat
      BY <2>1, <3>1, TimesAssumption DEF Meter!Buy, ProxyTypeOK
    <3> QED
      BY <1>1, <2>1, <3>2, <3>3
  <2>3. ASSUME NEW e \in Endpoint, WorkerWarm(e)
        PROVE  \E l \in DOMAIN leases[e] : leases[e][l].by = p
    <3>1. p \in {leases[e][l].label : l \in DOMAIN leases[e]}
      BY <1>1, <2>1, <2>3, LabelType, SettleTakes DEF WorkerWarm
    <3> QED
      BY <1>1, <3>1 DEF ProxyInv, LeaseInv, OwnLeases
  <2>4. ASSUME NEW c \in calls, JobServed(c)
        PROVE  c \in calls \ calls' /\ c.by = p /\ c.at \in {"post", "get"}
    <3>1. p \in {c.by} \ {Nobody}
      BY <1>1, <2>1, <2>4, CallerType, SettleTakes DEF JobServed
    <3> QED
      BY <2>4, <3>1 DEF JobServed
  <2>5. ASSUME \/ \E l \in Lease, tool \in Tool, s \in Who :
                    (\E asked \in Who : WarmAcquire(l, tool, s, asked)) \/ WarmRelease(l, tool, s)
               \/ \E e \in Endpoint : Prune(e)
               \/ \E r \in Request, tool \in Tool, s \in Who : Admit(r, tool, s)
               \/ \E c \in calls : \/ UploadFails(c) \/ Post(c) \/ Queued(c) \/ Poll(c)
                                   \/ JobFails(c)
               \/ \E flags \in Flags : Restart(flags)
               \/ Tick
               \/ UNCHANGED vars
        PROVE  FALSE
    <3>1. UNCHANGED waiting
      BY <2>5 DEF WarmAcquire, WarmRelease, Prune, Admit, UploadFails, Post, Queued, Poll,
                  JobFails, Restart, Tick, Meter!Pass, paidTime, vars
    <3> QED
      BY <1>1, <2>1, <3>1
  <2> QED
    BY <1>1, <2>2, <2>3, <2>4, <2>5 DEF Next
<1>2. ProxyInv /\ [Next]_vars =>
        [enforced.identity => \A p \in Pubkey : waiting'[p] < waiting[p] =>
           \/ \E e \in Endpoint : \E l \in DOMAIN leases[e] : leases[e][l].by = p
           \/ \E c \in calls \ calls' : c.by = p /\ c.at \in {"post", "get"}]_vars
  BY <1>1
<1> QED
  BY <1>2, Inductive, PTL DEF Spec, StartsOnOwnUse

=============================================================================
