------------------------------ MODULE Billing ------------------------------
(***************************************************************************)
(* The paid-window meter: `Billing` and `Horizon` of billing.py over its    *)
(* WindowStore, as the routes of proxy.py drive it.                         *)
(*                                                                         *)
(* A client is refused with a quote, pays it on the Stellar ledger itself   *)
(* and submits the hash.  The proxy looks the payment up (an await: other   *)
(* requests, and time, get in between) and grants a credit, which the first *)
(* warm worker or served call turns into a running window.  The process may *)
(* die at any moment; the store does not.                                   *)
(***************************************************************************)
EXTENDS WindowStore

CONSTANTS Request,    \* bound: the requests the proxy works on at a time
          MaxTime,    \* bound: when the clock stops
          Body,       \* what transactions on the ledger may hold
          BindPayer   \* HVYM_BIND_PAYER_IDENTITY

\* One payment operation: to us or not, in our asset or not, how much and from
\* whom (someone with an identity here, or anyone else).
Op == [to : {"payee", "other"}, asset : {"settle", "other"},
       amount : Nat, from : Pubkey \cup {"stranger"}]

ASSUME BodyAssumption == Body \subseteq [ok : BOOLEAN, ops : SUBSET Op]
ASSUME BindAssumption == BindPayer \in BOOLEAN
ASSUME BoundAssumption == MaxTime \in Nat

VARIABLES now,       \* `_clock()`
          price,     \* `config.amount` of the running process
          chain,     \* the ledger: what Horizon serves
          settling,  \* POST /warm/pay awaiting Horizon
          calls      \* POST /tools/{name} admitted and not yet answered

vars == <<paid, consumed, quotes, minted, now, price, chain, settling, calls>>
unmetered == <<now, price, chain>>

Payment == [tx : Tx, memo : PriceId, body : Body]
Settling == [req : Request, pubkey : Pubkey, hash : Hash, quote : Quote, at : Nat]
Call == [req : Request, pubkey : Pubkey, at : Nat]

TypeOK ==
  /\ StoreTypeOK
  /\ now \in Nat
  /\ price \in Price
  /\ chain \subseteq Payment
  /\ settling \subseteq Settling
  /\ calls \subseteq Call

Init ==
  /\ StoreInit
  /\ now = 0
  /\ price \in Price
  /\ chain = {}
  /\ settling = {}
  /\ calls = {}

Idle(r) == \A s \in settling \cup calls : s.req # r

-----------------------------------------------------------------------------
(***************************************************************************)
(* The ledger and Horizon                                                  *)
(***************************************************************************)

\* A wallet broadcasts a transaction with a memo the proxy has handed out.
\* Whose memo it is, and what the transaction pays, is up to the client.
Submit(t, q, b) ==
  /\ q \in minted
  /\ \A x \in chain : x.tx # t
  /\ chain' = chain \cup {[tx |-> t, memo |-> q.id, body |-> b]}
  /\ UNCHANGED <<store, now, price, settling, calls>>

\* The operation settles this quote.
Pays(op, q) ==
  /\ op.to = "payee"
  /\ op.asset = "settle"
  /\ op.amount >= q.amount
  /\ BindPayer => op.from = q.pubkey

\* Mutant: the conditions are met, but by different operations.
VerifiesPiecewise(h, q) ==
  \E x \in chain :
    /\ x.tx = h.tx /\ x.body.ok /\ x.memo = q.id
    /\ \E op \in x.body.ops : op.to = "payee" /\ op.asset = "settle"
    /\ \E op \in x.body.ops : op.amount >= q.amount /\ (BindPayer => op.from = q.pubkey)

\* `verify_payment` returns.  Horizon is asked for the lower-case hash, so how
\* the client spelled it does not matter here.
Verifies(h, q) ==
  \E x \in chain :
    /\ x.tx = h.tx
    /\ x.body.ok
    /\ x.memo = q.id
    /\ \E op \in x.body.ops : Pays(op, q)

-----------------------------------------------------------------------------
(***************************************************************************)
(* POST /warm/pay                                                          *)
(***************************************************************************)

\* `challenge`, which every 402 carries.
Challenge(p) == \E q \in Issuable(p, price, now) : IssueQuote(q, now)

\* `settle_payment` up to its await, on the clock and the quote it has read.
AwaitHorizon(r, p, h, q) ==
  /\ Idle(r)
  /\ settling' = settling \cup
       {[req |-> r, pubkey |-> p, hash |-> h, quote |-> q, at |-> now]}
  /\ UNCHANGED <<paid, consumed, calls, unmetered>>

\* The client names its live quote.
PayNamed(r, p, h, id) ==
  /\ \E q \in Lookup(id, now) : q.pubkey = p /\ AwaitHorizon(r, p, h, q)
  /\ UNCHANGED <<quotes, minted>>

\* It names none, or one that is unknown or has expired.
PayFallback(r, p, h, id) ==
  /\ Lookup(id, now) = {}
  /\ \E q \in Issuable(p, price, now) :
       IssueQuote(q, now) /\ AwaitHorizon(r, p, h, q)

\* It names somebody else's.
PayForeign(p, id) ==
  /\ \E q \in Lookup(id, now) : q.pubkey # p
  /\ Challenge(p)
  /\ UNCHANGED <<paid, consumed, settling, calls, unmetered>>

\* The submission is answered, and is not in flight any more.
Answered(s) ==
  /\ s \in settling
  /\ settling' = settling \ {s}

\* The payment checks out, and buys its window.
PayCredited(s) ==
  /\ Answered(s)
  /\ Verifies(s.hash, s.quote)
  /\ CreditForTx(s.hash, s.pubkey, s.at)
  /\ UNCHANGED <<quotes, minted, calls, unmetered>>

\* It checks out, and has bought its window before: success all the same.
PayRepeated(s) ==
  /\ Answered(s)
  /\ Verifies(s.hash, s.quote)
  /\ AlreadySpent(s.hash)
  /\ UNCHANGED <<store, calls, unmetered>>

\* Horizon knows the transaction, and it does not pay this quote.
PayMismatch(s) ==
  /\ Answered(s)
  /\ \E x \in chain : x.tx = s.hash.tx
  /\ ~Verifies(s.hash, s.quote)
  /\ Challenge(s.pubkey)
  /\ UNCHANGED <<paid, consumed, calls, unmetered>>

\* Horizon does not know it yet, or answers with an error or nonsense.
PayUnverifiable(s) ==
  /\ Answered(s)
  /\ Challenge(s.pubkey)
  /\ UNCHANGED <<paid, consumed, calls, unmetered>>

\* Horizon cannot be reached or is too slow: the handler dies of the exception.
PayDropped(s) ==
  /\ Answered(s)
  /\ UNCHANGED <<store, calls, unmetered>>

-----------------------------------------------------------------------------
(***************************************************************************)
(* POST /tools/{name}, POST /warm and the two grants                       *)
(***************************************************************************)

\* `require` lets a tool call in.
Admit(r, p) ==
  /\ Idle(r)
  /\ Entitled(p, now)
  /\ calls' = calls \cup {[req |-> r, pubkey |-> p, at |-> now]}
  /\ UNCHANGED <<store, settling, unmetered>>

\* `require` refuses a tool call, or a lease.
Refuse(p) ==
  /\ ~Entitled(p, now)
  /\ Challenge(p)
  /\ UNCHANGED <<paid, consumed, settling, calls, unmetered>>

\* The result is here: `on_served` starts the clock.
CallServed(c) ==
  /\ c \in calls
  /\ calls' = calls \ {c}
  /\ Settle({c.pubkey}, now)
  /\ UNCHANGED <<consumed, quotes, minted, settling, unmetered>>

\* The call ends in an error before `on_served`.
CallFailed(c) ==
  /\ c \in calls
  /\ calls' = calls \ {c}
  /\ UNCHANGED <<store, settling, unmetered>>

\* `on_warm`, with the labels of whatever leases the pools hold.
WorkerWarm(P) ==
  /\ Settle(P, now)
  /\ UNCHANGED <<consumed, quotes, minted, settling, calls, unmetered>>

-----------------------------------------------------------------------------
(***************************************************************************)
(* The process and the clock                                               *)
(***************************************************************************)

\* The process dies and is started again, perhaps with a new price.  What was
\* in flight is gone.
Restart(a) ==
  /\ price' = a
  /\ settling' = {}
  /\ calls' = {}
  /\ UNCHANGED <<store, now, chain>>

Tick ==
  /\ now < MaxTime
  /\ now' = now + 1
  /\ UNCHANGED <<store, price, chain, settling, calls>>

Next ==
  \/ \E t \in Tx, q \in minted, b \in Body : Submit(t, q, b)
  \/ \E r \in Request, p \in Pubkey, h \in Hash, id \in PriceId :
       PayNamed(r, p, h, id) \/ PayFallback(r, p, h, id)
  \/ \E p \in Pubkey, id \in PriceId : PayForeign(p, id)
  \/ \E s \in settling :
       \/ PayCredited(s) \/ PayRepeated(s)
       \/ PayMismatch(s) \/ PayUnverifiable(s) \/ PayDropped(s)
  \/ \E r \in Request, p \in Pubkey : Admit(r, p)
  \/ \E p \in Pubkey : Refuse(p)
  \/ \E c \in calls : CallServed(c) \/ CallFailed(c)
  \/ \E P \in SUBSET Pubkey : WorkerWarm(P)
  \/ \E a \in Price : Restart(a)
  \/ Tick

Spec == Init /\ [][Next]_vars

-----------------------------------------------------------------------------
(***************************************************************************)
(* Properties                                                              *)
(***************************************************************************)

\* A transaction is consumed once: "so one payment cannot pay twice"
\* (billing.py:10).  Two submissions of it may be awaiting Horizon together, a
\* client may retry after a lost answer, and the process may restart between.
OnePaymentOneWindow ==
  \A c, d \in consumed : c.hash.tx = d.hash.tx => c = d

\* Whatever was credited was paid for, by a transaction whose memo was issued to
\* this identity alone and was still payable when the submission arrived, in one
\* operation that meets every condition of section 4.2 of X402_BILLING.md
\* (verify_payment, settle_payment): no quote read before the await is ever
\* credited to another identity or at another price after it.
CreditsArePaidFor ==
  \A c \in consumed : \E x \in chain, q \in minted :
    /\ x.tx = c.hash.tx
    /\ x.body.ok
    /\ x.memo = q.id
    /\ q.pubkey = c.pubkey
    /\ c.at < q.expires
    /\ \A r \in minted : r.id = x.memo => r = q
    /\ \E op \in x.body.ops : Pays(op, q)

\* The quotes a client was told of, at any time, and may still pay.
Payable == {q \in minted : now < q.expires}

\* A memo that a client was told of stays good until it expires, and is the one it
\* is told again at that price ("must see the same memo", billing.py:298-300):
\* neither its own challenges at another price, nor anybody else's, nor a restart
\* with a new price in between make the proxy forget it or replace it.
MemosAreKept ==
  /\ Payable \subseteq quotes
  /\ \A q, r \in Payable : q.pubkey = r.pubkey /\ q.amount = r.amount => q = r

\* Every call being worked on was let in on time that somebody paid for, and that
\* is not taken back while the call runs, whichever grants, payments and restarts
\* come in between (entitled, settle).
CallsOnPaidTime ==
  \A c \in calls : c.at < paid[c.pubkey].through \/ paid[c.pubkey].credit > 0

\* The time an identity still has: not started, and left of what runs.
Left(p) == paid[p].credit + (Later(now, paid[p].through) - now)

Buys(p) == \E c \in consumed' \ consumed : c.pubkey = p
RunsDown(p) == now' > now /\ paid[p].through > now

\* Paid time is neither lost nor made up.  A step adds time to an identity only by
\* consuming a transaction of its own, exactly one window then, and takes time
\* away only while a window runs, second by second: a top-up keeps the remainder
\* (billing.py:278-280), a grant moves time without spending any, a crash and a
\* failed call cost nothing.
TimeIsConserved ==
  [][\A p \in Pubkey :
       Left(p)' = Left(p) + (IF Buys(p) THEN Window ELSE 0)
                          - (IF RunsDown(p) THEN now' - now ELSE 0)]_vars

\* The meter implements the abstract one of PaidTime: quotes, Horizon and the
\* tables only decide who may take its steps, and when.
Meter == INSTANCE PaidTime WITH
  Payment <- Tx,
  spent <- {c.hash.tx : c \in consumed},
  waiting <- [p \in Pubkey |-> paid[p].credit],
  until <- [p \in Pubkey |-> paid[p].through]

MeterSpec == Meter!Spec

\* "Idempotent by transaction hash: a client retrying after a dropped response
\* gets the same success" (billing.py:554-555): a submission of a transaction that
\* has bought this identity's window is never answered with a mismatch.
RetryNeverRefused ==
  [][\A s \in settling :
       PayMismatch(s) =>
         ~\E c \in consumed : c.hash = s.hash /\ c.pubkey = s.pubkey]_vars

=============================================================================
