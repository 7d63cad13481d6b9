--------------------------- MODULE BillingProofs ---------------------------
(***************************************************************************)
(* What Billing guarantees for every set of identities, quotes,             *)
(* transactions and requests, every price, window and time to live.         *)
(*                                                                         *)
(* Typing comes first, then one inductive invariant, IInv, from which the   *)
(* invariants follow, then the two facts about steps: paid time is          *)
(* conserved, and every step is a step of the abstract meter.               *)
(***************************************************************************)
EXTENDS Billing, TLAPS

-----------------------------------------------------------------------------
(***************************************************************************)
(* The operators of the store                                              *)
(***************************************************************************)

\* settle leaves a row: a time and a credit that never goes below zero.
LEMMA SettledIsRow ==
  ASSUME NEW row \in Row, NEW t \in Nat
  PROVE  Settled(row, t) \in Row
BY DEF Row, Settled, Later

\* settle touches the rows of the given identities and no other.
LEMMA SettleType ==
  ASSUME paid \in [Pubkey -> Row], NEW t \in Nat, NEW P, Settle(P, t)
  PROVE  paid' \in [Pubkey -> Row]
BY SettledIsRow DEF Settle

\* A quote that is about to be issued is a quote of this identity at this price,
\* it is live, and it is either in the table or carries a fresh memo.
LEMMA IssuableQuote ==
  ASSUME quotes \subseteq minted, minted \subseteq Quote,
         NEW p \in Pubkey, NEW a \in Price, NEW t \in Nat, NEW q \in Issuable(p, a, t)
  PROVE  /\ q \in Quote
         /\ q.pubkey = p
         /\ q.amount = a
         /\ q.expires > t
         /\ q \in quotes \/ (\A r \in minted : r.id # q.id)
<1>1. CASE q \in Reusable(p, a, t)
  BY <1>1 DEF Reusable, Live
<1>2. CASE q \in NewQuotes(p, a, t)
  <2>1. PICK i \in FreshIds :
          q = [id |-> i, pubkey |-> p, amount |-> a, expires |-> t + QuoteTtl]
    BY <1>2 DEF NewQuotes
  <2>2. i \in PriceId /\ \A r \in minted : r.id # i
    BY <2>1 DEF FreshIds
  <2>3. t + QuoteTtl \in Nat /\ t + QuoteTtl > t
    BY TtlAssumption
  <2>4. q \in Quote
    BY <2>1, <2>2, <2>3 DEF Quote
  <2> QED
    BY <2>1, <2>2, <2>3, <2>4
<1> QED
  BY <1>1, <1>2 DEF Issuable

\* The tables stay tables when a quote is issued.
LEMMA IssueType ==
  ASSUME quotes \subseteq minted, minted \subseteq Quote,
         NEW p \in Pubkey, NEW a \in Price, NEW t \in Nat,
         NEW q \in Issuable(p, a, t), IssueQuote(q, t)
  PROVE  quotes' \subseteq minted' /\ minted' \subseteq Quote
BY IssuableQuote DEF IssueQuote, Live

-----------------------------------------------------------------------------
(***************************************************************************)
(* Typing                                                                  *)
(***************************************************************************)
LEMMA InitType == Init => TypeOK
BY DEF Init, TypeOK, StoreInit, StoreTypeOK, Row

LEMMA StepType == TypeOK /\ [Next]_vars => TypeOK'
<1> SUFFICES ASSUME TypeOK, [Next]_vars
             PROVE  TypeOK'
  OBVIOUS
<1> USE DEF TypeOK, StoreTypeOK
<1>1. ASSUME NEW t \in Tx, NEW q \in minted, NEW b \in Body, Submit(t, q, b)
      PROVE  TypeOK'
  BY <1>1 DEF Submit, store, Payment, Quote
<1>2. ASSUME NEW r \in Request, NEW p \in Pubkey, NEW h \in Hash, NEW id \in PriceId,
             PayNamed(r, p, h, id)
      PROVE  TypeOK'
  <2>1. PICK q \in Lookup(id, now) : q.pubkey = p /\ AwaitHorizon(r, p, h, q)
    BY <1>2 DEF PayNamed
  <2>2. q \in Quote
    BY <2>1 DEF Lookup, Live
  <2> QED
    BY <1>2, <2>1, <2>2 DEF PayNamed, AwaitHorizon, unmetered, Settling
<1>3. ASSUME NEW r \in Request, NEW p \in Pubkey, NEW h \in Hash, NEW id \in PriceId,
             PayFallback(r, p, h, id)
      PROVE  TypeOK'
  <2>1. PICK q \in Issuable(p, price, now) : IssueQuote(q, now) /\ AwaitHorizon(r, p, h, q)
    BY <1>3 DEF PayFallback
  <2>2. q \in Quote
    BY <2>1, IssuableQuote
  <2>3. quotes' \subseteq minted' /\ minted' \subseteq Quote
    BY <2>1, IssueType
  <2> QED
    BY <2>1, <2>2, <2>3 DEF AwaitHorizon, unmetered, Settling
<1>4. ASSUME NEW p \in Pubkey, Challenge(p)
      PROVE  quotes' \subseteq minted' /\ minted' \subseteq Quote
  BY <1>4, IssueType DEF Challenge
<1>5. ASSUME NEW p \in Pubkey, NEW id \in PriceId, PayForeign(p, id)
      PROVE  TypeOK'
  BY <1>4, <1>5 DEF PayForeign, unmetered
<1>6. ASSUME NEW s \in settling, PayCredited(s)
      PROVE  TypeOK'
  <2>1. s \in Settling
    BY <1>6
  <2>2. [hash |-> s.hash, pubkey |-> s.pubkey, at |-> s.at] \in Consumed
    BY <2>1 DEF Settling, Consumed
  <2>3. consumed' \subseteq Consumed
    BY <1>6, <2>2 DEF PayCredited, CreditForTx
  <2>4. paid' \in [Pubkey -> Row]
    BY <1>6, <2>1, WindowAssumption DEF PayCredited, CreditForTx, Row, Settling
  <2> QED
    BY <1>6, <2>3, <2>4 DEF PayCredited, Answered, unmetered
<1>7. ASSUME NEW s \in settling, PayRepeated(s)
      PROVE  TypeOK'
  BY <1>7 DEF PayRepeated, Answered, store, unmetered
<1>8. ASSUME NEW s \in settling, PayMismatch(s)
      PROVE  TypeOK'
  BY <1>4, <1>8 DEF PayMismatch, Answered, unmetered, Settling
<1>9. ASSUME NEW s \in settling, PayUnverifiable(s)
      PROVE  TypeOK'
  BY <1>4, <1>9 DEF PayUnverifiable, Answered, unmetered, Settling
<1>10. ASSUME NEW s \in settling, PayDropped(s)
       PROVE  TypeOK'
  BY <1>10 DEF PayDropped, Answered, store, unmetered
<1>11. ASSUME NEW r \in Request, NEW p \in Pubkey, Admit(r, p)
       PROVE  TypeOK'
  BY <1>11 DEF Admit, store, unmetered, Call
<1>12. ASSUME NEW p \in Pubkey, Refuse(p)
       PROVE  TypeOK'
  BY <1>4, <1>12 DEF Refuse, unmetered
<1>13. ASSUME NEW c \in calls, CallServed(c)
       PROVE  TypeOK'
  BY <1>13, SettleType DEF CallServed, unmetered
<1>14. ASSUME NEW c \in calls, CallFailed(c)
       PROVE  TypeOK'
  BY <1>14 DEF CallFailed, store, unmetered
<1>15. ASSUME NEW P \in SUBSET Pubkey, WorkerWarm(P)
       PROVE  TypeOK'
  BY <1>15, SettleType DEF WorkerWarm, unmetered
<1>16. ASSUME NEW a \in Price, Restart(a)
       PROVE  TypeOK'
  BY <1>16 DEF Restart, store
<1>17. CASE Tick
  BY <1>17 DEF Tick, store
<1>18. CASE UNCHANGED vars
  BY <1>18 DEF vars
<1> QED
  BY <1>1, <1>2, <1>3, <1>5, <1>6, <1>7, <1>8, <1>9, <1>10, <1>11, <1>12, <1>13,
     <1>14, <1>15, <1>16, <1>17, <1>18 DEF Next

\* The tables, the ledger and what is in flight hold what they are meant to hold,
\* and no credit is ever negative.
THEOREM TypeCorrect == Spec => []TypeOK
BY InitType, StepType, PTL DEF Spec

-----------------------------------------------------------------------------
(***************************************************************************)
(* What the actions do to each table                                       *)
(***************************************************************************)

\* The windows change where a payment is credited and where a grant starts
\* them; the clock moves in Tick.
LEMMA MeterStep ==
  ASSUME TypeOK, [Next]_vars
  PROVE  \/ \E s \in settling : PayCredited(s)
         \/ \E P \in SUBSET Pubkey : Settle(P, now) /\ UNCHANGED <<consumed, now>>
         \/ UNCHANGED <<paid, consumed, now>>
         \/ Tick
<1>1. ASSUME NEW t \in Tx, NEW q \in minted, NEW b \in Body, Submit(t, q, b)
      PROVE  UNCHANGED <<paid, consumed, now>>
  BY <1>1 DEF Submit, store
<1>2. ASSUME NEW r \in Request, NEW p \in Pubkey, NEW h \in Hash, NEW id \in PriceId,
             PayNamed(r, p, h, id) \/ PayFallback(r, p, h, id)
      PROVE  UNCHANGED <<paid, consumed, now>>
  BY <1>2 DEF PayNamed, PayFallback, AwaitHorizon, unmetered
<1>3. ASSUME NEW p \in Pubkey, NEW id \in PriceId, PayForeign(p, id)
      PROVE  UNCHANGED <<paid, consumed, now>>
  BY <1>3 DEF PayForeign, unmetered
<1>4. ASSUME NEW s \in settling,
             PayRepeated(s) \/ PayMismatch(s) \/ PayUnverifiable(s) \/ PayDropped(s)
      PROVE  UNCHANGED <<paid, consumed, now>>
  BY <1>4 DEF PayRepeated, PayMismatch, PayUnverifiable, PayDropped, store, unmetered
<1>5. ASSUME NEW r \in Request, NEW p \in Pubkey, Admit(r, p)
      PROVE  UNCHANGED <<paid, consumed, now>>
  BY <1>5 DEF Admit, store, unmetered
<1>6. ASSUME NEW p \in Pubkey, Refuse(p)
      PROVE  UNCHANGED <<paid, consumed, now>>
  BY <1>6 DEF Refuse, unmetered
<1>7. ASSUME NEW c \in calls, CallServed(c)
      PROVE  \E P \in SUBSET Pubkey : Settle(P, now) /\ UNCHANGED <<consumed, now>>
  BY <1>7 DEF CallServed, unmetered, TypeOK, Call
<1>8. ASSUME NEW c \in calls, CallFailed(c)
      PROVE  UNCHANGED <<paid, consumed, now>>
  BY <1>8 DEF CallFailed, store, unmetered
<1>9. ASSUME NEW P \in SUBSET Pubkey, WorkerWarm(P)
      PROVE  Settle(P, now) /\ UNCHANGED <<consumed, now>>
  BY <1>9 DEF WorkerWarm, unmetered
<1>10. ASSUME NEW a \in Price, Restart(a)
       PROVE  UNCHANGED <<paid, consumed, now>>
  BY <1>10 DEF Restart, store
<1>11. CASE UNCHANGED vars
  BY <1>11 DEF vars
<1> QED
  BY <1>1, <1>2, <1>3, <1>4, <1>5, <1>6, <1>7, <1>8, <1>9, <1>10, <1>11 DEF Next

\* A quote is issued by a challenge, or by a submission that names none.
LEMMA QuoteStep ==
  ASSUME TypeOK, [Next]_vars
  PROVE  \/ UNCHANGED <<quotes, minted>> /\ now' \in {now, now + 1}
         \/ \E p \in Pubkey : Challenge(p) /\ now' = now
<1> DEFINE Issues == \E p \in Pubkey : Challenge(p) /\ now' = now
           Keeps == UNCHANGED <<quotes, minted>> /\ now' \in {now, now + 1}
<1> SUFFICES Keeps \/ Issues
  OBVIOUS
<1>1. ASSUME NEW r \in Request, NEW p \in Pubkey, NEW h \in Hash, NEW id \in PriceId,
             PayFallback(r, p, h, id)
      PROVE  Issues
  BY <1>1 DEF PayFallback, AwaitHorizon, Challenge, unmetered
<1>2. ASSUME NEW p \in Pubkey, NEW id \in PriceId, PayForeign(p, id)
      PROVE  Issues
  BY <1>2 DEF PayForeign, unmetered
<1>3. ASSUME NEW s \in settling, PayMismatch(s) \/ PayUnverifiable(s)
      PROVE  Issues
  BY <1>3 DEF PayMismatch, PayUnverifiable, unmetered, TypeOK, Settling
<1>4. ASSUME NEW t \in Tx, NEW q \in minted, NEW b \in Body, Submit(t, q, b)
      PROVE  Keeps
  BY <1>4 DEF Submit, store
<1>5. ASSUME NEW r \in Request, NEW p \in Pubkey, NEW h \in Hash, NEW id \in PriceId,
             PayNamed(r, p, h, id)
      PROVE  Keeps
  BY <1>5 DEF PayNamed, AwaitHorizon, unmetered
<1>6. ASSUME NEW s \in settling, PayCredited(s) \/ PayRepeated(s) \/ PayDropped(s)
      PROVE  Keeps
  BY <1>6 DEF PayCredited, PayRepeated, PayDropped, store, unmetered
<1>7. ASSUME NEW r \in Request, NEW p \in Pubkey, Admit(r, p)
      PROVE  Keeps
  BY <1>7 DEF Admit, store, unmetered
<1>8. ASSUME NEW c \in calls, CallServed(c) \/ CallFailed(c)
      PROVE  Keeps
  BY <1>8 DEF CallServed, CallFailed, store, unmetered
<1>9. ASSUME NEW P \in SUBSET Pubkey, WorkerWarm(P)
      PROVE  Keeps
  BY <1>9 DEF WorkerWarm, unmetered
<1>10. ASSUME NEW a \in Price, Restart(a)
       PROVE  Keeps
  BY <1>10 DEF Restart, store
<1>11. CASE Tick
  BY <1>11 DEF Tick, store
<1>12. ASSUME NEW p \in Pubkey, Refuse(p)
       PROVE  Issues
  BY <1>12 DEF Refuse, unmetered
<1>13. CASE UNCHANGED vars
  BY <1>13 DEF vars
<1> HIDE DEF Issues, Keeps
<1> QED
  BY <1>1, <1>2, <1>3, <1>4, <1>5, <1>6, <1>7, <1>8, <1>9, <1>10, <1>11, <1>12,
     <1>13 DEF Next

\* Nothing leaves the ledger, and no quote is forgotten.
LEMMA NothingForgotten ==
  ASSUME TypeOK, [Next]_vars
  PROVE  chain \subseteq chain' /\ minted \subseteq minted'
<1>1. minted \subseteq minted'
  BY QuoteStep DEF Challenge, IssueQuote
<1>2. chain' = chain \/ \E t \in Tx, q \in minted, b \in Body : Submit(t, q, b)
  BY DEF Next, vars, PayNamed, PayFallback, PayForeign, PayCredited, PayRepeated,
         PayMismatch, PayUnverifiable, PayDropped, AwaitHorizon, Admit, Refuse,
         CallServed, CallFailed, WorkerWarm, Restart, Tick, unmetered
<1> QED
  BY <1>1, <1>2 DEF Submit

-----------------------------------------------------------------------------
(***************************************************************************)
(* The inductive invariant                                                 *)
(***************************************************************************)

\* No memo is drawn twice.
MemosUnique == \A q, r \in minted : q.id = r.id => q = r

\* The primary key of consumed_tx.
HashesUnique == \A c, d \in consumed : c.hash = d.hash => c = d

\* What a submission carries over its await: a quote that is its own, and that
\* was payable when it was read.
CarriesOwnQuote ==
  \A s \in settling :
    /\ s.quote \in minted
    /\ s.quote.pubkey = s.pubkey
    /\ s.at < s.quote.expires

CallsInThePast == \A c \in calls : c.at <= now

IInv ==
  /\ TypeOK
  /\ MemosUnique
  /\ HashesUnique
  /\ MemosAreKept
  /\ CarriesOwnQuote
  /\ CreditsArePaidFor
  /\ CallsInThePast
  /\ CallsOnPaidTime

LEMMA InitInv == Init => IInv
BY InitType
   DEF Init, IInv, StoreInit, MemosUnique, HashesUnique, MemosAreKept, Payable,
       CarriesOwnQuote, CreditsArePaidFor, CallsInThePast, CallsOnPaidTime

LEMMA MemosUniqueStep ==
  ASSUME TypeOK, MemosUnique, [Next]_vars
  PROVE  MemosUnique'
<1>1. CASE UNCHANGED minted
  BY <1>1 DEF MemosUnique
<1>2. ASSUME NEW p \in Pubkey, Challenge(p)
      PROVE  MemosUnique'
  <2>1. PICK q \in Issuable(p, price, now) : IssueQuote(q, now)
    BY <1>2 DEF Challenge
  <2>2. q \in minted \/ (\A r \in minted : r.id # q.id)
    BY <2>1, IssuableQuote DEF TypeOK, StoreTypeOK
  <2> QED
    BY <2>1, <2>2 DEF IssueQuote, MemosUnique
<1> QED
  BY <1>1, <1>2, QuoteStep

\* A quote is minted only where the identity has no live one at this price, what
\* goes from the table has expired, and the passing of time only takes quotes away.
LEMMA MemosAreKeptStep ==
  ASSUME TypeOK, MemosAreKept, [Next]_vars
  PROVE  MemosAreKept'
<1> USE DEF TypeOK, StoreTypeOK
<1>1. CASE UNCHANGED <<quotes, minted>> /\ now' \in {now, now + 1}
  <2>1. Payable' \subseteq Payable
    BY <1>1 DEF Payable, Quote
  <2> QED
    BY <1>1, <2>1 DEF MemosAreKept
<1>2. ASSUME NEW p \in Pubkey, Challenge(p), now' = now
      PROVE  MemosAreKept'
  <2>1. PICK q \in Issuable(p, price, now) : IssueQuote(q, now)
    BY <1>2 DEF Challenge
  <2>2. q.pubkey = p /\ q.amount = price
    BY <2>1, IssuableQuote
  <2>3. Payable \subseteq Live(now)
    BY DEF MemosAreKept, Payable, Live, Quote
  <2>4. Payable' \subseteq Payable \cup {q}
    BY <1>2, <2>1 DEF IssueQuote, Payable
  <2>5. Payable' \subseteq quotes'
    BY <2>1, <2>3, <2>4 DEF IssueQuote
  <2>6. CASE q \in Live(now)
    <3>1. q \in Payable
      BY <2>6 DEF Live, Payable, Quote
    <3> QED
      BY <2>4, <2>5, <3>1 DEF MemosAreKept
  <2>7. CASE q \notin Live(now)
    <3>1. Reusable(p, price, now) = {}
      BY <2>1, <2>7 DEF Issuable, Reusable
    <3>2. ASSUME NEW r \in Payable, r.pubkey = p, r.amount = price
          PROVE  FALSE
      <4>1. \A s \in Live(now) : s.pubkey = p /\ s.amount = price => s = r
        BY <3>2 DEF MemosAreKept, Live, Payable, Quote
      <4>2. r.expires \in Nat /\ r \in Live(now)
        BY <2>3, <3>2 DEF Live, Quote
      <4>3. r \in Reusable(p, price, now)
        BY <3>2, <4>1, <4>2 DEF Reusable
      <4> QED
        BY <3>1, <4>3
    <3> QED
      BY <2>2, <2>4, <2>5, <3>2 DEF MemosAreKept
  <2> QED
    BY <2>6, <2>7
<1> QED
  BY <1>1, <1>2, QuoteStep

LEMMA CarriesOwnQuoteStep ==
  ASSUME TypeOK, CarriesOwnQuote, [Next]_vars
  PROVE  CarriesOwnQuote'
<1> USE DEF TypeOK, StoreTypeOK
<1>1. ASSUME settling' \subseteq settling
      PROVE  CarriesOwnQuote'
  BY <1>1, NothingForgotten DEF CarriesOwnQuote
<1>2. ASSUME NEW r \in Request, NEW p \in Pubkey, NEW h \in Hash, NEW q \in minted',
             AwaitHorizon(r, p, h, q), q.pubkey = p, now < q.expires
      PROVE  CarriesOwnQuote'
  BY <1>2, NothingForgotten DEF AwaitHorizon, CarriesOwnQuote
<1>3. ASSUME NEW r \in Request, NEW p \in Pubkey, NEW h \in Hash, NEW id \in PriceId,
             PayNamed(r, p, h, id)
      PROVE  CarriesOwnQuote'
  <2>1. PICK q \in Lookup(id, now) : q.pubkey = p /\ AwaitHorizon(r, p, h, q)
    BY <1>3 DEF PayNamed
  <2>2. q \in minted' /\ now < q.expires
    BY <1>3, <2>1 DEF Lookup, Live, Quote, PayNamed
  <2> QED
    BY <1>2, <2>1, <2>2
<1>4. ASSUME NEW r \in Request, NEW p \in Pubkey, NEW h \in Hash, NEW id \in PriceId,
             PayFallback(r, p, h, id)
      PROVE  CarriesOwnQuote'
  <2>1. PICK q \in Issuable(p, price, now) : IssueQuote(q, now) /\ AwaitHorizon(r, p, h, q)
    BY <1>4 DEF PayFallback
  <2>2. q \in Quote /\ q.pubkey = p /\ q.expires > now
    BY <2>1, IssuableQuote
  <2>3. q \in minted' /\ now < q.expires
    BY <2>1, <2>2 DEF IssueQuote, Quote
  <2> QED
    BY <1>2, <2>1, <2>2, <2>3
<1>5. ASSUME NEW t \in Tx, NEW q \in minted, NEW b \in Body, Submit(t, q, b)
      PROVE  settling' \subseteq settling
  BY <1>5 DEF Submit
<1>6. ASSUME NEW p \in Pubkey, NEW id \in PriceId, PayForeign(p, id)
      PROVE  settling' \subseteq settling
  BY <1>6 DEF PayForeign
<1>7. ASSUME NEW s \in settling,
             \/ PayCredited(s) \/ PayRepeated(s)
             \/ PayMismatch(s) \/ PayUnverifiable(s) \/ PayDropped(s)
      PROVE  settling' \subseteq settling
  BY <1>7 DEF PayCredited, PayRepeated, PayMismatch, PayUnverifiable, PayDropped, Answered
<1>8. ASSUME NEW r \in Request, NEW p \in Pubkey, Admit(r, p)
      PROVE  settling' \subseteq settling
  BY <1>8 DEF Admit
<1>9. ASSUME NEW p \in Pubkey, Refuse(p)
      PROVE  settling' \subseteq settling
  BY <1>9 DEF Refuse
<1>10. ASSUME NEW c \in calls, CallServed(c) \/ CallFailed(c)
       PROVE  settling' \subseteq settling
  BY <1>10 DEF CallServed, CallFailed
<1>11. ASSUME NEW P \in SUBSET Pubkey, WorkerWarm(P)
       PROVE  settling' \subseteq settling
  BY <1>11 DEF WorkerWarm
<1>12. ASSUME NEW a \in Price, Restart(a)
       PROVE  settling' \subseteq settling
  BY <1>12 DEF Restart
<1>13. CASE Tick
  BY <1>1, <1>13 DEF Tick
<1>14. CASE UNCHANGED vars
  BY <1>1, <1>14 DEF vars
<1> QED
  BY <1>1, <1>3, <1>4, <1>5, <1>6, <1>7, <1>8, <1>9, <1>10, <1>11, <1>12, <1>13,
     <1>14 DEF Next

\* A row enters consumed_tx only where PayCredited verified the payment, against
\* the quote the submission brought over its await.
LEMMA ConsumedStep ==
  ASSUME TypeOK, MemosUnique, HashesUnique, CarriesOwnQuote, CreditsArePaidFor,
         [Next]_vars
  PROVE  HashesUnique' /\ CreditsArePaidFor'
<1>1. CASE UNCHANGED consumed
  <2>1. HashesUnique'
    BY <1>1 DEF HashesUnique
  <2>2. MemosUnique'
    BY MemosUniqueStep
  <2>3. ASSUME NEW c \in consumed
        PROVE  \E x \in chain', q \in minted' :
                 /\ x.tx = c.hash.tx /\ x.body.ok /\ x.memo = q.id
                 /\ q.pubkey = c.pubkey /\ c.at < q.expires
                 /\ \A r \in minted' : r.id = x.memo => r = q
                 /\ \E op \in x.body.ops : Pays(op, q)
    BY <2>2, <2>3, NothingForgotten DEF CreditsArePaidFor, MemosUnique
  <2> QED
    BY <1>1, <2>1, <2>3 DEF CreditsArePaidFor
<1>2. ASSUME NEW s \in settling, PayCredited(s)
      PROVE  HashesUnique' /\ CreditsArePaidFor'
  <2>1. /\ consumed' = consumed \cup {[hash |-> s.hash, pubkey |-> s.pubkey, at |-> s.at]}
        /\ ~AlreadySpent(s.hash)
        /\ Verifies(s.hash, s.quote)
        /\ UNCHANGED <<chain, minted>>
    BY <1>2 DEF PayCredited, CreditForTx, unmetered
  <2>2. HashesUnique'
    BY <2>1 DEF HashesUnique, AlreadySpent
  <2>3. PICK x \in chain : /\ x.tx = s.hash.tx
                           /\ x.body.ok
                           /\ x.memo = s.quote.id
                           /\ \E op \in x.body.ops : Pays(op, s.quote)
    BY <2>1 DEF Verifies
  <2>4. /\ s.quote \in minted
        /\ s.quote.pubkey = s.pubkey
        /\ s.at < s.quote.expires
        /\ \A r \in minted : r.id = x.memo => r = s.quote
    BY <2>3 DEF CarriesOwnQuote, MemosUnique
  <2> QED
    BY <2>1, <2>2, <2>3, <2>4 DEF CreditsArePaidFor
<1>3. CASE Tick
  BY <1>1, <1>3 DEF Tick, store
<1> QED
  BY <1>1, <1>2, <1>3, MeterStep

\* An identity that was entitled at some moment t up to now is never found
\* without that time: settle only moves a window's end forward, past now, and a
\* credit disappears only into a window.
LEMMA EntitlementKept ==
  ASSUME TypeOK, [Next]_vars, NEW p \in Pubkey, NEW t \in Nat, t <= now, Entitled(p, t)
  PROVE  Entitled(p, t)'
<1> USE DEF TypeOK, StoreTypeOK, Row
<1>1. CASE UNCHANGED paid
  BY <1>1 DEF Entitled
<1>2. ASSUME NEW s \in settling, PayCredited(s)
      PROVE  Entitled(p, t)'
  <2>1. s.pubkey \in Pubkey
    BY DEF Settling
  <2>2. /\ paid'[p].through = paid[p].through
        /\ paid'[p].credit \in {paid[p].credit, paid[p].credit + Window}
    BY <1>2, <2>1 DEF PayCredited, CreditForTx
  <2> QED
    BY <2>2, WindowAssumption DEF Entitled
<1>3. ASSUME NEW P \in SUBSET Pubkey, Settle(P, now)
      PROVE  Entitled(p, t)'
  <2>1. paid'[p] = paid[p] \/ paid'[p] = Settled(paid[p], now)
    BY <1>3 DEF Settle
  <2>2. CASE paid'[p] = Settled(paid[p], now) /\ paid[p].credit > 0
    <3>1. paid'[p].through = Later(now, paid[p].through) + paid[p].credit
      BY <2>2 DEF Settled
    <3> QED
      BY <2>2, <3>1 DEF Entitled, Later
  <2> QED
    BY <2>1, <2>2 DEF Settled, Entitled
<1>4. CASE Tick
  BY <1>1, <1>4 DEF Tick, store
<1> QED
  BY <1>1, <1>2, <1>3, <1>4, MeterStep

\* A call that is in flight after a step was in flight before it or has just been
\* admitted.
LEMMA CallsStep ==
  ASSUME TypeOK, [Next]_vars, NEW c \in calls'
  PROVE  c \in calls \/ (c.pubkey \in Pubkey /\ c.at = now /\ Entitled(c.pubkey, now))
<1>1. ASSUME NEW r \in Request, NEW p \in Pubkey, Admit(r, p)
      PROVE  c \in calls \/ (c.pubkey \in Pubkey /\ c.at = now /\ Entitled(c.pubkey, now))
  BY <1>1 DEF Admit
<1>2. ASSUME NEW t \in Tx, NEW q \in minted, NEW b \in Body, Submit(t, q, b)
      PROVE  calls' \subseteq calls
  BY <1>2 DEF Submit
<1>3. ASSUME NEW r \in Request, NEW p \in Pubkey, NEW h \in Hash, NEW id \in PriceId,
             PayNamed(r, p, h, id) \/ PayFallback(r, p, h, id)
      PROVE  calls' \subseteq calls
  BY <1>3 DEF PayNamed, PayFallback, AwaitHorizon
<1>4. ASSUME NEW p \in Pubkey, NEW id \in PriceId, PayForeign(p, id)
      PROVE  calls' \subseteq calls
  BY <1>4 DEF PayForeign
<1>5. ASSUME NEW s \in settling,
             \/ PayCredited(s) \/ PayRepeated(s)
             \/ PayMismatch(s) \/ PayUnverifiable(s) \/ PayDropped(s)
      PROVE  calls' \subseteq calls
  BY <1>5 DEF PayCredited, PayRepeated, PayMismatch, PayUnverifiable, PayDropped
<1>6. ASSUME NEW p \in Pubkey, Refuse(p)
      PROVE  calls' \subseteq calls
  BY <1>6 DEF Refuse
<1>7. ASSUME NEW d \in calls, CallServed(d) \/ CallFailed(d)
      PROVE  calls' \subseteq calls
  BY <1>7 DEF CallServed, CallFailed
<1>8. ASSUME NEW P \in SUBSET Pubkey, WorkerWarm(P)
      PROVE  calls' \subseteq calls
  BY <1>8 DEF WorkerWarm
<1>9. ASSUME NEW a \in Price, Restart(a)
      PROVE  calls' \subseteq calls
  BY <1>9 DEF Restart
<1>10. CASE Tick
  BY <1>10 DEF Tick
<1>11. CASE UNCHANGED vars
  BY <1>11 DEF vars
<1> QED
  BY <1>1, <1>2, <1>3, <1>4, <1>5, <1>6, <1>7, <1>8, <1>9, <1>10, <1>11 DEF Next

LEMMA CallsOnPaidTimeStep ==
  ASSUME TypeOK, CallsInThePast, CallsOnPaidTime, [Next]_vars
  PROVE  CallsInThePast' /\ CallsOnPaidTime'
<1>1. now \in Nat /\ now' \in Nat /\ now <= now'
  BY QuoteStep DEF TypeOK
<1>2. ASSUME NEW c \in calls'
      PROVE  c.at <= now' /\ (c.at < paid'[c.pubkey].through \/ paid'[c.pubkey].credit > 0)
  <2>1. c.pubkey \in Pubkey /\ c.at \in Nat /\ c.at <= now /\ Entitled(c.pubkey, c.at)
    BY <1>1, CallsStep DEF TypeOK, Call, CallsInThePast, CallsOnPaidTime, Entitled
  <2>2. Entitled(c.pubkey, c.at)'
    BY <2>1, EntitlementKept
  <2> QED
    BY <1>1, <2>1, <2>2 DEF Entitled
<1> QED
  BY <1>2 DEF CallsInThePast, CallsOnPaidTime

LEMMA StepInv == IInv /\ [Next]_vars => IInv'
BY StepType, MemosUniqueStep, MemosAreKeptStep, CarriesOwnQuoteStep, ConsumedStep,
   CallsOnPaidTimeStep
   DEF IInv

LEMMA Invariant == Spec => []IInv
BY InitInv, StepInv, PTL DEF Spec

-----------------------------------------------------------------------------
(***************************************************************************)
(* The invariants                                                          *)
(***************************************************************************)

\* Whatever was credited was paid for, by the identity it was credited to, on a
\* quote that was payable: for any ledger, and any order of answers and restarts.
THEOREM OnlyPaymentsCredit == Spec => []CreditsArePaidFor
<1>1. IInv => CreditsArePaidFor
  BY DEF IInv
<1> QED
  BY <1>1, Invariant, PTL

\* A memo that was told is kept and told again until it expires, for any prices,
\* restarts and interleaving of challenges.
THEOREM QuotesAreReused == Spec => []MemosAreKept
<1>1. IInv => MemosAreKept
  BY DEF IInv
<1> QED
  BY <1>1, Invariant, PTL

\* Work is done on paid time only.
THEOREM NoFreeCalls == Spec => []CallsOnPaidTime
<1>1. IInv => CallsOnPaidTime
  BY DEF IInv
<1> QED
  BY <1>1, Invariant, PTL

\* One payment, one window, as long as every client spells a hash the same way.
\* The proviso is needed: see the run billing_spelling.
THEOREM NoDoubleCredit ==
  ASSUME \A a, b \in Spelling : a = b
  PROVE  Spec => []OnePaymentOneWindow
<1>1. IInv => OnePaymentOneWindow
  <2> SUFFICES ASSUME IInv, NEW c \in consumed, NEW d \in consumed,
                      c.hash.tx = d.hash.tx
               PROVE  c = d
    BY DEF OnePaymentOneWindow
  <2>1. c.hash \in Hash /\ d.hash \in Hash
    BY DEF IInv, TypeOK, StoreTypeOK, Consumed
  <2>2. c.hash = d.hash
    BY <2>1 DEF Hash
  <2> QED
    BY <2>2 DEF IInv, HashesUnique
<1> QED
  BY <1>1, Invariant, PTL

-----------------------------------------------------------------------------
(***************************************************************************)
(* Steps                                                                   *)
(***************************************************************************)
LEMMA ConservedStep ==
  ASSUME TypeOK, [Next]_vars, NEW p \in Pubkey
  PROVE  Left(p)' = Left(p) + (IF Buys(p) THEN Window ELSE 0)
                            - (IF RunsDown(p) THEN now' - now ELSE 0)
<1> USE DEF TypeOK, StoreTypeOK, Row
<1>1. CASE UNCHANGED <<paid, consumed, now>>
  BY <1>1 DEF Left, Buys, RunsDown, Later
<1>2. ASSUME NEW s \in settling, PayCredited(s)
      PROVE  Left(p)' = Left(p) + (IF Buys(p) THEN Window ELSE 0)
                                - (IF RunsDown(p) THEN now' - now ELSE 0)
  <2> DEFINE new == [hash |-> s.hash, pubkey |-> s.pubkey, at |-> s.at]
  <2>1. /\ now' = now
        /\ new \notin consumed
        /\ consumed' = consumed \cup {new}
        /\ s.pubkey \in Pubkey
        /\ paid' = [paid EXCEPT ![s.pubkey].credit = @ + Window]
    BY <1>2 DEF PayCredited, CreditForTx, AlreadySpent, unmetered, Settling
  <2>2. Buys(p) <=> p = s.pubkey
    BY <2>1 DEF Buys
  <2>3. ~RunsDown(p)
    BY <2>1 DEF RunsDown
  <2>4. /\ paid'[p].through = paid[p].through
        /\ paid'[p].credit = paid[p].credit + (IF p = s.pubkey THEN Window ELSE 0)
    BY <2>1
  <2> QED
    BY <2>1, <2>2, <2>3, <2>4, WindowAssumption DEF Left, Later
<1>3. ASSUME NEW P \in SUBSET Pubkey, Settle(P, now), UNCHANGED <<consumed, now>>
      PROVE  Left(p)' = Left(p) + (IF Buys(p) THEN Window ELSE 0)
                                - (IF RunsDown(p) THEN now' - now ELSE 0)
  <2>1. ~Buys(p) /\ ~RunsDown(p)
    BY <1>3 DEF Buys, RunsDown
  <2>2. paid'[p] = paid[p] \/ paid'[p] = Settled(paid[p], now)
    BY <1>3 DEF Settle
  <2> QED
    BY <1>3, <2>1, <2>2 DEF Left, Later, Settled
<1>4. CASE Tick
  <2>1. UNCHANGED <<paid, consumed>> /\ now' = now + 1
    BY <1>4 DEF Tick, store
  <2> QED
    BY <2>1 DEF Left, Buys, RunsDown, Later
<1> QED
  BY <1>1, <1>2, <1>3, <1>4, MeterStep

\* Time is added by payments only and taken away by the clock only, and only from
\* a window that runs.
THEOREM PaidTimeConserved == Spec => TimeIsConserved
<1>1. TypeOK /\ [Next]_vars =>
        [\A p \in Pubkey :
           Left(p)' = Left(p) + (IF Buys(p) THEN Window ELSE 0)
                              - (IF RunsDown(p) THEN now' - now ELSE 0)]_vars
  BY ConservedStep
<1> QED
  BY <1>1, TypeCorrect, PTL DEF Spec, TimeIsConserved

-----------------------------------------------------------------------------
(***************************************************************************)
(* The abstract meter                                                      *)
(***************************************************************************)
LEMMA MeterInit == Init => Meter!Init
BY DEF Init, StoreInit, Meter!Init

LEMMA MeterStutters ==
  ASSUME UNCHANGED <<paid, consumed, now>>
  PROVE  UNCHANGED Meter!vars
BY DEF Meter!vars

\* Crediting a payment is buying with a transaction that has not bought yet.
LEMMA CreditIsBuy ==
  ASSUME TypeOK, \A a, b \in Spelling : a = b, NEW s \in settling, PayCredited(s)
  PROVE  Meter!Buy(s.pubkey, s.hash.tx)
<1> USE DEF TypeOK, StoreTypeOK
<1>1. /\ s.hash \in Hash
      /\ s.pubkey \in Pubkey
      /\ consumed' = consumed \cup {[hash |-> s.hash, pubkey |-> s.pubkey, at |-> s.at]}
      /\ paid' = [paid EXCEPT ![s.pubkey].credit = @ + Window]
      /\ now' = now
      /\ ~AlreadySpent(s.hash)
  BY DEF PayCredited, CreditForTx, Settling, unmetered
<1>2. s.hash.tx \notin {c.hash.tx : c \in consumed}
  <2> SUFFICES ASSUME NEW c \in consumed, c.hash.tx = s.hash.tx
               PROVE  FALSE
    OBVIOUS
  <2>1. c.hash \in Hash
    BY DEF Consumed
  <2>2. c.hash = s.hash
    BY <1>1, <2>1 DEF Hash
  <2> QED
    BY <1>1, <2>2 DEF AlreadySpent
<1>3. {c.hash.tx : c \in consumed'} = {c.hash.tx : c \in consumed} \cup {s.hash.tx}
  <2> DEFINE new == [hash |-> s.hash, pubkey |-> s.pubkey, at |-> s.at]
  <2>1. consumed' = consumed \cup {new} /\ new.hash = s.hash
    BY <1>1
  <2> HIDE DEF new
  <2>2. ASSUME NEW t
        PROVE  (\E c \in consumed' : t = c.hash.tx) <=>
                 ((\E c \in consumed : t = c.hash.tx) \/ t = s.hash.tx)
    BY <2>1
  <2> QED
    BY <2>2
<1>4. [p \in Pubkey |-> paid'[p].credit] =
        [[p \in Pubkey |-> paid[p].credit] EXCEPT ![s.pubkey] = @ + Window]
  BY <1>1 DEF Row
<1>5. [p \in Pubkey |-> paid'[p].through] = [p \in Pubkey |-> paid[p].through]
  BY <1>1 DEF Row
<1> QED
  BY <1>1, <1>2, <1>3, <1>4, <1>5 DEF Meter!Buy

\* Settling is starting, unless nobody has anything to start.
LEMMA SettleIsStart ==
  ASSUME TypeOK, NEW P \in SUBSET Pubkey, Settle(P, now), UNCHANGED <<consumed, now>>
  PROVE  Meter!Start(P) \/ UNCHANGED Meter!vars
<1> USE DEF TypeOK, StoreTypeOK, Row
<1>1. CASE \A p \in P : paid[p].credit = 0
  <2>1. paid' = paid
    BY <1>1 DEF Settle, Settled
  <2> QED
    BY <2>1, MeterStutters
<1>2. CASE \E p \in P : paid[p].credit # 0
  <2>1. \E p \in P : [i \in Pubkey |-> paid[i].credit][p] > 0
    BY <1>2
  <2>2. ASSUME NEW p \in Pubkey
        PROVE  /\ paid'[p].through = IF p \in P /\ paid[p].credit > 0
                                       THEN Later(now, paid[p].through) + paid[p].credit
                                       ELSE paid[p].through
               /\ paid'[p].credit = IF p \in P THEN 0 ELSE paid[p].credit
    BY DEF Settle, Settled
  <2>3. ASSUME NEW p \in Pubkey
        PROVE  Meter!EndOrNow(p) = Later(now, paid[p].through)
    BY DEF Meter!EndOrNow, Later
  <2> QED
    BY <2>1, <2>2, <2>3 DEF Meter!Start
<1> QED
  BY <1>1, <1>2

LEMMA MeterNext ==
  ASSUME TypeOK, \A a, b \in Spelling : a = b, [Next]_vars
  PROVE  [Meter!Next]_(Meter!vars)
<1>1. ASSUME NEW s \in settling, PayCredited(s)
      PROVE  Meter!Next
  <2>1. s.pubkey \in Pubkey /\ s.hash.tx \in Tx
    BY DEF TypeOK, Settling, Hash
  <2> QED
    BY <1>1, <2>1, CreditIsBuy DEF Meter!Next
<1>2. ASSUME NEW P \in SUBSET Pubkey, Settle(P, now), UNCHANGED <<consumed, now>>
      PROVE  Meter!Next \/ UNCHANGED Meter!vars
  BY <1>2, SettleIsStart DEF Meter!Next
<1>3. CASE UNCHANGED <<paid, consumed, now>>
  BY <1>3, MeterStutters
<1>4. CASE Tick
  BY <1>4 DEF Tick, store, Meter!Next, Meter!Pass
<1> QED
  BY <1>1, <1>2, <1>3, <1>4, MeterStep

\* With one way to spell a hash, billing is the abstract meter: every payment buys
\* one window, waiting time starts only behind what is left, and nothing that
\* goes wrong around it adds or loses a second.
THEOREM BillingImplementsMeter ==
  ASSUME \A a, b \in Spelling : a = b
  PROVE  Spec => MeterSpec
<1>1. Init => Meter!Init
  BY MeterInit
<1>2. TypeOK /\ [Next]_vars => [Meter!Next]_(Meter!vars)
  BY MeterNext
<1> QED
  BY <1>1, <1>2, TypeCorrect, PTL DEF Spec, MeterSpec, Meter!Spec

=============================================================================
