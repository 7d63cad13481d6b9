---------------------------- MODULE WindowStore ----------------------------
(***************************************************************************)
(* `WindowStore` of billing.py: the tables `paid`, `consumed_tx` and        *)
(* `quotes` on SQLite.                                                      *)
(*                                                                         *)
(* Every method holds `_lock` and runs one transaction, so each is one      *)
(* operator: a predicate or a set for a method that reads, an action on the *)
(* tables it writes for one that writes.  The tables outlive a crash of the *)
(* process; a transaction that had not committed left nothing behind.       *)
(***************************************************************************)
EXTENDS Naturals

CONSTANTS Pubkey,     \* verified wallet identities
          PriceId,    \* the memos `secrets.token_hex` can draw
          Tx,         \* Stellar transactions
          Spelling,   \* the ways a client writes the hash of a transaction
          Price,      \* the amounts one window may cost
          Window,     \* window_s
          QuoteTtl    \* QUOTE_TTL_S

ASSUME WindowAssumption == Window \in Nat \ {0}
ASSUME TtlAssumption == QuoteTtl \in Nat \ {0}
ASSUME PriceAssumption == Price \subseteq Nat

VARIABLES paid,       \* paid[p]: the row of p, zeros when there is none
          consumed,   \* rows of consumed_tx
          quotes,     \* rows of quotes
          minted      \* every quote ever issued: no memo is drawn twice

store == <<paid, consumed, quotes, minted>>

\* A hash as a client submits it: which transaction, written how.
Hash == [tx : Tx, spelling : Spelling]

Row == [through : Nat, credit : Nat]
Quote == [id : PriceId, pubkey : Pubkey, amount : Price, expires : Nat]
Consumed == [hash : Hash, pubkey : Pubkey, at : Nat]

StoreTypeOK ==
  /\ paid \in [Pubkey -> Row]
  /\ consumed \subseteq Consumed
  /\ minted \subseteq Quote
  /\ quotes \subseteq minted

StoreInit ==
  /\ paid = [p \in Pubkey |-> [through |-> 0, credit |-> 0]]
  /\ consumed = {}
  /\ quotes = {}
  /\ minted = {}

-----------------------------------------------------------------------------
(***************************************************************************)
(* Windows                                                                 *)
(***************************************************************************)
Later(s, t) == IF s > t THEN s ELSE t

\* Mutant: the window is still open at the second it ends.
EntitledAtTheEnd(p, t) == t <= paid[p].through \/ paid[p].credit > 0

\* `entitled`: a running window, or one bought and not started.
Entitled(p, t) == t < paid[p].through \/ paid[p].credit > 0

\* Mutant: the new window starts now, whatever was left of the old one.
SettledFromNow(row, t) ==
  IF row.credit = 0 THEN row
  ELSE [through |-> t + row.credit, credit |-> 0]

\* Mutant: the credit is drawn down by the distance to the new end.
SettledOverdrawn(row, t) ==
  IF row.credit = 0 THEN row
  ELSE LET end == Later(t, row.through) + row.credit
       IN  [through |-> end, credit |-> row.credit - (end - t)]

\* The row after `settle`: the credit extends the later of now and the end.
Settled(row, t) ==
  IF row.credit = 0 THEN row
  ELSE [through |-> Later(t, row.through) + row.credit, credit |-> 0]

\* `settle` for each identity of P: the hooks settle a list of labels.
Settle(P, t) ==
  paid' = [p \in Pubkey |-> IF p \in P THEN Settled(paid[p], t) ELSE paid[p]]

\* Mutant: the insert that fails on a known hash is not there.
NeverSpent(h) == FALSE

\* The insert into consumed_tx raises IntegrityError: its key is the hash as it
\* was submitted.
AlreadySpent(h) == \E c \in consumed : c.hash = h

\* `credit_for_tx`, where it returns True: both writes, in one transaction.
CreditForTx(h, p, t) ==
  /\ ~AlreadySpent(h)
  /\ consumed' = consumed \cup {[hash |-> h, pubkey |-> p, at |-> t]}
  /\ paid' = [paid EXCEPT ![p].credit = @ + Window]

-----------------------------------------------------------------------------
(***************************************************************************)
(* Quotes                                                                  *)
(***************************************************************************)
Live(t) == {q \in quotes : q.expires > t}

\* `quote`: the live quote with this memo, if there is one.
Lookup(id, t) == {q \in Live(t) : q.id = id}

FreshIds == PriceId \ {q.id : q \in minted}

NewQuotes(p, a, t) ==
  {[id |-> i, pubkey |-> p, amount |-> a, expires |-> t + QuoteTtl] : i \in FreshIds}

\* The rows the SELECT of `issue_quote` may return first.
Reusable(p, a, t) ==
  LET mine == {q \in Live(t) : q.pubkey = p /\ q.amount = a}
  IN  {q \in mine : \A r \in mine : r.expires <= q.expires}

\* The quotes `issue_quote` may return: a live one of this identity at this
\* price, or a new one when there is none.
Issuable(p, a, t) ==
  IF Reusable(p, a, t) # {} THEN Reusable(p, a, t) ELSE NewQuotes(p, a, t)

\* Mutant: a quote takes the place of whatever its identity held before.
IssueQuoteReplacing(q, t) ==
  /\ quotes' = {r \in Live(t) : r.pubkey # q.pubkey} \cup {q}
  /\ minted' = minted \cup {q}

\* `issue_quote` returning q \in Issuable: expired rows go, q is in the table.
IssueQuote(q, t) ==
  /\ quotes' = Live(t) \cup {q}
  /\ minted' = minted \cup {q}

=============================================================================
