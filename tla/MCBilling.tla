----------------------------- MODULE MCBilling -----------------------------
(***************************************************************************)
(* Billing on small instances.                                             *)
(***************************************************************************)
EXTENDS Billing, TLC

Paying(amount, p) == [to |-> "payee", asset |-> "settle", amount |-> amount, from |-> p]

\* Transactions that pay for a window at price 1.
Good == {[ok |-> TRUE, ops |-> {Paying(1, p)}] : p \in Pubkey}

\* Transactions that do not: too little to us, enough to somebody else, and
\* enough to us from a stranger.
Split ==
  [ok |-> TRUE,
   ops |-> {Paying(0, p) : p \in Pubkey}
           \cup {[Paying(1, p) EXCEPT !.to = "other"] : p \in Pubkey}
           \cup {Paying(1, "stranger")}]

\* One that failed on the ledger.
Failed == [ok |-> FALSE, ops |-> {Paying(1, p) : p \in Pubkey}]

GoodBodies == Good
AllBodies == Good \cup {Split, Failed}

\* What a window costs, with fewer digits than Decimal's 28 and coarser stroops than
\* the ledger's.  An amount is never short of the exact price (the docstring of
\* `amount`), and it is the next stroop for windows of a multiple of three
\* seconds, as the default is.  Others may cost one stroop more: the quotient by 60
\* is rounded before the price is multiplied in.
Decimals == INSTANCE Price WITH Digits <- 4, Unit <- 10

ASSUME PriceIsExact ==
  \A w \in 6..120, p \in 1..30 :
    /\ Decimals!Amount(w, p) - Decimals!Cost(w, p) \in {0, 1}
    /\ w % 3 = 0 => Decimals!Amount(w, p) = Decimals!Cost(w, p)

Symmetry ==
  Permutations(Pubkey) \cup Permutations(PriceId) \cup Permutations(Tx)
    \cup Permutations(Request)

=============================================================================
