------------------------------- MODULE Price --------------------------------
(***************************************************************************)
(* What a window costs (`BillingConfig.amount`): Python's Decimal, which    *)
(* keeps Digits significant digits of every result, and then the next       *)
(* stroop up.  Prices and amounts are in stroops.                           *)
(***************************************************************************)
EXTENDS Integers

CONSTANTS Digits,  \* `getcontext().prec`
          Unit     \* stroops in one of the asset: 1 / STROOP

Ceiling(n, d) == (n + d - 1) \div d

\* The nearest whole number to n / d, the even one of two.
HalfEven(n, d) ==
  LET q == n \div d
      r == n % d
  IN  IF 2 * r > d \/ (2 * r = d /\ q % 2 = 1) THEN q + 1 ELSE q

\* n / d as a coefficient of Digits digits over a power of ten, or that many tens.
Rounded(n, d) ==
  LET fits(c) == 10^(Digits - 1) <= c /\ c < 10^Digits
      shift   == CHOOSE e \in -Digits..(2 * Digits) :
                   IF e >= 0 THEN fits((n * 10^e) \div d) ELSE fits(n \div (d * 10^(-e)))
  IN  IF shift >= 0 THEN [num |-> HalfEven(n * 10^shift, d), den |-> 10^shift]
      ELSE [num |-> HalfEven(n, d * 10^(-shift)) * 10^(-shift), den |-> 1]

\* `Decimal(window_s) / Decimal(60) * price_per_min`, and ROUND_UP to the stroop.
Amount(windowS, pricePerMin) ==
  LET minutes == Rounded(windowS, 60)
      raw     == Rounded(minutes.num * pricePerMin, minutes.den * Unit)
  IN  Ceiling(raw.num * Unit, raw.den)

\* What it costs by the rule: the next stroop above the exact price.
Cost(windowS, pricePerMin) == Ceiling(windowS * pricePerMin, 60)

=============================================================================
