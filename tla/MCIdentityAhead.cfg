\* The same wallets, whose clocks may be a moment ahead of the proxy's as well.
CONSTANTS
  Pubkey = {p1, p2}
  Nonce = {n1, n2}
  Target = {x1, x2}
  Window = 2
  Behind = 2
  Ahead = 1
  MaxTime = 5
SPECIFICATION Spec
INVARIANT
  RememberedWhileFresh
