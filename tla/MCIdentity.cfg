\* Two wallets that draw from the same two nonces, clocks behind the proxy's.
CONSTANTS
  Pubkey = {p1, p2}
  Nonce = {n1, n2}
  Target = {x1, x2}
  Window = 2
  Behind = 2
  Ahead <- Late
  MaxTime = 5
SPECIFICATION Spec
SYMMETRY Symmetry
INVARIANTS
  TypeOK
  RememberedWhileFresh
  NotLockedOut
PROPERTY
  AcceptedOnce
