\* Two clients, two submissions or calls at a time, two transactions.
CONSTANTS
  Pubkey = {p1, p2}
  PriceId = {i1, i2}
  Tx = {t1, t2}
  Spelling = {"lower"}
  Request = {r1, r2}
  Price = {1, 2}
  Window = 2
  QuoteTtl = 2
  MaxTime = 3
  BindPayer = TRUE
  Body <- AllBodies
SPECIFICATION Spec
SYMMETRY Symmetry
INVARIANTS
  TypeOK
  OnePaymentOneWindow
  CreditsArePaidFor
  MemosAreKept
  CallsOnPaidTime
PROPERTIES
  TimeIsConserved
  MeterSpec
