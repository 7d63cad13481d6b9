CONSTANTS
  Pubkey = {p1}
  PriceId = {i1, i2}
  Tx = {t1}
  Spelling = {"lower"}
  Request = {r1, r2}
  Price = {1}
  Window = 2
  QuoteTtl = 2
  MaxTime = 3
  BindPayer = TRUE
  Body <- GoodBodies
SPECIFICATION Spec
PROPERTY
  RetryNeverRefused
