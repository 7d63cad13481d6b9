\* Two leases, two handlers at a time, and every fairness assumption.  What the leases are
\* labelled with makes no difference to these properties.
CONSTANTS
  Lease = {l1, l2}
  Label = {}
  Unlabelled = nobody
  Request = {r1, r2}
  Loop = loop
  LeaseTtl = 2
  PingInterval = 1
  HealthCache = 1
  PingTimeout = 3
  HealthTimeout = 1
  IdleTimeout = 2
SPECIFICATION KeepLiveSpec
INVARIANTS
  TypeOK
  KeptAlive
  SessionWhileLeased
  AccountsMatch
  LapseBounded
  GapBounded
PROPERTIES
  LoopWindsDown
  WarmIsNoticed
