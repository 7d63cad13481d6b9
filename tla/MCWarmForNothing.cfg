CONSTANTS
  Lease = {l1}
  Label = {a}
  Unlabelled = nobody
  Request = {r1}
  Loop = loop
  LeaseTtl = 2
  PingInterval = 1
  HealthCache = 1
  PingTimeout = 3
  HealthTimeout = 1
SPECIFICATION Spec
PROPERTY
  NoWindowForNothing
