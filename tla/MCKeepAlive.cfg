\* The seconds of the code.
CONSTANTS
  Lease = {l1}
  Label = {p1}
  Unlabelled = none
  Request = {r1}
  Loop = loop
  LeaseTtl = 60
  PingInterval = 6
  HealthCache = 3
  PingTimeout = 90
  HealthTimeout = 10
  IdleTimeout = 10
SPECIFICATION PromptSpec
INVARIANT HeldWorkerStaysUp
