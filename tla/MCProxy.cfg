CONSTANTS
  reangle = reangle
  mesh = mesh
  shared = shared
  own = own
  Pubkey = {p1, p2}
  Payment = {m1}
  Window = 2
  Nobody = nobody
  Lease = {l1}
  Tool = {reangle, mesh}
  Endpoint = {shared, own}
  EndpointId = shared
  ToolEndpoint <- OwnEndpoint
  Request = {r1}
  LeaseTtl = 2
  Budget = 1
  CallTimeout = 1
  PollInitial = 1
  PollMax = 2
  MaxTime = 5
SPECIFICATION Spec
SYMMETRY Symmetry
INVARIANT ProxyTypeOK
INVARIANT WarmthIsPaidFor
INVARIANT AnsweredInTime
INVARIANT InflightCounts
PROPERTY StartsOnOwnUse
