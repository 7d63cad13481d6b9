CONSTANTS
  Pubkey = {p1}
  Payment = {m1}
  Window = 2
  Nobody = nobody
  Lease = {l1}
  Tool = {tts}
  Endpoint = {shared}
  EndpointId = shared
  ToolEndpoint <- NoOwnEndpoint
  Request = {r1}
  LeaseTtl = 2
  Budget = 1
  CallTimeout = 1
  PollInitial = 1
  PollMax = 2
  MaxTime = 3
SPECIFICATION ToldSpec
PROPERTY NoResultNoCharge
