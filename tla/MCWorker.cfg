CONSTANTS
  Process = {p1, p2}
  Thread = {t1, t2}
  Nobody = nobody
  Pid = {n1, n2}
  Blob = blob
  Key <- Calls
  Images <- ImagesHere
  MaxCalls = 2
  Seed = {0}
  Reference = {clip}
  OwnVoice = own
  DefaultBackbone = "trellis"
SPECIFICATION MCSpec
INVARIANT WorkerTypeOK
INVARIANT OnlyNamesakesCollide
INVARIANT UntypedInPassing
INVARIANT RightVoice
INVARIANT TakesAreReproducible
PROPERTY LoadedOnce
PROPERTY Answered
